---------------------------- MODULE Provisioning ----------------------------
(***************************************************************************)
(* The provisioning wizard (cmd/gmapssaas/cmdprovision), run again and     *)
(* again with its state file, and the update command beside it.  Every run *)
(* may end at any point: by an error, by a write of the file that fails,   *)
(* or because it is killed, in the middle of such a write too, which is    *)
(* not a replacement: what it leaves cannot be loaded.  What a run         *)
(* generates is named by the number of the run.                            *)
(***************************************************************************)
EXTENDS Integers

CONSTANT MaxRuns \* bound

ASSUME ProvisioningAssumption == MaxRuns \in Nat \ {0}

Own == -1        \* the server or the account the operator brings
Ext == -2        \* the database the operator brings
Cloud(n) == MaxRuns + n          \* the database that the cloud makes in run n
Places == {Own} \cup 1..MaxRuns  \* 1..MaxRuns: the servers made
Dbs == {Ext} \cup Places \cup {Cloud(n) : n \in 1..MaxRuns} \* the servers have one each
Secret == {"key", "salt", "ssh"}
Entry == {"salt", "ssh"}         \* what is stored, encrypted under the key

NoUrl == [db |-> 0, pw |-> 0]
Blank ==
  [provider |-> "none", image |-> FALSE, place |-> 0, conn |-> FALSE, setup |-> FALSE, url |-> NoUrl,
   secret |-> [s \in Secret |-> 0], deployed |-> FALSE, app |-> FALSE, user |-> 0]
NoFile == [Blank EXCEPT !.provider = "no file"]
TornFile == [Blank EXCEPT !.provider = "torn file"]

VARIABLES
  file, mem,     \* ProvisionState, on disk and in the run
  pc, runs,
  left,          \* entries the run has still to store
  servers,       \* the servers made: which SSH key opens each
  cloudKey,      \* the SSH key that is registered under the wizard's name
  pw, conf, admins, \* of each database: password, stored entries, the admin user (0: none)
  app, apps,     \* what is deployed; the apps the cloud's platform has (2: several)
  lost,          \* history: a state was given up, or torn by a write cut in the middle
  cut, missed    \* history: made by a run that ended before its save; a listing of the apps failed

provVars == <<file, mem, pc, runs, left, servers, cloudKey, pw, conf, admins, app, apps, lost, cut, missed>>
cloud == <<servers, cloudKey>>
database == <<pw, conf, admins>>
deployment == <<app, apps, missed>>
history == <<lost, cut>>

ProvInit ==
  /\ file = NoFile /\ mem = Blank /\ pc = "off" /\ runs = 0 /\ left = {}
  /\ servers = [n \in 1..MaxRuns |-> 0] /\ cloudKey = 0
  /\ pw = [d \in Dbs |-> IF d = Ext THEN 1 ELSE 0] /\ admins = [d \in Dbs |-> 0]
  /\ conf = [d \in Dbs |-> [e \in Entry |-> [key |-> 0, val |-> 0]]]
  /\ app = [url |-> NoUrl, key |-> 0, salt |-> 0] /\ apps = 0
  /\ lost = FALSE /\ cut = {} /\ missed = FALSE

\* What a state knows of.
Known(st) == {<<"server", st.place>>, <<"database", st.url.db>>}

\* The state is written to the end; where the write fails or is cut the run ends (Stop).
SaveAnd(next) == file' = mem' /\ pc' = next

\* Where a run has, or may have, a save before it: of an image, a check, a secret, or DigitalOcean's sizes.
Saving ==
  \/ pc \in {"image", "chosen", "created", "deployed", "created admin"}
  \/ (pc = "connect" /\ ~mem.conn) \/ (pc = "setup" /\ ~mem.setup)
  \/ pc = "database" /\ mem.url = NoUrl /\ mem.provider = "do"
  \/ pc \in Secret /\ mem.secret[pc] = 0
-----------------------------------------------------------------------------
(* A run begins and ends. *)

Begin(resume) ==
  /\ pc = "off" /\ file # TornFile /\ runs < MaxRuns /\ runs' = runs + 1 /\ pc' = "image"
  /\ mem' = (IF file # NoFile /\ resume THEN file ELSE Blank)
  /\ file' = (IF resume THEN file ELSE NoFile)
  /\ lost' = (lost \/ (~resume /\ file # NoFile))
  /\ UNCHANGED <<left, cloud, database, deployment, cut>>

\* The file is emptied before it is written (state.go:122).
Stop ==
  /\ pc # "off" /\ pc' = "off" /\ mem' = Blank /\ left' = {}
  /\ \/ UNCHANGED <<file, lost>>
     \/ Saving /\ file' = TornFile /\ lost' = TRUE
  /\ cut' = cut \cup (Known(mem) \ Known(file))
  /\ UNCHANGED <<runs, cloud, database, deployment>>

\* The operator removes a file that cannot be loaded.
RemoveTorn ==
  /\ pc = "off" /\ file = TornFile /\ file' = NoFile
  /\ UNCHANGED <<mem, pc, runs, left, cloud, database, deployment, history>>
-----------------------------------------------------------------------------
(* The image and the place to install. *)

\* One is given, built, or kept as it is.
Image ==
  /\ pc = "image" /\ mem' = [mem EXCEPT !.image = TRUE]
  /\ SaveAnd("provider") \/ (mem.image /\ pc' = "provider" /\ UNCHANGED file)
  /\ UNCHANGED <<runs, left, cloud, database, deployment, history>>

\* Faulty variant: what was configured is asked for again until the setup is complete.
SettledOnce(p) == mem.provider = p /\ mem.place # 0 /\ mem.setup
Settled(p) == mem.provider = p /\ mem.place # 0

Choose(p) ==
  /\ pc = "provider" /\ mem.provider \in {"none", p} /\ UNCHANGED file
  /\ mem' = [mem EXCEPT !.provider = p, !.place = IF p # "hetzner" /\ ~Settled(p) THEN Own ELSE @]
  /\ pc' = IF p = "hetzner" /\ ~Settled(p) THEN "ssh key" ELSE "chosen"
  /\ UNCHANGED <<runs, left, cloud, database, deployment, history>>

\* EnsureSSHKey: a key of that name is taken for this one.
RegisterKey ==
  /\ pc = "ssh key" /\ pc' = "server"
  /\ mem' = [mem EXCEPT !.secret.ssh = IF @ = 0 THEN runs ELSE @]
  /\ cloudKey' = (IF cloudKey = 0 THEN mem'.secret.ssh ELSE cloudKey)
  /\ UNCHANGED <<file, runs, left, servers, database, deployment, history>>

CreateServer ==
  /\ pc = "server" /\ pc' = "chosen"
  /\ servers' = [servers EXCEPT ![runs] = cloudKey] /\ mem' = [mem EXCEPT !.place = runs]
  /\ UNCHANGED <<file, runs, left, cloudKey, database, deployment, history>>

Chosen ==
  /\ pc = "chosen" /\ UNCHANGED mem /\ SaveAnd("connect")
  /\ UNCHANGED <<runs, left, cloud, database, deployment, history>>

\* A server made here opens to the key it was given.
Opens == mem.place > 0 => servers[mem.place] = mem.secret.ssh

Connect ==
  /\ pc = "connect"
  /\ IF mem.conn THEN UNCHANGED <<mem, file>> /\ pc' = "setup"
     ELSE Opens /\ mem' = [mem EXCEPT !.conn = TRUE] /\ SaveAnd("setup")
  /\ UNCHANGED <<runs, left, cloud, database, deployment, history>>

SetUp ==
  /\ pc = "setup"
  /\ IF mem.setup THEN UNCHANGED <<mem, file>> /\ pc' = "database"
     ELSE mem' = [mem EXCEPT !.setup = TRUE] /\ SaveAnd("database")
  /\ UNCHANGED <<runs, left, cloud, database, deployment, history>>
-----------------------------------------------------------------------------
(* The database. *)

HasDatabase ==
  /\ pc = "database" /\ mem.url # NoUrl /\ pc' = "verify"
  /\ UNCHANGED <<file, mem, runs, left, cloud, database, deployment, history>>

\* On a server: the password is set when the database is first made, and never again.
NewDatabase ==
  LET d == IF mem.provider = "do" THEN Cloud(runs) ELSE mem.place
  IN  /\ pw' = [pw EXCEPT ![d] = IF @ = 0 THEN runs ELSE @]
      /\ mem' = [mem EXCEPT !.url = [db |-> d, pw |-> runs]]

CreateDatabase ==
  /\ pc = "database" /\ mem.url = NoUrl /\ pc' = "created" /\ UNCHANGED file
  /\ \/ NewDatabase
     \/ mem' = [mem EXCEPT !.url = [db |-> Ext, pw |-> pw[Ext]]] /\ UNCHANGED pw
  /\ UNCHANGED <<runs, left, cloud, conf, admins, deployment, history>>

DatabaseCreated ==
  /\ pc = "created" /\ UNCHANGED mem /\ SaveAnd("verify")
  /\ UNCHANGED <<runs, left, cloud, database, deployment, history>>

\* It answers to the saved URL, and is migrated.
Reachable(url) == url.db # 0 /\ pw[url.db] = url.pw

Verify ==
  /\ pc = "verify" /\ Reachable(mem.url) /\ pc' = "key"
  /\ UNCHANGED <<file, mem, runs, left, cloud, database, deployment, history>>
-----------------------------------------------------------------------------
(* The secrets, each saved as it is generated, and what is stored with them. *)

After(s) == CASE s = "key" -> "salt" [] s = "salt" -> "ssh" [] s = "ssh" -> "config"

\* Faulty variant: the secrets are saved with the next step.
GenerateUnsaved(s) ==
  /\ pc = s /\ left' = Entry
  /\ mem' = [mem EXCEPT !.secret[s] = IF @ = 0 THEN runs ELSE @] /\ pc' = After(s)
  /\ UNCHANGED <<file, runs, cloud, database, deployment, history>>
Generate(s) ==
  /\ pc = s /\ left' = Entry
  /\ IF mem.secret[s] = 0
     THEN mem' = [mem EXCEPT !.secret[s] = runs] /\ SaveAnd(After(s))
     ELSE UNCHANGED <<mem, file>> /\ pc' = After(s)
  /\ UNCHANGED <<runs, cloud, database, deployment, history>>

SetConfig(e) ==
  /\ pc = "config" /\ e \in left /\ left' = left \ {e}
  /\ conf' = [conf EXCEPT ![mem.url.db][e] = [key |-> mem.secret.key, val |-> mem.secret[e]]]
  /\ UNCHANGED <<file, mem, pc, runs, cloud, pw, admins, deployment, history>>

Configured ==
  /\ pc = "config" /\ left = {} /\ pc' = "deploy"
  /\ UNCHANGED <<file, mem, runs, left, cloud, database, deployment, history>>
-----------------------------------------------------------------------------
(* The deployment and the admin user. *)

\* An app of the platform is known by its id or found by its name, unless that fails.
Deployed(st) ==
  /\ app' = [url |-> st.url, key |-> st.secret.key, salt |-> st.secret.salt]
  /\ \/ st.provider = "do" /\ apps = 0 /\ apps' = 1 /\ UNCHANGED missed
     \/ st.provider = "do" /\ apps > 0 /\ ~st.app /\ apps' = 2 /\ missed' = TRUE
     \/ (st.provider = "do" => apps > 0) /\ UNCHANGED <<apps, missed>>

KeepDeployed ==
  /\ pc = "deploy" /\ mem.deployed /\ pc' = "admin"
  /\ UNCHANGED <<file, mem, runs, left, cloud, database, deployment, history>>

Deploy ==
  /\ pc = "deploy" /\ pc' = "deployed"
  /\ mem' = [mem EXCEPT !.deployed = TRUE, !.app = mem.provider = "do"]
  /\ Deployed(mem)
  /\ UNCHANGED <<file, runs, left, cloud, database, history>>

DeploySaved ==
  /\ pc = "deployed" /\ UNCHANGED mem /\ SaveAnd("admin")
  /\ UNCHANGED <<runs, left, cloud, database, deployment, history>>

\* Faulty variant: the user is saved before it is created.
CreateAdminSaved ==
  /\ pc = "admin" /\ mem.user = 0
  /\ mem' = [mem EXCEPT !.user = runs] /\ file' = mem' /\ pc' = "created admin"
  /\ UNCHANGED <<runs, left, cloud, database, deployment, history>>
\* The database refuses a second user of that name.
CreateAdmin ==
  /\ pc = "admin" /\ mem.user = 0 /\ admins[mem.url.db] = 0
  /\ mem' = [mem EXCEPT !.user = runs] /\ admins' = [admins EXCEPT ![mem.url.db] = runs]
  /\ pc' = "created admin"
  /\ UNCHANGED <<file, runs, left, cloud, pw, conf, deployment, history>>

AdminSaved ==
  /\ pc = "created admin" /\ UNCHANGED mem /\ SaveAnd("done")
  /\ UNCHANGED <<runs, left, cloud, database, deployment, history>>

KeepAdmin ==
  /\ pc = "admin" /\ mem.user # 0 /\ pc' = "done"
  /\ UNCHANGED <<file, mem, runs, left, cloud, database, deployment, history>>

\* The update command: what the file holds, however far the wizard got, is deployed.
Update ==
  /\ pc = "off" /\ file \notin {NoFile, TornFile} /\ file.image /\ file.place # 0 /\ Reachable(file.url)
  /\ Deployed(file)
  /\ UNCHANGED <<file, mem, pc, runs, left, cloud, database, history>>

Wizard ==
  \/ Image \/ RegisterKey \/ CreateServer \/ Chosen \/ Connect \/ SetUp
  \/ HasDatabase \/ CreateDatabase \/ DatabaseCreated \/ Verify \/ Configured
  \/ KeepDeployed \/ Deploy \/ DeploySaved \/ CreateAdmin \/ AdminSaved \/ KeepAdmin
  \/ \E p \in {"vps", "do", "hetzner"} : Choose(p)
  \/ \E s \in Secret : Generate(s)
  \/ \E e \in Entry : SetConfig(e)

ProvNext == (\E resume \in BOOLEAN : Begin(resume)) \/ Wizard \/ Stop \/ RemoveTorn \/ Update
ProvSpec == ProvInit /\ [][ProvNext]_provVars
-----------------------------------------------------------------------------
Stored == conf[file.url.db]

(* While no state is given up and no save is cut in the middle, every entry    *)
(* stored, in whatever database, uses the key and the value the file has,      *)
(* wherever else a run ended (provision.go:258-351).  Whatever was given up or *)
(* torn, an app the file calls deployed can read its entries.                  *)
SecretsOutlive ==
  /\ ~lost => \A d \in Dbs : \A e \in Entry : conf[d][e].key # 0 =>
       conf[d][e] = [key |-> file.secret.key, val |-> file.secret[e]]
  /\ file.deployed => \A e \in Entry : Stored[e].key = app.key /\ Stored["salt"].val = app.salt

(* The credentials shown at the end are those of the user there is             *)
(* (provision.go:389-403).                                                     *)
AdminCanLogIn == pc = "done" => mem.user # 0 /\ admins[mem.url.db] = mem.user

(* While no state is given up and no save is cut in the middle, a server or a  *)
(* database that the file does not know was made by a run that ended before it *)
(* had saved it, and a second app by a listing that failed (provision.go:795,  *)
(* appplatform.go:137).                                                        *)
OnlyCutShortIsLost == ~lost =>
  /\ \A n \in 1..MaxRuns : servers[n] # 0 => <<"server", n>> \in Known(file) \cup Known(mem) \cup cut
  /\ \A d \in Dbs \ {Ext} : pw[d] # 0 => <<"database", d>> \in Known(file) \cup Known(mem) \cup cut
  /\ apps > 1 => missed
=============================================================================
