---------------------------- MODULE AdminAccount ----------------------------
(***************************************************************************)
(* The admin's account of the SaaS: logging in, in one step or two, from   *)
(* several browsers, and setting up, using and disabling the second step   *)
(* (admin/handlers_auth.go, handlers_2fa.go, handlers_settings.go and      *)
(* admin/postgres).  Each action is one call of the store; a request may   *)
(* end before any of them.  Whether an attempt is within its limit is left *)
(* open here (RateLimit), as is whether a password or a code is mistyped.  *)
(***************************************************************************)
EXTENDS Integers, FiniteSets

CONSTANTS
  Agent,                 \* browsers of the owner
  CodesInSet,            \* backup codes generated together
  MaxSecrets, MaxSets    \* bounds: secrets and sets of backup codes generated

ASSUME AdminAccountAssumption ==
  "free" \notin Agent /\ CodesInSet \in Nat \ {0} /\ MaxSecrets \in Nat /\ MaxSets \in Nat

VARIABLES
  secret, enabled, codes,  \* the user's row: totp_secret (0: NULL), totp_enabled, backup_codes_hash
  lock,                    \* the browser whose request has that row locked, or "free"
  pending,                 \* the set in pending_backup_codes, 0 when there is none
  main, second,            \* browsers whose cookie, and pending cookie, name a live session
  view,                    \* the setup page each browser shows, or has been sent to
  req,                     \* the request each browser waits for
  made, sets,              \* secrets and sets generated
  device, sheet, verified, \* history: secrets in the authenticator, sets written down, secrets whose code was right
  spent, again,            \* history: codes used since their set was stored; one was used again
  overlap, strayed         \* history: set-ups overlapped; the owner went back in one

accountVars == <<secret, enabled, codes, lock, pending, main, second, view, req, made, sets,
                 device, sheet, verified, spent, again, overlap, strayed>>
row == <<secret, enabled, codes, lock>>
sessions == <<main, second>>
owner == <<device, sheet, verified>>
usage == <<spent, again>>
course == <<overlap, strayed>>

Set(g) == {g} \X (1..CodesInSet)
Code == UNION {Set(g) : g \in 1..MaxSets}
Idle == [at |-> "idle"]

AccountInit ==
  /\ secret = 0 /\ enabled = FALSE /\ codes = {} /\ lock = "free" /\ pending = 0
  /\ main = {} /\ second = {} /\ view = [b \in Agent |-> "none"] /\ req = [b \in Agent |-> Idle]
  /\ made = 0 /\ sets = 0 /\ device = {} /\ sheet = {} /\ verified = {}
  /\ spent = {} /\ again = FALSE /\ overlap = FALSE /\ strayed = FALSE

At(b, step) == req[b].at = step
Goto(b, r) == req' = [req EXCEPT ![b] = r]
Shows(b, page) == view' = [view EXCEPT ![b] = page]

\* Somebody else is between the steps of a set-up.
Busy(b) == view[b] # "none" \/ req[b].at \in {"generate", "store", "enable", "clean"}
Marked(b) == overlap' = (overlap \/ \E other \in Agent \ {b} : Busy(other))
Strays(back) == strayed' = (strayed \/ back)
-----------------------------------------------------------------------------
(* Logging in. *)

\* The password is right; the row is read.
Login(b) ==
  /\ At(b, "idle") /\ b \notin main /\ Goto(b, [at |-> "session", totp |-> enabled])
  /\ UNCHANGED <<row, pending, sessions, view, made, sets, owner, usage, course>>

LoggedIn(b) ==
  /\ At(b, "session") /\ Goto(b, Idle)
  /\ IF req[b].totp THEN second' = second \cup {b} /\ UNCHANGED main
     ELSE main' = main \cup {b} /\ UNCHANGED second
  /\ UNCHANGED <<row, pending, view, made, sets, owner, usage, course>>

\* The second step, with the authenticator or with a code from the sheet.
CodeOfDevice(b) ==
  /\ At(b, "idle") /\ b \in second /\ secret \in device /\ Goto(b, [at |-> "finish"])
  /\ UNCHANGED <<row, pending, sessions, view, made, sets, owner, usage, course>>

CodeOfSheet(b) ==
  /\ At(b, "idle") /\ b \in second
  /\ \E c \in UNION {Set(g) : g \in sheet} : Goto(b, [at |-> "lock", code |-> c])
  /\ UNCHANGED <<row, pending, sessions, view, made, sets, owner, usage, course>>

\* ValidateBackupCode: the row is read and locked, written, and let go.
\* Faulty variant: the row is read without being locked.
ReadUnlocked(b) ==
  /\ At(b, "lock") /\ lock = "free" /\ UNCHANGED lock
  /\ Goto(b, [at |-> "spend", code |-> req[b].code, hashes |-> codes])
  /\ UNCHANGED <<secret, enabled, codes, pending, sessions, view, made, sets, owner, usage, course>>
ReadLocked(b) ==
  /\ At(b, "lock") /\ lock = "free" /\ lock' = b
  /\ Goto(b, [at |-> "spend", code |-> req[b].code, hashes |-> codes])
  /\ UNCHANGED <<secret, enabled, codes, pending, sessions, view, made, sets, owner, usage, course>>

Unlocks(b) == lock' = IF lock = b THEN "free" ELSE lock

Spend(b) ==
  /\ At(b, "spend") /\ req[b].code \in req[b].hashes /\ lock \in {b, "free"} /\ Unlocks(b)
  /\ codes' = req[b].hashes \ {req[b].code} /\ spent' = spent \cup {req[b].code}
  /\ \/ Goto(b, [at |-> "finish"]) /\ again' = (again \/ req[b].code \in spent)
     \/ Goto(b, Idle) /\ UNCHANGED again    \* committed, and reported as an error
  /\ UNCHANGED <<secret, enabled, pending, sessions, view, made, sets, owner, course>>

NotFound(b) ==
  /\ At(b, "spend") /\ req[b].code \notin req[b].hashes /\ Unlocks(b) /\ Goto(b, Idle)
  /\ UNCHANGED <<secret, enabled, codes, pending, sessions, view, made, sets, owner, usage, course>>

\* The pending session is deleted, and then the session is created.
FinishLogin(b) ==
  /\ At(b, "finish") /\ Goto(b, Idle) /\ second' = second \ {b} /\ main' \in {main, main \cup {b}}
  /\ UNCHANGED <<row, pending, view, made, sets, owner, usage, course>>

\* Logged out, or expired.
SessionEnds(b) ==
  /\ \/ b \in main /\ main' = main \ {b} /\ UNCHANGED second
     \/ b \in second /\ second' = second \ {b} /\ UNCHANGED main
  /\ UNCHANGED <<row, pending, view, req, made, sets, owner, usage, course>>

\* The sessions of the others go, unless deleting them fails.
ChangePassword(b) ==
  /\ At(b, "idle") /\ b \in main /\ lock = "free" /\ main' = {b} /\ second' = {}
  /\ UNCHANGED <<row, pending, view, req, made, sets, owner, usage, course>>
-----------------------------------------------------------------------------
(* Setting the second step up: three forms, each on a page of its own.  A page  *)
(* is shown to whoever asks for it by its name, and a form is taken from        *)
(* whoever is logged in: by the link or the redirect, by going back to it, from *)
(* a page shown long ago.                                                       *)

\* The page of a step, if there is something to show on it, or the first one.
\* What the owner is shown is typed into the authenticator, or written down.
Get(b, step) ==
  LET page == IF enabled THEN "enabled"
              ELSE IF (step = "backup" /\ pending # 0) \/ (step = "qr" /\ secret # 0) THEN step
              ELSE "password"
  IN /\ At(b, "idle") /\ b \in main /\ Shows(b, page)
     /\ sheet' = IF page = "backup" THEN sheet \cup {pending} ELSE sheet
     /\ device' = IF page = "qr" THEN device \cup {secret} ELSE device
     /\ Strays(step = "backup" /\ view[b] \notin {"backup", "sent to backup"})
     /\ UNCHANGED <<row, pending, sessions, req, made, sets, verified, usage, overlap>>

Leave(b) ==
  /\ At(b, "idle") /\ view[b] # "none" /\ Shows(b, "none")
  /\ UNCHANGED <<row, pending, sessions, req, made, sets, owner, usage, course>>

Submits(b) == At(b, "idle") /\ b \in main

\* verify_password
NewSecret(b) ==
  /\ Submits(b) /\ lock = "free" /\ made < MaxSecrets /\ made' = made + 1
  /\ secret' = made' /\ Shows(b, "sent to qr") /\ Marked(b) /\ Strays(enabled)
  /\ UNCHANGED <<enabled, codes, lock, pending, sessions, req, sets, owner, usage>>

\* verify_totp
VerifyCode(b) ==
  /\ Submits(b) /\ secret \in device
  /\ verified' = verified \cup {secret} /\ Shows(b, "none") /\ Goto(b, [at |-> "generate"])
  /\ UNCHANGED <<row, pending, sessions, made, sets, device, sheet, usage, course>>

SaveSet(b) ==
  /\ At(b, "generate") /\ sets < MaxSets /\ sets' = sets + 1 /\ pending' = sets'
  /\ Goto(b, Idle) /\ Shows(b, "sent to backup") /\ Marked(b)
  /\ UNCHANGED <<row, sessions, made, owner, usage, strayed>>

\* confirm_backup: the set is read, stored, the step enabled, and the set deleted.
Confirm(b) ==
  /\ Submits(b) /\ pending # 0 /\ Strays(view[b] # "backup")
  /\ Shows(b, "none") /\ Goto(b, [at |-> "store", set |-> pending])
  /\ UNCHANGED <<row, pending, sessions, made, sets, owner, usage, overlap>>

\* Faulty variant: the step is enabled before its codes are stored.
EnableAndStore(b) ==
  /\ At(b, "store") /\ lock = "free"
  /\ enabled' = TRUE /\ UNCHANGED <<codes, spent>>
  /\ Goto(b, [at |-> "enable"]) /\ Marked(b)
  /\ UNCHANGED <<secret, lock, pending, sessions, view, made, sets, owner, again, strayed>>
StoreSet(b) ==
  /\ At(b, "store") /\ lock = "free"
  /\ codes' = Set(req[b].set) /\ spent' = spent \ codes' /\ UNCHANGED enabled
  /\ Goto(b, [at |-> "enable"]) /\ Marked(b)
  /\ UNCHANGED <<secret, lock, pending, sessions, view, made, sets, owner, again, strayed>>

Enable(b) ==
  /\ At(b, "enable") /\ lock = "free" /\ enabled' = TRUE /\ Goto(b, [at |-> "clean"]) /\ Marked(b)
  /\ UNCHANGED <<secret, codes, lock, pending, sessions, view, made, sets, owner, usage, strayed>>

DropSet(b) ==
  /\ At(b, "clean") /\ pending' = 0 /\ Goto(b, Idle)
  /\ UNCHANGED <<row, sessions, view, made, sets, owner, usage, course>>

\* From the setup page or from the settings.
Disable(b) ==
  /\ Submits(b) /\ lock = "free"
  /\ enabled' = FALSE /\ secret' = 0 /\ codes' = {} /\ Shows(b, "none") /\ Marked(b)
  /\ UNCHANGED <<lock, pending, sessions, req, made, sets, owner, usage, strayed>>
-----------------------------------------------------------------------------
\* A call of the store fails, or the process ends: the row is let go as it was.
RequestEnds(b) ==
  /\ req[b] # Idle /\ Goto(b, Idle) /\ Unlocks(b)
  /\ UNCHANGED <<secret, enabled, codes, pending, sessions, view, made, sets, owner, usage, course>>

AccountNext == \E b \in Agent :
  \/ Login(b) \/ LoggedIn(b) \/ CodeOfDevice(b) \/ CodeOfSheet(b) \/ ReadLocked(b) \/ Spend(b) \/ NotFound(b)
  \/ FinishLogin(b) \/ SessionEnds(b) \/ ChangePassword(b) \/ Leave(b)
  \/ \E step \in {"password", "qr", "backup"} : Get(b, step)
  \/ NewSecret(b) \/ VerifyCode(b) \/ SaveSet(b) \/ Confirm(b) \/ StoreSet(b) \/ Enable(b) \/ DropSet(b) \/ Disable(b) \/ RequestEnds(b)

AccountSpec == AccountInit /\ [][AccountNext]_accountVars
-----------------------------------------------------------------------------
(* "Each code works only once" (templates/2fa_setup.html), from whatever       *)
(* browsers and however closely it is entered, as long as its set is not       *)
(* stored again (postgres.go:252-311).                                         *)
CodeUsedOnce == ~again

(* An enabled second step can be answered, wherever an earlier set-up was cut  *)
(* short: its secret is one the authenticator was seen to have, and of a set   *)
(* the owner has seen every code is stored or was used.  So the handlers keep  *)
(* it unless two browsers change the set-up at once, or the owner goes back in *)
(* it: to the page of the backup codes or its form without having been sent    *)
(* there since the set-up was begun, or to the form that begins it when the    *)
(* step is enabled already (handlers_2fa.go:178-447).                          *)
EnabledCanBeAnswered == enabled /\ ~overlap /\ ~strayed =>
  secret \in verified /\ \E g \in sheet : Set(g) \subseteq codes \cup spent
=============================================================================
