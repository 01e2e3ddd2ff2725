------------------------------- MODULE Settings -------------------------------
(***************************************************************************)
(* The settings service (core/settings_service.py) under the requests that *)
(* change settings: the settings pages, a provider's account, the password *)
(* and the sessions it opens (api/settings.py, api/auth.py).               *)
(*                                                                         *)
(* Two groups stand for all of them: "security", and "account", a          *)
(* provider's group with a secret and the OnlyFans rules URL.  A field is  *)
(* one component of the record; those whose stored value fails validation  *)
(* are kept apart, and a row that isn't an object is one with all of them. *)
(* A group without a row reads as its defaults and is left out, like       *)
(* every field no request here writes.                                     *)
(***************************************************************************)
EXTENDS Naturals, FiniteSets

CONSTANTS
  Mixes,        \* requests explored together
  Threads,      \* requests served at once (a route is a thread, or the event loop)
  MaxFailures,  \* LOGIN_MAX_FAILURES
  MaxEpoch,     \* bound: logouts explored
  MaxPasswords, \* bound: passwords set
  MaxFaults     \* bound: commits that fail, and crashes

Ops == {"login", "logout", "password", "open", "skip", "form", "page", "account", "clear"}

ASSUME SettingsAssumption ==
  /\ Mixes \subseteq SUBSET Ops
  /\ MaxFailures \in Nat \ {0} /\ MaxEpoch \in Nat /\ MaxPasswords \in Nat /\ MaxFaults \in Nat

VARIABLES
  mix,          \* the requests of this behaviour
  stored,       \* the settings rows
  unusable,     \* their fields that fail validation
  cache,        \* SettingsService._cache
  thread,       \* what each request does, and the settings pages browsers show
  tokens,       \* the keys that sign the session cookies handed out
  failures,     \* wrong passwords within the window
  salted,       \* password hashes made: each one is new, whatever the password
  ended,        \* history: tokens that a finished logout or password change came after
  turnedBack,   \* history: what may have written session_epoch back came: two logouts
                \* at once, a page from before a logout, a repair of the field
  faults

rows == <<stored, unusable>>
settingsVars == <<mix, rows, cache, thread, tokens, failures, salted, ended, turnedBack, faults>>

Secrets == {"hash", "secret"}           \* SecretStr
Security == {"hash", "on", "epoch", "done"}
GroupOf(field) == IF field \in Security THEN "security" ELSE "account"

Default ==
  [hash |-> 0, on |-> FALSE, epoch |-> 0, done |-> FALSE, secret |-> "", rules |-> "current"]
Fields == DOMAIN Default
Setting ==
  [hash : 0..MaxPasswords, on : BOOLEAN, epoch : 0..MaxEpoch, done : BOOLEAN,
   secret : {"", "cookie"}, rules : {"current", "own", "dead", "bad"}]
Valid(s) == s.rules # "bad"

\* What masked() shows of the security group.
Page == [on : BOOLEAN, epoch : 0..MaxEpoch, done : BOOLEAN]
Masked(s) == [on |-> s.on, epoch |-> s.epoch, done |-> s.done]

NoRequest ==
  [at |-> "idle", op |-> "none", epoch |-> 0, hash |-> 0, rules |-> "own",
   page |-> Masked(Default), new |-> Default, before |-> {}]
Locked == {"merged", "committed"}       \* SettingsService._lock is held

Keys == [hash : 0..MaxPasswords, epoch : 0..MaxEpoch]

SettingsTypeOK ==
  /\ mix \in Mixes \cup {{}}
  /\ {stored, cache} \subseteq {s \in Setting : Valid(s)}
  /\ unusable \subseteq Fields
  /\ thread \in [Threads -> [at : {"idle", "shown", "asked", "sign"} \cup Locked, op : Ops \cup {"none"},
                             epoch : 0..MaxEpoch, hash : 0..MaxPasswords,
                             rules : {"own", "bad"}, page : Page, new : Setting,
                             before : SUBSET Keys]]
  /\ tokens \subseteq Keys /\ ended \subseteq Keys
  /\ failures \in 0..MaxFailures
  /\ salted \in 0..MaxPasswords
  /\ turnedBack \in BOOLEAN
  /\ faults \in 0..MaxFaults

\* No password has been set yet.
SettingsInit ==
  /\ mix \in Mixes \cup {{}}
  /\ stored \in [hash : {0}, on : {FALSE}, epoch : {0}, done : {FALSE},
                 secret : {"", "cookie"}, rules : {"current", "dead"}]
  /\ unusable \in SUBSET Fields
  /\ cache = Default
  /\ thread = [t \in Threads |-> NoRequest]
  /\ tokens = {} /\ ended = {}
  /\ failures = 0 /\ salted = 0 /\ faults = 0
  /\ turnedBack = FALSE

-------------------------------------------------------------------------------
(***************************************************************************)
(* Reading the stored settings.                                            *)
(***************************************************************************)
\* _usable: each setting that fails validation is reset to its default.
Usable(s) == [f \in Fields |-> IF f \in unusable THEN Default[f] ELSE s[f]]

\* Mutant of Repaired: the reset settings are not stored.
RepairedNever == UNCHANGED rows

\* _save_reset, on the rows of the groups that had settings reset.
Repaired ==
  /\ stored' = Usable(stored)
  /\ unusable' = {}

-------------------------------------------------------------------------------
(***************************************************************************)
(* Sessions.                                                               *)
(***************************************************************************)
Active(s) == s.on /\ s.hash # 0

\* Mutant of Key: the logout counter is not part of it.
KeyOfHash(s) == [hash |-> s.hash, epoch |-> 0]
Key(s) == [hash |-> s.hash, epoch |-> s.epoch]

\* is_authenticated, for a browser that sends the newest cookie it can have.
Authenticated == ~Active(cache) \/ Key(cache) \in tokens

\* AuthMiddleware.  The host and the header it asks for are the browser's to send.
Gate(op) == op = "login" \/ Authenticated

-------------------------------------------------------------------------------
(***************************************************************************)
(* A request, up to its call of update().                                  *)
(***************************************************************************)
Request(t, op) ==
  /\ op \in mix
  /\ thread[t].at = "idle"
  /\ Gate(op)
  /\ UNCHANGED <<mix, rows, cache, ended, faults>>

Ask(t, request) ==
  /\ thread' = [thread EXCEPT ![t] = [request EXCEPT !.at = "asked", !.before = tokens]]
  /\ UNCHANGED <<tokens, failures>>

\* login, with the password the stored hash is of.
Login(t) ==
  /\ Request(t, "login")
  /\ failures < MaxFailures
  /\ cache.hash # 0
  /\ failures' = 0
  /\ thread' = [thread EXCEPT ![t].at = "sign", ![t].op = "login"]
  /\ UNCHANGED <<tokens, salted, turnedBack>>

\* login with another one: refused, as any login while too many are recent.
WrongPassword(t) ==
  /\ Request(t, "login")
  /\ failures < MaxFailures
  /\ failures' = failures + 1
  /\ UNCHANGED <<thread, tokens, salted, turnedBack>>

\* _recent_failures forgets the ones that left the window.
WindowPasses ==
  /\ failures > 0
  /\ \E n \in 0..(failures - 1) : failures' = n
  /\ UNCHANGED <<mix, rows, cache, thread, tokens, salted, ended, turnedBack, faults>>

\* logout reads the counter here, and update() writes it back one higher.
Logout(t) ==
  /\ Request(t, "logout")
  /\ Active(cache) /\ Authenticated
  /\ cache.epoch < MaxEpoch
  /\ turnedBack' = (turnedBack \/ \E u \in Threads : thread[u].op = "logout")
  /\ Ask(t, [NoRequest EXCEPT !.op = "logout", !.epoch = cache.epoch])
  /\ UNCHANGED salted

\* set_password: the first one, from a session, or with the current one.
SetPassword(t) ==
  /\ Request(t, "password")
  /\ salted < MaxPasswords
  /\ salted' = salted + 1
  /\ Ask(t, [NoRequest EXCEPT !.op = "password", !.hash = salted'])
  /\ UNCHANGED turnedBack

\* disable_auth, skip_setup, set_auth, clear_auth, and update_settings with a form,
\* which sends a group back as it was shown, the secrets blanked by masked().
Change(t) ==
  /\ \E op \in {"open", "skip", "form", "account", "clear"}, rules \in {"own", "bad"} :
       /\ Request(t, op)
       /\ rules = "bad" => op = "form"
       /\ Ask(t, [NoRequest EXCEPT !.op = op, !.rules = rules])
  /\ UNCHANGED <<salted, turnedBack>>

\* get_settings: a browser has all settings in a page.
OpenPage(t) ==
  /\ Request(t, "page")
  /\ thread' = [thread EXCEPT ![t] = [NoRequest EXCEPT !.at = "shown", !.op = "page",
                                                       !.page = Masked(cache)]]
  /\ UNCHANGED <<tokens, failures, salted, turnedBack>>

\* update_settings with the whole page, however old it is by now.
SendPage(t) ==
  /\ thread[t].at = "shown"
  /\ Gate("page")
  /\ Ask(t, thread[t])
  /\ UNCHANGED <<mix, rows, cache, salted, ended, turnedBack, faults>>

Patch(r) ==
  CASE r.op = "logout" -> [epoch |-> r.epoch + 1]
    [] r.op = "password" -> [hash |-> r.hash, on |-> TRUE, done |-> TRUE]
    [] r.op = "open" -> [hash |-> 0, on |-> FALSE]
    [] r.op = "skip" -> [done |-> TRUE]
    [] r.op = "form" -> [secret |-> "", rules |-> r.rules]
    [] r.op = "page" -> [hash |-> 0, on |-> r.page.on, epoch |-> r.page.epoch, done |-> r.page.done,
                         secret |-> "", rules |-> r.rules]
    [] r.op = "account" -> [secret |-> "cookie"]
    [] r.op = "clear" -> [secret |-> ""]

\* What a request means to change: update() takes secrets from a request that
\* allows it, never from a form.
AllowsSecrets(r) == r.op \in {"password", "open", "account", "clear"}
Changes(r) == IF AllowsSecrets(r) THEN DOMAIN Patch(r) ELSE DOMAIN Patch(r) \ Secrets

-------------------------------------------------------------------------------
(***************************************************************************)
(* SettingsService.update.                                                 *)
(***************************************************************************)
\* A page that shows another counter than the current one.
OldPage(r) == r.op = "page" /\ r.page.epoch # cache.epoch

\* Mutant of Merge: the lock is taken around the write only.
MergeUnlocked(t) ==
  /\ thread[t].at = "asked"
  /\ LET new == [f \in Fields |-> IF f \in Changes(thread[t]) THEN Patch(thread[t])[f]
                                   ELSE cache[f]]
     IN  thread' = [thread EXCEPT ![t] = IF Valid(new) THEN [@ EXCEPT !.at = "merged", !.new = new]
                                          ELSE NoRequest]
  /\ turnedBack' = (turnedBack \/ OldPage(thread[t]))
  /\ UNCHANGED <<mix, rows, cache, tokens, failures, salted, ended, faults>>

\* Under the lock: the current settings, with the request's changes.  Invalid
\* ones raise ValidationFailed.
Merge(t) ==
  /\ thread[t].at = "asked"
  /\ \A u \in Threads : thread[u].at \notin Locked
  /\ LET new == [f \in Fields |-> IF f \in Changes(thread[t]) THEN Patch(thread[t])[f]
                                   ELSE cache[f]]
     IN  thread' = [thread EXCEPT ![t] = IF Valid(new) THEN [@ EXCEPT !.at = "merged", !.new = new]
                                          ELSE NoRequest]
  /\ turnedBack' = (turnedBack \/ OldPage(thread[t]))
  /\ UNCHANGED <<mix, rows, cache, tokens, failures, salted, ended, faults>>

\* The groups of the request are written whole.
Written(r) ==
  LET groups == {GroupOf(f) : f \in DOMAIN Patch(r)}
  IN  [f \in Fields |-> IF GroupOf(f) \in groups THEN r.new[f] ELSE stored[f]]

Commit(t) ==
  /\ thread[t].at = "merged"
  /\ stored' = Written(thread[t])
  /\ thread' = [thread EXCEPT ![t].at = "committed"]
  /\ UNCHANGED <<mix, unusable, cache, tokens, failures, salted, ended, turnedBack, faults>>

\* Mutant of CommitFails: the cache was set before the rows were written.
CommitFailsLate(t) ==
  /\ thread[t].at = "merged"
  /\ faults < MaxFaults
  /\ faults' = faults + 1
  /\ cache' = thread[t].new
  /\ thread' = [thread EXCEPT ![t] = NoRequest]
  /\ UNCHANGED <<mix, rows, tokens, failures, salted, ended, turnedBack>>

CommitFails(t) ==
  /\ thread[t].at = "merged"
  /\ faults < MaxFaults
  /\ faults' = faults + 1
  /\ thread' = [thread EXCEPT ![t] = NoRequest]
  /\ UNCHANGED <<mix, rows, cache, tokens, failures, salted, ended, turnedBack>>

\* The cache follows, and the lock is released.  A password signs its browser in.
Publish(t) ==
  /\ thread[t].at = "committed"
  /\ cache' = thread[t].new
  /\ thread' = [thread EXCEPT ![t] = IF @.op = "password" THEN [NoRequest EXCEPT !.at = "sign"]
                                      ELSE NoRequest]
  /\ ended' = IF thread[t].op \in {"logout", "password"} THEN ended \cup thread[t].before ELSE ended
  /\ UNCHANGED <<mix, rows, tokens, failures, salted, turnedBack, faults>>

\* _sign_in, with the key of the settings as they are by now.
SignIn(t) ==
  /\ thread[t].at = "sign"
  /\ tokens' = tokens \cup {Key(cache)}
  /\ thread' = [thread EXCEPT ![t] = NoRequest]
  /\ UNCHANGED <<mix, rows, cache, failures, salted, ended, turnedBack, faults>>

RequestStep(t) ==
  \/ Login(t) \/ WrongPassword(t) \/ Logout(t) \/ SetPassword(t) \/ Change(t) \/ OpenPage(t) \/ SendPage(t)
  \/ Merge(t) \/ Commit(t) \/ CommitFails(t) \/ Publish(t) \/ SignIn(t)

-------------------------------------------------------------------------------
(***************************************************************************)
(* Properties.                                                             *)
(***************************************************************************)
\* "Changing the password or logging out ends every existing session"
\* (api/auth.py session_key): a cookie handed out before never works again.
\* The counter that ends them may be written back (see the README), by two logouts
\* at once, by a settings page from before a logout, or by a repair of the field;
\* by nothing else, whatever requests, failures and crashes come.
LoggedOutStaysOut ==
  ~turnedBack => \A key \in ended : ~(Active(cache) /\ Key(cache) = key)
===============================================================================
