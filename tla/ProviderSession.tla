---------------------------- MODULE ProviderSession ----------------------------
(***************************************************************************)
(* The session of one provider: the stored credentials, the HTTP client    *)
(* built from them, the cookie file written from them, and the auth status *)
(* that scans and downloads look at (providers/base.py, patreon.py,        *)
(* onlyfans/provider.py and the handlers of api/settings.py).              *)
(*                                                                         *)
(* Everything runs on the event loop: a task is interrupted where it       *)
(* awaits, and nowhere else.  Patreon builds its client when the settings  *)
(* are saved.  OnlyFans builds one when it is needed, and awaits the       *)
(* signing rules in the middle of it.                                      *)
(***************************************************************************)
EXTENDS Naturals

CONSTANTS
  Credentials,
  Tasks,        \* requests, scans, downloads and checks in progress
  MaxClients,   \* bound: clients built
  MaxSaves,     \* bound
  MaxFaults,    \* bound: how often a session expires or works again, or the
                \* cookie file can't be written
  MaxAttempts,  \* PatreonClient._request's max_attempts
  None

Numbers == 1 .. MaxClients

ASSUME ProviderSessionAssumption ==
  /\ {MaxSaves, MaxFaults} \subseteq Nat
  /\ {MaxClients, MaxAttempts} \subseteq Nat \ {0}
  /\ None \notin Credentials \cup Numbers

VARIABLES
  provider,   \* "patreon" or "onlyfans"
  stored,     \* the credentials in the settings
  built,      \* bound on it: clients built so far, numbered 1..built
  client,     \* _client, or None
  made,       \* what each client was made with
  closed,     \* clients whose transport is closed
  locked,     \* _lock
  cookieFile, \* the credentials in the cookie file
  unwritten,  \* history: the last write of the cookie file failed
  status,     \* the stored auth status
  task,       \* where each task is, and its local variables
  working,    \* credentials the provider accepts
  saves, faults,
  about       \* history: whose credentials the status is about

clients == <<built, client, made, closed>>
file == <<cookieFile, unwritten>>
settings == <<provider, stored, saves>>
outside == <<working, faults>>
vars == <<settings, clients, locked, file, status, task, outside, about>>

Fault == faults < MaxFaults /\ faults' = faults + 1

Maybe(S) == S \cup {None}

\* AuthState; CHALLENGE, which scans and downloads treat alike, counts as invalid.
States == {"unknown", "unconfigured", "valid", "invalid", "error"}
Blocked == {"invalid", "unconfigured"}

\* What a task does when it has rebuilt the client, or has an answer.
Kinds == {"auth", "other", "check", "use"}
NoTask == [kind |-> "use", at |-> "idle", client |-> None, creds |-> None, attempt |-> 1]

TypeOK ==
  /\ provider \in {"patreon", "onlyfans"}
  /\ {stored, cookieFile, about} \subseteq Maybe(Credentials)
  /\ client \in Maybe(Numbers)
  /\ made \in [Numbers -> Maybe(Credentials)]
  /\ built \in 0 .. MaxClients
  /\ closed \subseteq 1 .. built
  /\ {locked, unwritten} \subseteq BOOLEAN
  /\ status \in States
  /\ task \in [Tasks -> [kind : Kinds,
                         at : {"idle", "rebuild", "closing", "check", "rules", "asking"},
                         client : Maybe(Numbers), creds : Maybe(Credentials),
                         attempt : 1 .. MaxAttempts]]
  /\ working \subseteq Credentials
  /\ saves \in 0 .. MaxSaves
  /\ faults \in 0 .. MaxFaults

\* A start: the cookie file is written, which builds Patreon's client.
Init ==
  /\ provider \in {"patreon", "onlyfans"}
  /\ stored \in Credentials
  /\ built = IF provider = "patreon" THEN 1 ELSE 0
  /\ client = IF provider = "patreon" THEN 1 ELSE None
  /\ made = [n \in Numbers |-> IF n = 1 /\ provider = "patreon" THEN stored ELSE None]
  /\ closed = {}
  /\ locked = FALSE
  /\ cookieFile = stored
  /\ unwritten = FALSE
  /\ status = "unknown"
  /\ task = [t \in Tasks |-> NoTask]
  /\ working = {stored}
  /\ saves = 0
  /\ faults = 0
  /\ about = None

Becomes(t, record) == task' = [task EXCEPT ![t] = record]

\* _build_client, and the end of _get_client
NewClient(creds) ==
  /\ built < MaxClients
  /\ built' = built + 1
  /\ made' = [made EXCEPT ![built'] = creds]
  /\ client' = built'

-----------------------------------------------------------------------------
Flip(c) ==
  /\ Fault
  /\ working' = IF c \in working THEN working \ {c} ELSE working \cup {c}
  /\ UNCHANGED <<settings, clients, locked, file, status, task, about>>

(* Settings are saved. *)

\* Mutant of Save: signing out doesn't rebuild the client.
SaveKeepsClient(t, kind, creds) ==
  /\ task[t].at = "idle"
  /\ saves < MaxSaves
  /\ saves' = saves + 1
  /\ stored' = creds
  /\ kind = "other" => creds = stored
  /\ Becomes(t, [NoTask EXCEPT !.kind = kind, !.at = IF creds = None THEN "check" ELSE "rebuild"])
  /\ UNCHANGED <<provider, clients, locked, file, status, outside, about>>

\* set_auth, clear_auth and update_settings up to the rebuild's lock
Save(t, kind, creds) ==
  /\ task[t].at = "idle"
  /\ saves < MaxSaves
  /\ saves' = saves + 1
  /\ stored' = creds
  /\ kind = "other" => creds = stored
  /\ Becomes(t, [NoTask EXCEPT !.kind = kind, !.at = "rebuild"])
  /\ UNCHANGED <<provider, clients, locked, file, status, outside, about>>

\* A new file replaces the old one, or an OSError is logged and the old one stays.
WriteCookieFile ==
  \/ /\ cookieFile' = IF provider = "patreon" THEN made[client] ELSE stored
     /\ unwritten' = FALSE
     /\ UNCHANGED faults
  \/ /\ Fault
     /\ unwritten' = TRUE
     /\ UNCHANGED cookieFile

\* What set_auth, clear_auth and update_settings do when the client is rebuilt
Rebuilt(t) ==
  task' = [task EXCEPT ![t] = IF @.kind = "other" THEN NoTask ELSE [@ EXCEPT !.at = "check", !.client = None]]

\* rebuild: the old client is replaced, and closed afterwards.
Swap(t) ==
  /\ task[t].at = "rebuild"
  /\ ~locked
  /\ locked' = TRUE
  /\ IF provider = "patreon"
     THEN NewClient(stored)
     ELSE client' = None /\ UNCHANGED <<built, made>>
  /\ Becomes(t, [task[t] EXCEPT !.at = "closing", !.client = client])
  /\ UNCHANGED <<settings, closed, file, status, outside, about>>

Close(t) ==
  /\ task[t].at = "closing"
  /\ locked' = FALSE
  /\ closed' = closed \cup ({task[t].client} \ {None})
  /\ WriteCookieFile
  /\ Rebuilt(t)
  /\ UNCHANGED <<settings, built, client, made, status, working, about>>

-----------------------------------------------------------------------------
(* Checks and requests. *)

\* _set_auth_status
SetStatus(state, creds) == status' = state /\ about' = creds

\* Mutant of Check: a session known to be lost isn't checked again.
CheckUnlessBlocked(t) ==
  /\ task[t].at = "idle"
  /\ status \notin Blocked
  /\ Becomes(t, [NoTask EXCEPT !.kind = "check", !.at = "check"])
  /\ UNCHANGED <<settings, clients, locked, file, status, outside, about>>

\* check_session, by the scheduler and at the start
Check(t) ==
  /\ task[t].at = "idle"
  /\ Becomes(t, [NoTask EXCEPT !.kind = "check", !.at = "check"])
  /\ UNCHANGED <<settings, clients, locked, file, status, outside, about>>

\* A scan, a download that renews its links, a lookup
Use(t) ==
  /\ task[t].at = "idle"
  /\ status \notin Blocked
  /\ Becomes(t, [NoTask EXCEPT !.at = "check"])
  /\ UNCHANGED <<settings, clients, locked, file, status, outside, about>>

\* The stored credentials are looked at by check_session, by a test with Patreon
\* and to build a client.  Other requests take the client there is.
NotConfigured(t) ==
  /\ task[t].at = "check"
  /\ stored = None
  /\ client = None \/ task[t].kind # "use"
  /\ Becomes(t, NoTask)
  /\ IF task[t].kind = "use" THEN UNCHANGED <<status, about>> ELSE SetStatus("unconfigured", None)
  /\ UNCHANGED <<settings, clients, locked, file, outside>>

\* The client there is
Ask(t) ==
  /\ task[t].at = "check"
  /\ client # None
  /\ \/ stored # None
     \/ task[t].kind = "use"
     \/ task[t].kind = "auth" /\ provider = "onlyfans"
  /\ Becomes(t, [task[t] EXCEPT !.at = "asking", !.client = client])
  /\ UNCHANGED <<settings, clients, locked, file, status, outside, about>>

\* _get_client: the credentials are read, then the signing rules are awaited,
\* and then the client is installed, whatever happened meanwhile.
LoadRules(t) ==
  /\ task[t].at = "check"
  /\ stored # None
  /\ client = None
  /\ Becomes(t, [task[t] EXCEPT !.at = "rules", !.creds = stored])
  /\ UNCHANGED <<settings, clients, locked, file, status, outside, about>>

Install(t) ==
  /\ task[t].at = "rules"
  /\ NewClient(task[t].creds)
  /\ Becomes(t, [task[t] EXCEPT !.at = "asking", !.client = client', !.creds = None])
  /\ UNCHANGED <<settings, closed, locked, file, status, outside, about>>

\* The rules can't be loaded: test_connection stores an error.
RulesFail(t) ==
  /\ task[t].at = "rules"
  /\ Becomes(t, NoTask)
  /\ IF task[t].kind = "use" THEN UNCHANGED <<status, about>> ELSE SetStatus("error", stored)
  /\ UNCHANGED <<settings, clients, locked, file, outside>>

\* What test_connection stores for an answer, or mark_auth_invalid
Stores(t, answer) ==
  IF task[t].kind = "use" /\ answer # "invalid" THEN UNCHANGED <<status, about>>
  ELSE SetStatus(answer, made[task[t].client])

\* classify_response and OnlyFansClient._parse, without the answers that are
\* tried again.  A challenge may meet a session that works.
Answers(creds) == {"invalid", "error"} \cup (IF creds \in working THEN {"valid"} ELSE {})

\* The last answer to a check or a request.
Answer(t, answer) ==
  /\ task[t].at = "asking"
  /\ task[t].client \notin closed
  /\ answer \in Answers(made[task[t].client])
  /\ Stores(t, answer)
  /\ Becomes(t, NoTask)
  /\ UNCHANGED <<settings, clients, locked, file, outside>>

\* A scan met a 403 with a JSON body: check_session tells whether it is the session.
Forbidden(t) ==
  /\ task[t].at = "asking"
  /\ task[t].kind = "use"
  /\ task[t].client \notin closed
  /\ Becomes(t, [NoTask EXCEPT !.kind = "check", !.at = "check"])
  /\ UNCHANGED <<settings, clients, locked, file, status, outside, about>>

\* A failure that is tried again: the network, a rate limit or a server error.
\* With curl_cffi a closed session fails like the network.
Retry(t) ==
  /\ task[t].at = "asking"
  /\ provider = "patreon"
  /\ task[t].attempt < MaxAttempts
  /\ Becomes(t, [task[t] EXCEPT !.attempt = @ + 1])
  /\ UNCHANGED <<settings, clients, locked, file, status, outside, about>>

\* The client was closed.  httpx raises a RuntimeError that nothing catches, and
\* the task ends without a status; curl_cffi fails until the attempts are used up.
Fail(t) ==
  /\ task[t].at = "asking"
  /\ task[t].client \in closed
  /\ Becomes(t, NoTask)
  /\ \/ UNCHANGED <<status, about>>
     \/ /\ task[t].kind # "use"
        /\ provider = "patreon" => task[t].attempt = MaxAttempts
        /\ SetStatus("error", made[task[t].client])
  /\ UNCHANGED <<settings, clients, locked, file, outside>>

-----------------------------------------------------------------------------
GoesOn(t) ==
  \/ Swap(t) \/ Close(t) \/ NotConfigured(t) \/ Ask(t) \/ LoadRules(t) \/ Install(t)
  \/ RulesFail(t) \/ (\E answer \in States : Answer(t, answer)) \/ Forbidden(t)
  \/ Retry(t) \/ Fail(t)

Next ==
  \/ \E c \in Credentials : Flip(c)
  \/ \E t \in Tasks :
       \/ \E kind \in {"auth", "other"}, c \in Maybe(Credentials) : Save(t, kind, c)
       \/ Check(t)
       \/ Use(t)
       \/ GoesOn(t)

Spec == Init /\ [][Next]_vars

\* Requests end (they have timeouts and a limit of attempts), the scheduler
\* checks the session every day, and a check that could succeed does so some day.
Fairness ==
  \A t \in Tasks :
    /\ WF_vars(GoesOn(t))
    /\ SF_vars(Check(t))
    /\ SF_vars(task[t].kind # "use" /\ Answer(t, "valid"))

FairSpec == Spec /\ Fairness
-----------------------------------------------------------------------------
Rebuilding == \E t \in Tasks : task[t].at \in {"rebuild", "closing"}

\* base.py:96 "Rebuild the HTTP client after settings changed.": once it is
\* rebuilt, no request is made with credentials that were replaced or removed.
ClientIsCurrent == ~Rebuilding /\ client # None => made[client] = stored

\* However saves, checks and scans overlap, the next request never finds a closed
\* client, and Patreon's client and, unless its last write failed, its cookie file,
\* which yt-dlp reads, are of the stored credentials.
ClientIsUsable ==
  /\ client \notin closed
  /\ provider = "patreon" => ClientIsCurrent /\ (~Rebuilding /\ ~unwritten => cookieFile = stored)

\* A session that works is found to work, however it was before: no old answer
\* keeps scans and downloads away for ever.
WorkingIsUsed ==
  provider = "patreon"
    => ((<>[](stored \in working) /\ <>[][stored' = stored]_vars) => []<>(status = "valid" /\ about = stored))
=============================================================================
