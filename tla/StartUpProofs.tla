----------------------------- MODULE StartUpProofs -----------------------------
(***************************************************************************)
(* The settings and the start, for all threads, posts, batch sizes, old    *)
(* rows, rules versions and bounds.                                        *)
(*                                                                         *)
(* Settings: the lock of update() covers reading the cache, the commit and *)
(* writing the cache (WriteInv), so a write differs from the stored        *)
(* settings only where its request means it to.  A password hash is new    *)
(* (KeysInv) and, until something may have turned it back, the counter     *)
(* only grows (EpochInv), so the key of an ended session never comes back. *)
(*                                                                         *)
(* Rows: reconcile leaves items by the rules before it stores the version  *)
(* (RowsInv), and no later step makes one that isn't.                      *)
(***************************************************************************)
EXTENDS StartUp, TLAPS

\* A request carries what its operation needs.
Carries(r) ==
  /\ r.at \in {"shown", "asked"} \cup Locked <=> r.op \notin {"none", "login"}
  /\ r.at = "shown" => r.op = "page"
  /\ r.at \in Locked => Valid(r.new)
  /\ r.op = "logout" => r.epoch < MaxEpoch
  /\ r.op = "password" => r.hash \in 1..salted

Typed ==
  /\ TypeOK
  /\ \A t \in Threads : Carries(thread[t])
  /\ phase # "up" => \A t \in Threads : thread[t] = NoRequest \/ thread[t].at = "shown"

\* What update() makes of the settings: the request's changes, the rest as it is.
Merges(t) ==
  \A f \in Fields :
    thread[t].new[f] = IF f \in Changes(thread[t]) THEN Patch(thread[t])[f] ELSE cache[f]

Loaded == phase \notin {"down", "read"}
Settled == {"normalize", "reconcile", "batches", "recover", "up"}

\* One write at a time, from the stored settings to the stored settings.
WriteInv ==
  /\ \A t, u \in Threads : thread[t].at \in Locked /\ thread[u].at \in Locked => t = u
  /\ \A t \in Threads :
       /\ thread[t].at \in Locked => Merges(t)
       /\ thread[t].at = "committed" => stored = thread[t].new
  /\ ~Loaded => cache = Default
  /\ phase = "repair" => cache = Usable(stored)
  /\ phase \in Settled => unusable = {}
  /\ phase \in Settled /\ (\A t \in Threads : thread[t].at # "committed") => cache = stored

\* The hash of a password that is being set is nobody's yet.
KeysInv ==
  /\ \A key \in tokens : key.hash <= salted
  /\ cache.hash <= salted /\ stored.hash <= salted
  /\ ended \subseteq tokens
  /\ \A t \in Threads :
       /\ thread[t].before \subseteq tokens
       /\ thread[t].op = "password" =>
            /\ \A key \in tokens : key.hash # thread[t].hash
            /\ cache.hash # thread[t].hash
            /\ thread[t].at # "committed" => stored.hash # thread[t].hash
  /\ \A t, u \in Threads :
       thread[t].op = "password" /\ thread[u].op = "password" /\ thread[t].hash = thread[u].hash => t = u

\* Settings s don't have this key, nor will any later ones.
Dead(key, s) == key.hash = 0 \/ key.epoch < s.epoch \/ key.hash # s.hash

\* A page that is being saved shows the current counter.
PagesAreNew ==
  \A t \in Threads :
    thread[t].op = "page" /\ thread[t].at \in Locked => thread[t].page.epoch = cache.epoch

EpochInv ==
  ~turnedBack =>
    /\ \A t, u \in Threads : thread[t].op = "logout" /\ thread[u].op = "logout" => t = u
    /\ \A t \in Threads : thread[t].op = "logout" => thread[t].epoch = cache.epoch
    /\ PagesAreNew
    /\ \A key \in tokens : key.epoch <= stored.epoch /\ (Loaded => key.epoch <= cache.epoch)
    /\ \A key \in ended : Dead(key, stored) /\ (Loaded => Dead(key, cache))

\* A setting that was reset is usable from then on.
ToldInv == \A f \in DOMAIN told : told[f] <= 1 /\ (told[f] # 0 => f \notin unusable)

\* An item as the current rules have it.
Ruled(i) ==
  /\ ~(i.row.status = "failed_permanent" /\ i.drm)
  /\ ~(i.row.status = "completed" /\ i.cover = "embedded")
  /\ i.row.job = "queued" => i.row.wanted /\ i.row.status \in ActiveStatuses

\* A queued job is of an item that isn't done with.
Undone(i) == i.row.job = "queued" => i.row.status \in ActiveStatuses \cup {"skipped", "excluded"}

RowsInv ==
  /\ \A p \in Ids \ late :
       /\ Undone(item[p])
       /\ version = RulesVersion \/ phase = "batches" => Ruled(item[p])
       /\ version = RulesVersion \/ (phase = "batches" /\ p < batch) => postStatus[p] = Derived(item[p])

IInv == Typed /\ WriteInv /\ KeysInv /\ EpochInv /\ ToldInv /\ RowsInv
-------------------------------------------------------------------------------
(***************************************************************************)
(* What a request changes, and what update() makes of it.                  *)
(***************************************************************************)
Asking == Ops \ {"login"}

LEMMA FieldNames == Fields = {"hash", "on", "epoch", "done", "secret", "rules"}
  BY DEF Fields, Default

\* Only a logout or a page changes the counter, and only a password or opening the hash.
LEMMA PatchOf ==
  ASSUME NEW r, r.op \in Asking, r.page \in Page
  PROVE  /\ Changes(r) \subseteq DOMAIN Patch(r)
         /\ DOMAIN Patch(r) \subseteq Fields
         /\ "epoch" \in Changes(r) <=> r.op \in {"logout", "page"}
         /\ r.op = "logout" => Patch(r)["epoch"] = r.epoch + 1
         /\ r.op = "page" => Patch(r)["epoch"] = r.page.epoch
         /\ "hash" \in Changes(r) <=> r.op \in {"password", "open"}
         /\ r.op = "password" => Patch(r)["hash"] = r.hash
         /\ r.op = "open" => Patch(r)["hash"] = 0
         /\ "on" \in Changes(r) => Patch(r)["on"] \in BOOLEAN
         /\ "done" \in Changes(r) => Patch(r)["done"] \in BOOLEAN
         /\ "secret" \in Changes(r) => Patch(r)["secret"] \in {"", "cookie"}
         /\ "rules" \in Changes(r) => Patch(r)["rules"] = r.rules
<1>1. CASE r.op = "logout"
  BY <1>1, FieldNames DEF Patch, Changes, AllowsSecrets, Secrets
<1>2. CASE r.op = "password"
  BY <1>2, FieldNames DEF Patch, Changes, AllowsSecrets, Secrets
<1>3. CASE r.op = "open"
  BY <1>3, FieldNames DEF Patch, Changes, AllowsSecrets, Secrets
<1>4. CASE r.op = "skip"
  BY <1>4, FieldNames DEF Patch, Changes, AllowsSecrets, Secrets
<1>5. CASE r.op = "form"
  BY <1>5, FieldNames DEF Patch, Changes, AllowsSecrets, Secrets
<1>6. CASE r.op = "account"
  BY <1>6, FieldNames DEF Patch, Changes, AllowsSecrets, Secrets
<1>7. CASE r.op = "clear"
  BY <1>7, FieldNames DEF Patch, Changes, AllowsSecrets, Secrets
<1>8. CASE r.op = "page"
  <2>1. r.page.on \in BOOLEAN /\ r.page.done \in BOOLEAN
    BY DEF Page
  <2> QED
    BY <1>8, <2>1, FieldNames DEF Patch, Changes, AllowsSecrets, Secrets
<1> QED
  BY <1>1, <1>2, <1>3, <1>4, <1>5, <1>6, <1>7, <1>8 DEF Asking, Ops

\* The settings a request makes are settings.
LEMMA MergedSetting ==
  ASSUME Typed, NEW t \in Threads, thread[t].op \in Asking, NEW new,
         new = [f \in Fields |-> IF f \in Changes(thread[t]) THEN Patch(thread[t])[f] ELSE cache[f]]
  PROVE  new \in Setting
<1> DEFINE r == thread[t]
<1>1. /\ r.epoch \in 0..MaxEpoch /\ r.hash \in 0..MaxPasswords /\ r.rules \in {"own", "bad"}
      /\ r.page \in Page
      /\ r.op = "logout" => r.epoch < MaxEpoch
      /\ cache \in Setting
  BY DEF Typed, TypeOK, SettingsTypeOK, Carries
<1> HIDE DEF r
<1>2. r.op \in Asking
  BY DEF r
<1>3. /\ new["hash"] = IF "hash" \in Changes(r) THEN Patch(r)["hash"] ELSE cache.hash
      /\ new["on"] = IF "on" \in Changes(r) THEN Patch(r)["on"] ELSE cache.on
      /\ new["epoch"] = IF "epoch" \in Changes(r) THEN Patch(r)["epoch"] ELSE cache.epoch
      /\ new["done"] = IF "done" \in Changes(r) THEN Patch(r)["done"] ELSE cache.done
      /\ new["secret"] = IF "secret" \in Changes(r) THEN Patch(r)["secret"] ELSE cache.secret
      /\ new["rules"] = IF "rules" \in Changes(r) THEN Patch(r)["rules"] ELSE cache.rules
  BY FieldNames DEF r
<1>4. /\ cache.hash \in 0..MaxPasswords /\ cache.on \in BOOLEAN /\ cache.epoch \in 0..MaxEpoch
      /\ cache.done \in BOOLEAN /\ cache.secret \in {"", "cookie"}
      /\ cache.rules \in {"current", "own", "dead", "bad"}
  BY <1>1 DEF Setting
<1>5. /\ new["hash"] \in 0..MaxPasswords /\ new["on"] \in BOOLEAN /\ new["epoch"] \in 0..MaxEpoch
      /\ new["done"] \in BOOLEAN /\ new["secret"] \in {"", "cookie"}
      /\ new["rules"] \in {"current", "own", "dead", "bad"}
  <2>1. /\ "epoch" \in Changes(r) => \/ r.op = "logout" /\ Patch(r)["epoch"] = r.epoch + 1
                                    \/ Patch(r)["epoch"] = r.page.epoch
        /\ "hash" \in Changes(r) => Patch(r)["hash"] \in {r.hash, 0}
        /\ "on" \in Changes(r) => Patch(r)["on"] \in BOOLEAN
        /\ "done" \in Changes(r) => Patch(r)["done"] \in BOOLEAN
        /\ "secret" \in Changes(r) => Patch(r)["secret"] \in {"", "cookie"}
        /\ "rules" \in Changes(r) => Patch(r)["rules"] = r.rules
    BY <1>1, <1>2, PatchOf
  <2>2. new["hash"] \in 0..MaxPasswords
    <3>1. 0 \in 0..MaxPasswords
      BY SettingsAssumption DEF SettingsAssumption
    <3>2. new["hash"] \in {r.hash, 0, cache.hash}
      BY <1>3, <2>1
    <3> QED
      BY <1>1, <1>4, <3>1, <3>2
  <2>3. new["on"] \in BOOLEAN /\ new["done"] \in BOOLEAN
    BY <1>3, <1>4, <2>1
  <2>4. new["epoch"] \in 0..MaxEpoch
    <3>1. r.op = "logout" => r.epoch + 1 \in 0..MaxEpoch
      BY <1>1, SettingsAssumption DEF SettingsAssumption
    <3>2. \/ new["epoch"] \in {cache.epoch, r.page.epoch}
          \/ r.op = "logout" /\ new["epoch"] = r.epoch + 1
      BY <1>3, <2>1
    <3>3. r.page.epoch \in 0..MaxEpoch
      BY <1>1 DEF Page
    <3> QED
      BY <1>4, <3>1, <3>2, <3>3
  <2>5. new["secret"] \in {"", "cookie"} /\ new["rules"] \in {"current", "own", "dead", "bad"}
    BY <1>1, <1>3, <1>4, <2>1
  <2> QED
    BY <2>2, <2>3, <2>4, <2>5
<1>6. new = [f \in {"hash", "on", "epoch", "done", "secret", "rules"} |-> new[f]]
  BY FieldNames
<1> QED
  BY <1>5, <1>6 DEF Setting

\* What is written is what was made, as no other write came between.
LEMMA WrittenIsNew ==
  ASSUME Typed, WriteInv, NEW t \in Threads, thread[t].at = "merged"
  PROVE  Written(thread[t]) = thread[t].new /\ cache = stored
<1>1. phase = "up"
  BY DEF Typed, NoRequest
<1>2. cache = stored
  BY <1>1 DEF WriteInv, Locked, Settled
<1>3. /\ stored \in Setting /\ cache \in Setting /\ thread[t].new \in Setting
      /\ thread[t].op \in Asking /\ thread[t].page \in Page
  BY DEF Typed, TypeOK, SettingsTypeOK, Carries, Asking, Locked
<1>4. Merges(t)
  BY DEF WriteInv, Locked
<1>5. Changes(thread[t]) \subseteq DOMAIN Patch(thread[t])
  BY <1>3, PatchOf
<1> QED
  BY ZenonT(60), <1>2, <1>3, <1>4, <1>5 DEF Written, Merges, Setting, Fields, Default, GroupOf

\* Settings whose unusable fields are reset are settings.
LEMMA UsableSetting ==
  ASSUME NEW s \in Setting, Valid(s)
  PROVE  /\ Usable(s) \in Setting /\ Valid(Usable(s))
         /\ unusable = {} => Usable(s) = s
         /\ Usable(s).hash \in {s.hash, 0}
         /\ "epoch" \notin unusable => Usable(s).epoch = s.epoch
         /\ \A f \in Fields : Usable(s)[f] # s[f] => f \in unusable
<1>1. /\ s = [f \in Fields |-> s[f]]
      /\ s.hash \in 0..MaxPasswords /\ s.on \in BOOLEAN /\ s.epoch \in 0..MaxEpoch
      /\ s.done \in BOOLEAN /\ s.secret \in {"", "cookie"} /\ s.rules \in {"current", "own", "dead"}
  BY FieldNames DEF Setting, Valid
<1>2. 0 \in 0..MaxPasswords /\ 0 \in 0..MaxEpoch
  BY SettingsAssumption DEF SettingsAssumption
<1>3. /\ Usable(s).hash = (IF "hash" \in unusable THEN 0 ELSE s.hash)
      /\ Usable(s).on = (IF "on" \in unusable THEN FALSE ELSE s.on)
      /\ Usable(s).epoch = (IF "epoch" \in unusable THEN 0 ELSE s.epoch)
      /\ Usable(s).done = (IF "done" \in unusable THEN FALSE ELSE s.done)
      /\ Usable(s).secret = (IF "secret" \in unusable THEN "" ELSE s.secret)
      /\ Usable(s).rules = (IF "rules" \in unusable THEN "current" ELSE s.rules)
  BY FieldNames DEF Usable, Default
<1>4. Usable(s) \in Setting
  <2>1. Usable(s) = [f \in {"hash", "on", "epoch", "done", "secret", "rules"} |-> Usable(s)[f]]
    BY FieldNames DEF Usable
  <2>2. /\ Usable(s).hash \in 0..MaxPasswords /\ Usable(s).epoch \in 0..MaxEpoch
        /\ Usable(s).on \in BOOLEAN /\ Usable(s).done \in BOOLEAN
        /\ Usable(s).secret \in {"", "cookie"} /\ Usable(s).rules \in {"current", "own", "dead", "bad"}
    BY <1>1, <1>2, <1>3
  <2> QED
    BY <2>1, <2>2 DEF Setting
<1>5. Valid(Usable(s))
  BY <1>1, <1>3 DEF Valid
<1>6. unusable = {} => Usable(s) = s
  BY <1>1 DEF Usable
<1>7. \A f \in Fields : Usable(s)[f] # s[f] => f \in unusable
  BY DEF Usable
<1> QED
  BY <1>3, <1>4, <1>5, <1>6, <1>7

LEMMA DefaultSetting == Default \in Setting /\ Valid(Default) /\ Default.hash = 0 /\ Default.epoch = 0
  BY SettingsAssumption DEF Default, Setting, Valid, SettingsAssumption

-------------------------------------------------------------------------------
(***************************************************************************)
(* A request's steps, while the process is up.                             *)
(***************************************************************************)
RequestType ==
  [at : {"idle", "shown", "asked", "sign"} \cup Locked, op : Ops \cup {"none"}, epoch : 0..MaxEpoch,
   hash : 0..MaxPasswords, rules : {"own", "bad"}, page : Page, new : Setting, before : SUBSET Keys]

LEMMA MaskedPage ==
  ASSUME NEW s \in Setting
  PROVE  Masked(s) \in Page /\ Masked(s).epoch = s.epoch
  BY DEF Masked, Page, Setting

LEMMA NoRequestType ==
  /\ NoRequest \in RequestType /\ [NoRequest EXCEPT !.at = "sign"] \in RequestType
  /\ Carries(NoRequest) /\ Carries([NoRequest EXCEPT !.at = "sign"])
<1>1. 0 \in 0..MaxEpoch /\ 0 \in 0..MaxPasswords
  BY SettingsAssumption DEF SettingsAssumption
<1>2. Default \in Setting /\ Masked(Default) \in Page
  BY DefaultSetting, MaskedPage
<1>3. NoRequest \in RequestType /\ [NoRequest EXCEPT !.at = "sign"] \in RequestType
  BY <1>1, <1>2 DEF NoRequest, RequestType, Ops
<1>4. Carries(NoRequest) /\ Carries([NoRequest EXCEPT !.at = "sign"])
  BY DEF Carries, NoRequest, Locked
<1> QED
  BY <1>3, <1>4

\* A request is asked: what it is, and that nothing else changes.
Asked(t) ==
  /\ thread[t].at \in {"idle", "shown"}
  /\ \E r \in RequestType :
       /\ thread' = [thread EXCEPT ![t] = r]
       /\ r.at = "asked" /\ r.op \in Asking /\ r.before = tokens
       /\ r.op = "logout" => r.epoch = cache.epoch /\ r.epoch < MaxEpoch
       /\ r.op = "password" => r.hash = salted + 1 /\ salted' = salted + 1
       /\ r.op # "password" => salted' = salted
       /\ turnedBack' = (turnedBack \/ (r.op = "logout" /\ \E u \in Threads : thread[u].op = "logout"))
  /\ UNCHANGED <<mix, stored, unusable, cache, tokens, failures, ended, faults>>

LEMMA AskedCases ==
  ASSUME Typed, NEW t \in Threads, Logout(t) \/ SetPassword(t) \/ Change(t) \/ SendPage(t)
  PROVE  Asked(t) /\ salted' \in 0..MaxPasswords
<1>1. /\ cache.epoch \in 0..MaxEpoch /\ tokens \subseteq Keys /\ salted \in 0..MaxPasswords
      /\ turnedBack \in BOOLEAN
  BY DEF Typed, TypeOK, SettingsTypeOK, Setting
<1>2. 0 \in 0..MaxEpoch /\ 0 \in 0..MaxPasswords
  BY SettingsAssumption DEF SettingsAssumption
<1>3. Default \in Setting /\ Masked(Default) \in Page
  BY DefaultSetting, MaskedPage
<1>4. CASE Logout(t)
  <2> DEFINE q == [NoRequest EXCEPT !.op = "logout", !.epoch = cache.epoch]
             r == [q EXCEPT !.at = "asked", !.before = tokens]
  <2>1. /\ r \in RequestType /\ r.at = "asked" /\ r.op = "logout" /\ r.before = tokens
        /\ r.epoch = cache.epoch
    BY <1>1, <1>2, <1>3 DEF RequestType, Ops, NoRequest
  <2>2. thread' = [thread EXCEPT ![t] = r]
    BY <1>4 DEF Logout, Ask
  <2>3. /\ thread[t].at = "idle" /\ cache.epoch < MaxEpoch /\ salted' = salted
        /\ turnedBack' = (turnedBack \/ \E u \in Threads : thread[u].op = "logout")
        /\ UNCHANGED <<mix, stored, unusable, cache, tokens, failures, ended, faults>>
    BY <1>4 DEF Logout, Request, Ask, rows
  <2> HIDE DEF r
  <2> QED
    BY <1>1, <2>1, <2>2, <2>3 DEF Asked, Asking, Ops
<1>5. CASE SetPassword(t)
  <2> DEFINE q == [NoRequest EXCEPT !.op = "password", !.hash = salted + 1]
             r == [q EXCEPT !.at = "asked", !.before = tokens]
  <2>0. salted + 1 \in 0..MaxPasswords
    BY <1>1, <1>5, SettingsAssumption DEF SetPassword, SettingsAssumption
  <2>1. /\ r \in RequestType /\ r.at = "asked" /\ r.op = "password" /\ r.before = tokens
        /\ r.hash = salted + 1
    BY <1>1, <1>2, <1>3, <2>0 DEF RequestType, Ops, NoRequest
  <2>2. thread' = [thread EXCEPT ![t] = r]
    BY <1>5 DEF SetPassword, Ask
  <2>3. /\ thread[t].at = "idle" /\ salted' = salted + 1 /\ turnedBack' = turnedBack
        /\ UNCHANGED <<mix, stored, unusable, cache, tokens, failures, ended, faults>>
    BY <1>5 DEF SetPassword, Request, Ask, rows
  <2> HIDE DEF r
  <2> QED
    BY <1>1, <2>0, <2>1, <2>2, <2>3 DEF Asked, Asking, Ops
<1>6. CASE Change(t)
  <2>1. PICK op \in {"open", "skip", "form", "account", "clear"}, rules \in {"own", "bad"} :
          /\ Request(t, op)
          /\ Ask(t, [NoRequest EXCEPT !.op = op, !.rules = rules])
    BY <1>6 DEF Change
  <2> DEFINE q == [NoRequest EXCEPT !.op = op, !.rules = rules]
             r == [q EXCEPT !.at = "asked", !.before = tokens]
  <2>2. r \in RequestType /\ r.at = "asked" /\ r.op = op /\ r.before = tokens
    BY <1>1, <1>2, <1>3 DEF RequestType, Ops, NoRequest
  <2>3. thread' = [thread EXCEPT ![t] = r]
    BY <2>1 DEF Ask
  <2>4. /\ thread[t].at = "idle" /\ salted' = salted /\ turnedBack' = turnedBack
        /\ UNCHANGED <<mix, stored, unusable, cache, tokens, failures, ended, faults>>
    BY <1>6, <2>1 DEF Change, Request, Ask, rows
  <2> HIDE DEF r
  <2> QED
    BY <1>1, <2>2, <2>3, <2>4 DEF Asked, Asking, Ops
<1>7. CASE SendPage(t)
  <2> DEFINE r == [thread[t] EXCEPT !.at = "asked", !.before = tokens]
  <2>1. thread[t] \in RequestType /\ thread[t].at = "shown" /\ thread[t].op = "page"
    BY <1>7 DEF SendPage, Typed, TypeOK, SettingsTypeOK, RequestType, Carries
  <2>2. r \in RequestType /\ r.at = "asked" /\ r.op = "page" /\ r.before = tokens
    BY <1>1, <2>1 DEF RequestType
  <2>3. thread' = [thread EXCEPT ![t] = r]
    BY <1>7 DEF SendPage, Ask
  <2>4. /\ salted' = salted /\ turnedBack' = turnedBack
        /\ UNCHANGED <<mix, stored, unusable, cache, tokens, failures, ended, faults>>
    BY <1>7 DEF SendPage, Ask, rows
  <2> HIDE DEF r
  <2> QED
    BY <1>1, <2>1, <2>2, <2>3, <2>4 DEF Asked, Asking, Ops
<1> QED
  BY <1>4, <1>5, <1>6, <1>7

LEMMA ServeTyped ==
  ASSUME Typed, WriteInv, phase = "up", NEW t \in Threads, RequestStep(t),
         UNCHANGED <<scene, phase, itemVars, told>>
  PROVE  Typed'
<1>0. /\ thread \in [Threads -> RequestType]
      /\ stored \in Setting /\ cache \in Setting /\ Valid(stored) /\ Valid(cache)
      /\ unusable \subseteq Fields
      /\ tokens \subseteq Keys /\ ended \subseteq Keys
      /\ failures \in 0..MaxFailures /\ salted \in 0..MaxPasswords
      /\ turnedBack \in BOOLEAN /\ faults \in 0..MaxFaults
      /\ \A u \in Threads : Carries(thread[u])
  BY DEF Typed, TypeOK, SettingsTypeOK, RequestType
<1>1. ASSUME /\ thread' \in [Threads -> RequestType]
             /\ stored' \in Setting /\ cache' \in Setting /\ Valid(stored') /\ Valid(cache')
             /\ mix' = mix /\ unusable' = unusable
             /\ tokens' \subseteq Keys /\ ended' \subseteq Keys
             /\ failures' \in 0..MaxFailures /\ salted' \in 0..MaxPasswords
             /\ turnedBack' \in BOOLEAN /\ faults' \in 0..MaxFaults
             /\ \A u \in Threads : Carries(thread[u])'
      PROVE  Typed'
  BY <1>1 DEF Typed, TypeOK, SettingsTypeOK, RequestType, itemVars
<1>2. ASSUME NEW x \in RequestType, Carries(x), thread' = [thread EXCEPT ![t] = x], salted' = salted
      PROVE  thread' \in [Threads -> RequestType] /\ \A u \in Threads : Carries(thread[u])'
  BY <1>0, <1>2 DEF Carries
<1>3. CASE Login(t)
  <2> DEFINE x == [thread[t] EXCEPT !.at = "sign", !.op = "login"]
  <2>1. x \in RequestType /\ Carries(x)
    BY ZenonT(60), <1>0 DEF RequestType, Carries, Locked, Ops
  <2>2. thread' = [thread EXCEPT ![t] = x] /\ salted' = salted
    BY <1>0, <1>3 DEF Login
  <2> HIDE DEF x
  <2>3. 0 \in 0..MaxFailures
    BY SettingsAssumption DEF SettingsAssumption
  <2> QED
    BY <1>0, <1>1, <1>2, <1>3, <2>1, <2>2, <2>3 DEF Login, Request, rows
<1>4. CASE WrongPassword(t)
  <2>1. failures + 1 \in 0..MaxFailures
    BY <1>0, <1>4, SettingsAssumption DEF WrongPassword, SettingsAssumption
  <2> QED
    BY <1>0, <1>1, <1>4, <2>1 DEF WrongPassword, Request, Carries, rows
<1>5. CASE Logout(t) \/ SetPassword(t) \/ Change(t) \/ SendPage(t)
  <2>1. Asked(t) /\ salted' \in 0..MaxPasswords
    BY <1>5, AskedCases
  <2>2. PICK r \in RequestType :
          /\ thread' = [thread EXCEPT ![t] = r]
          /\ r.at = "asked" /\ r.op \in Asking
          /\ r.op = "logout" => r.epoch < MaxEpoch
          /\ r.op = "password" => r.hash = salted + 1 /\ salted' = salted + 1
          /\ r.op # "password" => salted' = salted
          /\ turnedBack' \in BOOLEAN
    BY <1>0, <2>1 DEF Asked
  <2>3. thread' \in [Threads -> RequestType]
    BY <1>0, <2>2
  <2>4. ASSUME NEW u \in Threads
        PROVE  Carries(thread[u])'
    <3>1. CASE u = t
      BY <1>0, <2>2, <3>1 DEF Carries, Asking, Locked, Ops
    <3>2. CASE u # t
      BY <1>0, <2>2, <3>2 DEF Carries
    <3> QED
      BY <3>1, <3>2
  <2> QED
    BY <1>0, <1>1, <2>1, <2>2, <2>3, <2>4 DEF Asked
<1>11. CASE OpenPage(t)
  <2> DEFINE x == [NoRequest EXCEPT !.at = "shown", !.op = "page", !.page = Masked(cache)]
  <2>1. x \in RequestType /\ x.at = "shown" /\ x.op = "page"
    BY <1>0, NoRequestType, MaskedPage DEF RequestType, Ops
  <2>2. thread' = [thread EXCEPT ![t] = x] /\ salted' = salted
    BY <1>11 DEF OpenPage
  <2> HIDE DEF x
  <2>3. Carries(x)
    BY <2>1 DEF Carries, Locked
  <2> QED
    BY <1>0, <1>1, <1>2, <1>11, <2>1, <2>2, <2>3 DEF OpenPage, Request, rows
<1>6. CASE Merge(t)
  <2> DEFINE new == [f \in Fields |-> IF f \in Changes(thread[t]) THEN Patch(thread[t])[f]
                                       ELSE cache[f]]
             x == [thread[t] EXCEPT !.at = "merged", !.new = new]
  <2>1. new \in Setting /\ thread[t].op \in Asking
    <3>1. thread[t].op \in Asking
      BY <1>0, <1>6 DEF Merge, Carries, RequestType, Asking, Locked
    <3> QED
      BY <3>1, MergedSetting
  <2>2. thread' = [thread EXCEPT ![t] = IF Valid(new) THEN x ELSE NoRequest] /\ salted' = salted
    BY <1>0, <1>6 DEF Merge
  <2> HIDE DEF new
  <2>3. Valid(new) => x \in RequestType /\ Carries(x)
    <3>1. thread[t] \in RequestType /\ Carries(thread[t])
      BY <1>0
    <3>2. /\ x.at = "merged" /\ x.new = new /\ x.op = thread[t].op
          /\ x.epoch = thread[t].epoch /\ x.hash = thread[t].hash /\ x \in RequestType
      BY <2>1, <3>1 DEF RequestType, Locked
    <3> HIDE DEF x
    <3>3. x.op \notin {"none", "login"}
      BY <2>1, <3>2 DEF Asking, Ops
    <3>4. x.op = "logout" => x.epoch < MaxEpoch
      BY <3>1, <3>2 DEF Carries
    <3>5. x.op = "password" => x.hash \in 1..salted
      BY <3>1, <3>2 DEF Carries
    <3>6. Valid(new) => Carries(x)
      BY <3>2, <3>3, <3>4, <3>5 DEF Carries, Locked
    <3> QED
      BY <3>2, <3>6
  <2> HIDE DEF x
  <2>4. thread' \in [Threads -> RequestType] /\ \A u \in Threads : Carries(thread[u])'
    BY <1>2, <2>2, <2>3, NoRequestType
  <2>5. turnedBack' \in BOOLEAN
    BY <1>0, <1>6 DEF Merge, OldPage
  <2> QED
    BY <1>0, <1>1, <1>6, <2>4, <2>5 DEF Merge, rows
<1>7. CASE Commit(t)
  <2> DEFINE x == [thread[t] EXCEPT !.at = "committed"]
  <2>1. x \in RequestType /\ Carries(x)
    BY <1>0, <1>7 DEF Commit, RequestType, Carries, Locked
  <2>2. thread' = [thread EXCEPT ![t] = x] /\ salted' = salted
    BY <1>0, <1>7 DEF Commit
  <2> HIDE DEF x
  <2>3. stored' \in Setting /\ Valid(stored')
    BY <1>0, <1>7, WrittenIsNew DEF Commit, RequestType, Carries, Locked
  <2> QED
    BY <1>0, <1>1, <1>2, <1>7, <2>1, <2>2, <2>3 DEF Commit
<1>8. CASE CommitFails(t)
  <2>1. faults + 1 \in 0..MaxFaults
    BY <1>0, <1>8, SettingsAssumption DEF CommitFails, SettingsAssumption
  <2> QED
    BY <1>0, <1>1, <1>2, <1>8, <2>1, NoRequestType DEF CommitFails, rows
<1>9. CASE Publish(t)
  <2>1. /\ cache' = thread[t].new /\ Valid(cache') /\ cache' \in Setting
        /\ thread[t].before \subseteq Keys
    BY <1>0, <1>9 DEF Publish, Carries, Locked, RequestType
  <2>2. ended' \subseteq Keys
    BY <1>0, <1>9, <2>1 DEF Publish
  <2>3. thread' \in [Threads -> RequestType] /\ \A u \in Threads : Carries(thread[u])'
    <3>1. \/ thread' = [thread EXCEPT ![t] = [NoRequest EXCEPT !.at = "sign"]]
          \/ thread' = [thread EXCEPT ![t] = NoRequest]
      BY <1>0, <1>9 DEF Publish
    <3>2. salted' = salted
      BY <1>9 DEF Publish
    <3> QED
      BY <1>2, <3>1, <3>2, NoRequestType
  <2> QED
    BY <1>0, <1>1, <1>9, <2>1, <2>2, <2>3 DEF Publish, rows
<1>10. CASE SignIn(t)
  <2>1. Key(cache) \in Keys
    BY <1>0 DEF Key, Keys, Setting
  <2> QED
    BY <1>0, <1>1, <1>2, <1>10, <2>1, NoRequestType DEF SignIn, rows
<1> QED
  BY <1>3, <1>4, <1>5, <1>6, <1>7, <1>8, <1>9, <1>10, <1>11 DEF RequestStep

\* A step of a request asks it, or leaves what it asks for, or ends it.
Continues(t) ==
  /\ \/ /\ thread'[t].op = thread[t].op /\ thread'[t].epoch = thread[t].epoch
        /\ thread'[t].hash = thread[t].hash /\ thread'[t].before = thread[t].before
        /\ thread'[t].page = thread[t].page
     \/ thread'[t].op \in {"none", "login"} /\ thread'[t].before \subseteq thread[t].before
     \/ thread'[t].op = "page" /\ thread'[t].at = "shown" /\ thread'[t].before = {}
  /\ salted' = salted /\ (turnedBack => turnedBack')

LEMMA RequestMoves ==
  ASSUME Typed, NEW t \in Threads, RequestStep(t)
  PROVE  /\ \A u \in Threads : u # t => thread'[u] = thread[u]
         /\ Asked(t) \/ Continues(t)
         /\ stored' = stored \/ Commit(t)
         /\ (cache' = cache /\ ended' = ended) \/ Publish(t)
         /\ tokens' = tokens \/ SignIn(t)
         /\ UNCHANGED <<mix, unusable>>
         /\ turnedBack => turnedBack'
<1>0. thread \in [Threads -> RequestType]
  BY DEF Typed, TypeOK, SettingsTypeOK, RequestType
<1>1. NoRequest.op = "none" /\ NoRequest.before = {}
      /\ [NoRequest EXCEPT !.at = "sign"].op = "none" /\ [NoRequest EXCEPT !.at = "sign"].before = {}
  BY DEF NoRequest
<1>2. ASSUME NEW x, thread' = [thread EXCEPT ![t] = x], salted' = salted, turnedBack => turnedBack',
             \/ x.op = "none" /\ x.before = {}
             \/ x.op = "page" /\ x.at = "shown" /\ x.before = {}
             \/ x.op \in {"login", thread[t].op} /\ x.epoch = thread[t].epoch /\ x.hash = thread[t].hash
                /\ x.before = thread[t].before /\ x.page = thread[t].page
      PROVE  Continues(t) /\ \A u \in Threads : u # t => thread'[u] = thread[u]
  <2>1. thread'[t] = x /\ \A u \in Threads : u # t => thread'[u] = thread[u]
    BY <1>0, <1>2
  <2> QED
    BY <1>2, <2>1 DEF Continues
<1>3. CASE Login(t)
  <2>1. PICK x : x = [thread[t] EXCEPT !.at = "sign", !.op = "login"]
    OBVIOUS
  <2>2. x.op = "login" /\ x.epoch = thread[t].epoch /\ x.hash = thread[t].hash
        /\ x.before = thread[t].before /\ x.page = thread[t].page
    BY <1>0, <2>1 DEF RequestType
  <2>3. thread' = [thread EXCEPT ![t] = x] /\ salted' = salted /\ (turnedBack => turnedBack')
    BY <1>0, <1>3, <2>1 DEF Login
  <2> QED
    BY <1>2, <1>3, <2>2, <2>3 DEF Login, Request, rows
<1>4. CASE WrongPassword(t)
  BY <1>4 DEF WrongPassword, Request, Continues, rows
<1>5. CASE Logout(t) \/ SetPassword(t) \/ Change(t) \/ SendPage(t)
  <2>1. Asked(t)
    BY <1>5, AskedCases
  <2>2. \A u \in Threads : u # t => thread'[u] = thread[u]
    BY <1>0, <2>1 DEF Asked
  <2> QED
    BY <2>1, <2>2 DEF Asked
<1>6. CASE Merge(t)
  <2> DEFINE new == [f \in Fields |-> IF f \in Changes(thread[t]) THEN Patch(thread[t])[f]
                                       ELSE cache[f]]
             x == [thread[t] EXCEPT !.at = "merged", !.new = new]
  <2>1. thread' = [thread EXCEPT ![t] = IF Valid(new) THEN x ELSE NoRequest]
        /\ salted' = salted /\ (turnedBack => turnedBack')
    BY <1>0, <1>6 DEF Merge
  <2>2. x.op = thread[t].op /\ x.epoch = thread[t].epoch /\ x.hash = thread[t].hash
        /\ x.before = thread[t].before /\ x.page = thread[t].page
    BY <1>0 DEF RequestType
  <2> HIDE DEF x, new
  <2>3. Continues(t) /\ \A u \in Threads : u # t => thread'[u] = thread[u]
    BY <1>1, <1>2, <2>1, <2>2
  <2> QED
    BY <1>6, <2>3 DEF Merge, rows
<1>7. CASE Commit(t)
  <2>1. PICK x : x = [thread[t] EXCEPT !.at = "committed"]
    OBVIOUS
  <2>2. x.op = thread[t].op /\ x.epoch = thread[t].epoch /\ x.hash = thread[t].hash
        /\ x.before = thread[t].before /\ x.page = thread[t].page
    BY <1>0, <2>1 DEF RequestType
  <2>3. thread' = [thread EXCEPT ![t] = x] /\ salted' = salted /\ (turnedBack => turnedBack')
    BY <1>0, <1>7, <2>1 DEF Commit
  <2> QED
    BY <1>2, <1>7, <2>2, <2>3 DEF Commit
<1>8. CASE CommitFails(t)
  BY <1>1, <1>2, <1>8 DEF CommitFails, rows
<1>9. CASE Publish(t)
  <2>1. PICK x : thread' = [thread EXCEPT ![t] = x] /\ x.op = "none" /\ x.before = {}
    BY <1>0, <1>1, <1>9 DEF Publish
  <2>2. Continues(t) /\ \A u \in Threads : u # t => thread'[u] = thread[u]
    BY <1>2, <1>9, <2>1 DEF Publish
  <2> QED
    BY <1>9, <2>2 DEF Publish, rows
<1>10. CASE SignIn(t)
  BY <1>1, <1>2, <1>10 DEF SignIn, rows
<1>11. CASE OpenPage(t)
  <2>1. PICK x : x = [NoRequest EXCEPT !.at = "shown", !.op = "page", !.page = Masked(cache)]
    OBVIOUS
  <2>2. x.op = "page" /\ x.at = "shown" /\ x.before = {}
    BY <2>1 DEF NoRequest
  <2>3. Continues(t) /\ \A u \in Threads : u # t => thread'[u] = thread[u]
    BY <1>2, <1>11, <2>1, <2>2 DEF OpenPage, Request
  <2> QED
    BY <1>11, <2>3 DEF OpenPage, Request, rows
<1> QED
  BY <1>3, <1>4, <1>5, <1>6, <1>7, <1>8, <1>9, <1>10, <1>11 DEF RequestStep

\* The lock keeps reading, committing and publishing of one request together.
LEMMA ServeWrites ==
  ASSUME Typed, WriteInv, phase = "up", NEW t \in Threads, RequestStep(t),
         UNCHANGED <<scene, phase, itemVars, told>>
  PROVE  WriteInv'
<1>0. /\ thread \in [Threads -> RequestType]
      /\ \A u \in Threads : Carries(thread[u])
  BY DEF Typed, TypeOK, SettingsTypeOK, RequestType
<1>1. /\ \A u, v \in Threads : thread[u].at \in Locked /\ thread[v].at \in Locked => u = v
      /\ \A u \in Threads : thread[u].at \in Locked => Merges(u)
      /\ \A u \in Threads : thread[u].at = "committed" => stored = thread[u].new
      /\ (\A u \in Threads : thread[u].at # "committed") => cache = stored
      /\ phase' = "up" /\ unusable = {} /\ unusable' = unusable
  BY RequestMoves DEF WriteInv, Settled
<1>2. ASSUME /\ \A u, v \in Threads : thread'[u].at \in Locked /\ thread'[v].at \in Locked => u = v
             /\ \A u \in Threads : thread'[u].at \in Locked => Merges(u)'
             /\ \A u \in Threads : thread'[u].at = "committed" => stored' = thread'[u].new
             /\ (\A u \in Threads : thread'[u].at # "committed") => cache' = stored'
      PROVE  WriteInv'
  BY <1>1, <1>2 DEF WriteInv, Loaded
<1>3. ASSUME NEW u \in Threads, u # t, thread'[u] = thread[u], cache' = cache, Merges(u)
      PROVE  Merges(u)'
  BY <1>3 DEF Merges
<1>4. ASSUME NEW x, thread' = [thread EXCEPT ![t] = x], x.at \notin Locked,
             thread[t].at # "committed", cache' = cache, stored' = stored
      PROVE  WriteInv'
  <2>1. thread'[t] = x /\ \A u \in Threads : u # t => thread'[u] = thread[u]
    BY <1>0, <1>4
  <2>2. x.at # "committed"
    BY <1>4 DEF Locked
  <2> QED
    BY <1>1, <1>2, <1>3, <1>4, <2>1, <2>2
<1>5. CASE Login(t)
  <2>1. PICK x : x = [thread[t] EXCEPT !.at = "sign", !.op = "login"]
    OBVIOUS
  <2>2. x.at = "sign"
    BY <1>0, <2>1 DEF RequestType
  <2> QED
    BY <1>0, <1>4, <1>5, <2>1, <2>2 DEF Login, Request, Locked, rows
<1>6. CASE WrongPassword(t)
  <2>1. thread' = thread /\ cache' = cache /\ stored' = stored
    BY <1>6 DEF WrongPassword, Request, rows
  <2> QED
    BY <1>1, <1>2, <2>1 DEF Merges
<1>7. CASE Logout(t) \/ SetPassword(t) \/ Change(t) \/ SendPage(t)
  <2>1. Asked(t)
    BY <1>7, AskedCases
  <2>2. PICK r \in RequestType : thread' = [thread EXCEPT ![t] = r] /\ r.at = "asked"
    BY <2>1 DEF Asked
  <2> QED
    BY <1>4, <2>1, <2>2 DEF Asked, Locked
<1>8. CASE Merge(t)
  <2> DEFINE new == [f \in Fields |-> IF f \in Changes(thread[t]) THEN Patch(thread[t])[f]
                                       ELSE cache[f]]
             x == [thread[t] EXCEPT !.at = "merged", !.new = new]
  <2>1. thread' = [thread EXCEPT ![t] = IF Valid(new) THEN x ELSE NoRequest]
    BY <1>0, <1>8 DEF Merge
  <2>2. /\ \A u \in Threads : thread[u].at \notin Locked
        /\ cache' = cache /\ stored' = stored
    BY <1>8 DEF Merge, rows
  <2>3. CASE Valid(new)
    <3>1. x.at = "merged" /\ x.new = new /\ x.op = thread[t].op
          /\ Changes(x) = Changes(thread[t]) /\ Patch(x) = Patch(thread[t])
      <4>1. /\ x.at = "merged" /\ x.new = new /\ x.op = thread[t].op /\ x.epoch = thread[t].epoch
            /\ x.hash = thread[t].hash /\ x.rules = thread[t].rules /\ x.page = thread[t].page
        BY <1>0 DEF RequestType
      <4> HIDE DEF x
      <4>2. Patch(x) = Patch(thread[t])
        BY <4>1 DEF Patch
      <4>3. Changes(x) = Changes(thread[t])
        BY <4>1, <4>2 DEF Changes, AllowsSecrets
      <4> QED
        BY <4>1, <4>2, <4>3
    <3> HIDE DEF x
    <3>2. thread'[t] = x /\ \A u \in Threads : u # t => thread'[u] = thread[u]
      BY <1>0, <2>1, <2>3
    <3>3. Merges(t)'
      BY <2>2, <3>1, <3>2 DEF Merges
    <3>4. \A u \in Threads : thread'[u].at \in Locked => u = t
      BY <2>2, <3>2
    <3>5. \A u \in Threads : thread'[u].at # "committed"
      BY <2>2, <3>1, <3>2 DEF Locked
    <3>6. \A u \in Threads : thread[u].at # "committed"
      BY <2>2 DEF Locked
    <3> QED
      BY <1>1, <1>2, <2>2, <3>3, <3>4, <3>5, <3>6
  <2>4. CASE ~Valid(new)
    <3>1. thread' = [thread EXCEPT ![t] = NoRequest]
      BY <2>1, <2>4
    <3> QED
      BY <1>4, <2>2, <3>1 DEF NoRequest, Locked
  <2> QED
    BY <2>3, <2>4
<1>9. CASE Commit(t)
  <2>1. stored' = thread[t].new /\ cache = stored
    BY <1>9, WrittenIsNew DEF Commit
  <2>2. PICK x : x = [thread[t] EXCEPT !.at = "committed"]
    OBVIOUS
  <2>3. x.at = "committed" /\ x.new = thread[t].new /\ x.op = thread[t].op
        /\ Changes(x) = Changes(thread[t]) /\ Patch(x) = Patch(thread[t])
    <3>1. /\ x.at = "committed" /\ x.new = thread[t].new /\ x.op = thread[t].op
          /\ x.epoch = thread[t].epoch /\ x.hash = thread[t].hash /\ x.rules = thread[t].rules
          /\ x.page = thread[t].page
      BY <1>0, <2>2 DEF RequestType
    <3>2. Patch(x) = Patch(thread[t])
      BY <3>1 DEF Patch
    <3>3. Changes(x) = Changes(thread[t])
      BY <3>1, <3>2 DEF Changes, AllowsSecrets
    <3> QED
      BY <3>1, <3>2, <3>3
  <2>4. thread' = [thread EXCEPT ![t] = x] /\ cache' = cache
    BY <1>0, <1>9, <2>2 DEF Commit
  <2>5. thread'[t] = x /\ \A u \in Threads : u # t => thread'[u] = thread[u]
    BY <1>0, <2>4
  <2>6. thread[t].at \in Locked /\ \A u \in Threads : u # t => thread[u].at \notin Locked
    BY <1>1, <1>9 DEF Commit, Locked
  <2>7. Merges(t)'
    BY <1>1, <2>3, <2>4, <2>5, <2>6 DEF Merges
  <2>8. \A u \in Threads : u # t => thread'[u].at \notin Locked /\ thread'[u].at # "committed"
    BY <2>5, <2>6 DEF Locked
  <2> QED
    BY <1>2, <2>1, <2>3, <2>5, <2>7, <2>8
<1>10. CASE CommitFails(t)
  BY <1>0, <1>4, <1>10 DEF CommitFails, NoRequest, Locked, rows
<1>11. CASE Publish(t)
  <2>1. thread[t].at \in Locked /\ \A u \in Threads : u # t => thread[u].at \notin Locked
    BY <1>1, <1>11 DEF Publish, Locked
  <2>2. cache' = stored'
    BY <1>1, <1>11 DEF Publish, rows
  <2>3. PICK x : thread' = [thread EXCEPT ![t] = x] /\ x.at \in {"idle", "sign"}
    <3>1. [NoRequest EXCEPT !.at = "sign"].at = "sign" /\ NoRequest.at = "idle"
      BY DEF NoRequest
    <3> QED
      BY <1>0, <1>11, <3>1 DEF Publish
  <2>4. \A u \in Threads : thread'[u].at \notin Locked
    BY <1>0, <2>1, <2>3 DEF Locked
  <2>5. \A u \in Threads : thread'[u].at # "committed"
    BY <2>4 DEF Locked
  <2> QED
    BY <1>2, <2>2, <2>4, <2>5
<1>12. CASE SignIn(t)
  BY <1>0, <1>4, <1>12 DEF SignIn, NoRequest, Locked, rows
<1>13. CASE OpenPage(t)
  <2>1. PICK x : x = [NoRequest EXCEPT !.at = "shown", !.op = "page", !.page = Masked(cache)]
    OBVIOUS
  <2>2. x.at = "shown"
    BY <2>1 DEF NoRequest
  <2> QED
    BY <1>4, <1>13, <2>1, <2>2 DEF OpenPage, Request, Locked, rows
<1> QED
  BY <1>5, <1>6, <1>7, <1>8, <1>9, <1>10, <1>11, <1>12, <1>13 DEF RequestStep

\* What a write leaves of the hash and the counter.
LEMMA NewKey ==
  ASSUME Typed, WriteInv, NEW t \in Threads, thread[t].at \in Locked
  PROVE  /\ thread[t].op \in Asking
         /\ thread[t].op = "logout" => thread[t].new.epoch = thread[t].epoch + 1
         /\ thread[t].op = "page" => thread[t].new.epoch = thread[t].page.epoch
         /\ thread[t].op \notin {"logout", "page"} => thread[t].new.epoch = cache.epoch
         /\ thread[t].op = "password" => thread[t].new.hash = thread[t].hash
         /\ thread[t].op = "open" => thread[t].new.hash = 0
         /\ thread[t].op \notin {"password", "open"} => thread[t].new.hash = cache.hash
         /\ thread[t].new \in Setting /\ Valid(thread[t].new)
<1>1. thread[t].op \in Asking /\ thread[t].page \in Page
  BY DEF Typed, TypeOK, SettingsTypeOK, Carries, Asking
<1>2. Merges(t)
  BY DEF WriteInv
<1>3. "epoch" \in Fields /\ "hash" \in Fields
  BY FieldNames
<1>4. /\ "epoch" \in Changes(thread[t]) <=> thread[t].op \in {"logout", "page"}
      /\ thread[t].op = "logout" => Patch(thread[t])["epoch"] = thread[t].epoch + 1
      /\ thread[t].op = "page" => Patch(thread[t])["epoch"] = thread[t].page.epoch
      /\ "hash" \in Changes(thread[t]) <=> thread[t].op \in {"password", "open"}
      /\ thread[t].op = "password" => Patch(thread[t])["hash"] = thread[t].hash
      /\ thread[t].op = "open" => Patch(thread[t])["hash"] = 0
  BY <1>1, PatchOf
<1>5. thread[t].new \in Setting /\ Valid(thread[t].new)
  BY DEF Typed, TypeOK, SettingsTypeOK, Carries
<1> QED
  BY <1>1, <1>2, <1>3, <1>4, <1>5 DEF Merges

\* A hash being set stays nobody's until it is stored.
LEMMA ServeKeys ==
  ASSUME Typed, WriteInv, KeysInv, phase = "up", NEW t \in Threads, RequestStep(t),
         UNCHANGED <<scene, phase, itemVars, told>>
  PROVE  KeysInv'
<1>0. /\ \A u \in Threads : u # t => thread'[u] = thread[u]
      /\ Asked(t) \/ Continues(t)
      /\ stored' = stored \/ Commit(t)
      /\ (cache' = cache /\ ended' = ended) \/ Publish(t)
      /\ tokens' = tokens \/ SignIn(t)
  BY RequestMoves
<1>1. /\ \A key \in tokens : key.hash <= salted /\ key \in Keys
      /\ cache.hash <= salted /\ stored.hash <= salted
      /\ ended \subseteq tokens
      /\ \A u \in Threads : thread[u].before \subseteq tokens
      /\ \A u \in Threads : thread[u].op = "password" =>
           /\ \A key \in tokens : key.hash # thread[u].hash
           /\ cache.hash # thread[u].hash
           /\ thread[u].at # "committed" => stored.hash # thread[u].hash
      /\ \A u, v \in Threads : thread[u].op = "password" /\ thread[v].op = "password"
           /\ thread[u].hash = thread[v].hash => u = v
  BY DEF KeysInv, Typed, TypeOK, SettingsTypeOK
<1>2. /\ \A u \in Threads : thread[u].op = "password" => thread[u].hash \in 1..salted
      /\ cache.hash \in Nat /\ stored.hash \in Nat /\ salted \in Nat
  <2>1. cache \in Setting /\ stored \in Setting /\ salted \in 0..MaxPasswords
    BY DEF Typed, TypeOK, SettingsTypeOK
  <2>2. \A u \in Threads : thread[u].op = "password" => thread[u].hash \in 1..salted
    BY DEF Typed, Carries
  <2>3. cache.hash \in 0..MaxPasswords /\ stored.hash \in 0..MaxPasswords
    BY <2>1 DEF Setting
  <2> QED
    BY <2>1, <2>2, <2>3
<1>3. CASE Asked(t)
  <2>1. PICK r \in RequestType :
          /\ thread'[t] = r /\ r.before = tokens
          /\ r.op = "password" => r.hash = salted + 1 /\ salted' = salted + 1
          /\ r.op # "password" => salted' = salted
          /\ UNCHANGED <<stored, cache, tokens, ended>>
    <3>1. thread \in [Threads -> RequestType]
      BY DEF Typed, TypeOK, SettingsTypeOK, RequestType
    <3> QED
      BY <1>3, <3>1 DEF Asked
  <2>2. \A key \in tokens : key.hash \in Nat
    BY <1>1 DEF Keys
  <2>3. salted' >= salted /\ salted' \in Nat
    BY <1>2, <2>1
  <2>4. \A key \in tokens' : key.hash <= salted'
    BY <1>1, <1>2, <2>1, <2>2, <2>3
  <2>5. cache'.hash <= salted' /\ stored'.hash <= salted'
    BY <1>1, <1>2, <2>1, <2>3
  <2>6. \A u \in Threads : thread'[u].before \subseteq tokens'
    BY <1>0, <1>1, <2>1
  <2>7. r.op = "password" => /\ \A key \in tokens : key.hash # r.hash
                             /\ cache.hash # r.hash /\ stored.hash # r.hash
                             /\ \A u \in Threads : thread[u].op = "password" => thread[u].hash # r.hash
    BY <1>1, <1>2, <2>1, <2>2
  <2>8. ASSUME NEW u \in Threads, thread'[u].op = "password"
        PROVE  /\ \A key \in tokens' : key.hash # thread'[u].hash
               /\ cache'.hash # thread'[u].hash
               /\ thread'[u].at # "committed" => stored'.hash # thread'[u].hash
    <3>1. CASE u = t
      BY <2>1, <2>7, <2>8, <3>1
    <3>2. CASE u # t
      BY <1>0, <1>1, <2>1, <2>8, <3>2
    <3> QED
      BY <3>1, <3>2
  <2>9. \A u, v \in Threads : thread'[u].op = "password" /\ thread'[v].op = "password"
          /\ thread'[u].hash = thread'[v].hash => u = v
    <3>1. SUFFICES ASSUME NEW u \in Threads, NEW v \in Threads, u # v,
                          thread'[u].op = "password", thread'[v].op = "password",
                          thread'[u].hash = thread'[v].hash
                   PROVE  FALSE
      OBVIOUS
    <3>2. CASE u = t
      BY <1>0, <2>1, <2>7, <3>1, <3>2
    <3>3. CASE v = t
      BY <1>0, <2>1, <2>7, <3>1, <3>3
    <3>4. CASE u # t /\ v # t
      BY <1>0, <1>1, <3>1, <3>4
    <3> QED
      BY <3>2, <3>3, <3>4
  <2> QED
    BY <1>1, <2>1, <2>4, <2>5, <2>6, <2>8, <2>9 DEF KeysInv
<1>4. CASE Continues(t)
  <2>1. /\ \A u \in Threads : thread'[u].op = "password" =>
             thread[u].op = "password" /\ thread'[u].hash = thread[u].hash
        /\ \A u \in Threads : thread'[u].before \subseteq thread[u].before
        /\ salted' = salted
    BY <1>0, <1>4 DEF Continues
  <2>2. /\ \A key \in tokens' : key.hash <= salted
        /\ \A u \in Threads : thread[u].op = "password" => \A key \in tokens' : key.hash # thread[u].hash
        /\ tokens \subseteq tokens'
    <3>1. CASE tokens' = tokens
      BY <1>1, <3>1
    <3>2. CASE SignIn(t)
      <4>1. tokens' = tokens \cup {Key(cache)} /\ Key(cache).hash = cache.hash
        BY <3>2 DEF SignIn, Key
      <4> QED
        BY <1>1, <4>1
    <3> QED
      BY <1>0, <3>1, <3>2
  <2>3. /\ stored'.hash <= salted
        /\ \A u \in Threads : thread'[u].op = "password" /\ thread'[u].at # "committed" =>
             stored'.hash # thread[u].hash
    <3>1. CASE stored' = stored /\ ~Commit(t)
      <4>1. \A u \in Threads : thread'[u].op = "password" /\ thread'[u].at # "committed" =>
              thread[u].at # "committed"
        <5>1. thread'[t].op = "password" => ~Publish(t)
          <6>1. NoRequest.op = "none" /\ [NoRequest EXCEPT !.at = "sign"].op = "none"
            BY DEF NoRequest
          <6>2. thread \in [Threads -> RequestType]
            BY DEF Typed, TypeOK, SettingsTypeOK, RequestType
          <6> QED
            BY <6>1, <6>2 DEF Publish
        <5>2. thread[t].at = "committed" => Publish(t)
          BY DEF RequestStep, Login, WrongPassword, Logout, SetPassword, Change, OpenPage, SendPage,
                 Request, Merge, Commit, CommitFails, SignIn
        <5> QED
          BY <1>0, <5>1, <5>2
      <4> QED
        BY <1>1, <2>1, <3>1, <4>1
    <3>2. CASE Commit(t)
      <4>1. stored' = thread[t].new /\ thread[t].at \in Locked
        BY <3>2, WrittenIsNew DEF Commit, Locked
      <4>2. thread'[t].at = "committed"
        <5>1. thread \in [Threads -> RequestType]
          BY DEF Typed, TypeOK, SettingsTypeOK, RequestType
        <5> QED
          BY <3>2, <5>1 DEF Commit, RequestType
      <4>3. \/ thread[t].op = "password" /\ stored'.hash = thread[t].hash
            \/ stored'.hash = 0
            \/ stored'.hash = cache.hash
        BY <4>1, NewKey
      <4>4. stored'.hash <= salted
        BY <1>1, <1>2, <4>3
      <4>5. ASSUME NEW u \in Threads, thread'[u].op = "password", thread'[u].at # "committed"
            PROVE  stored'.hash # thread[u].hash
        <5>1. u # t
          BY <4>2, <4>5
        <5>2. thread[u].op = "password" /\ thread[u].hash \in 1..salted
          BY <1>2, <2>1, <4>5
        <5> QED
          BY <1>1, <1>2, <4>3, <5>1, <5>2
      <4> QED
        BY <4>4, <4>5
    <3> QED
      BY <1>0, <3>1, <3>2
  <2>4. /\ cache'.hash <= salted /\ ended' \subseteq tokens
        /\ \A u \in Threads : thread'[u].op = "password" => cache'.hash # thread[u].hash
    <3>1. CASE cache' = cache /\ ended' = ended
      BY <1>1, <2>1, <3>1
    <3>2. CASE Publish(t)
      <4>1. cache' = stored
        BY <3>2 DEF Publish, WriteInv
      <4>2. ended' \subseteq ended \cup thread[t].before
        BY <3>2 DEF Publish
      <4>3. thread'[t].op = "none"
        <5>1. NoRequest.op = "none" /\ [NoRequest EXCEPT !.at = "sign"].op = "none"
          BY DEF NoRequest
        <5>2. thread \in [Threads -> RequestType]
          BY DEF Typed, TypeOK, SettingsTypeOK, RequestType
        <5> QED
          BY <3>2, <5>1, <5>2 DEF Publish
      <4>4. \A u \in Threads : thread[u].at = "committed" => u = t
        BY <3>2 DEF Publish, WriteInv, Locked
      <4> QED
        BY <1>1, <2>1, <4>1, <4>2, <4>3, <4>4
    <3> QED
      BY <1>0, <3>1, <3>2
  <2> QED
    BY <1>1, <2>1, <2>2, <2>3, <2>4 DEF KeysInv
<1> QED
  BY <1>0, <1>3, <1>4

\* The lock keeps the counter from changing between reading it and publishing.
LEMMA PagesStayNew ==
  ASSUME Typed, WriteInv, phase = "up", PagesAreNew, NEW t \in Threads, RequestStep(t), ~turnedBack'
  PROVE  PagesAreNew'
<1>1. /\ \A u \in Threads : u # t => thread'[u] = thread[u]
      /\ cache' = cache \/ Publish(t)
      /\ thread \in [Threads -> RequestType]
  BY RequestMoves DEF Typed, TypeOK, SettingsTypeOK, RequestType
<1>2. ASSUME NEW u \in Threads, u # t, thread[u].op = "page", thread[u].at \in Locked
      PROVE  cache' = cache
  BY <1>1, <1>2 DEF Publish, WriteInv, Locked
<1>3. SUFFICES ASSUME thread'[t].op = "page", thread'[t].at \in Locked
               PROVE  thread'[t].page.epoch = cache'.epoch
  BY <1>1, <1>2 DEF PagesAreNew
<1>4. CASE Merge(t)
  <2> DEFINE new == [f \in Fields |-> IF f \in Changes(thread[t]) THEN Patch(thread[t])[f]
                                       ELSE cache[f]]
             x == [thread[t] EXCEPT !.at = "merged", !.new = new]
  <2>1. x.op = thread[t].op /\ x.page = thread[t].page
    BY <1>1 DEF RequestType
  <2>2. thread'[t] = x \/ thread'[t] = NoRequest
    BY <1>1, <1>4 DEF Merge
  <2> HIDE DEF x
  <2>3. thread'[t].page = thread[t].page /\ thread[t].op = "page"
    BY <1>3, <2>1, <2>2 DEF NoRequest
  <2>4. ~OldPage(thread[t]) /\ cache' = cache
    BY <1>4 DEF Merge
  <2> QED
    BY <2>3, <2>4 DEF OldPage
<1>5. CASE Commit(t)
  <2>1. thread'[t] = [thread[t] EXCEPT !.at = "committed"] /\ cache' = cache
    BY <1>1, <1>5 DEF Commit
  <2>2. thread'[t].page = thread[t].page /\ thread'[t].op = thread[t].op
    BY <1>1, <2>1 DEF RequestType
  <2> QED
    BY <1>3, <1>5, <2>1, <2>2 DEF PagesAreNew, Commit, Locked
<1>6. CASE WrongPassword(t)
  BY <1>3, <1>6 DEF WrongPassword, Request, PagesAreNew
<1>7. CASE Logout(t) \/ SetPassword(t) \/ Change(t) \/ SendPage(t)
  <2>1. thread'[t].at = "asked"
    BY <1>1, <1>7, AskedCases DEF Asked
  <2> QED
    BY <1>3, <2>1 DEF Locked
<1>8. CASE Login(t)
  <2>1. thread'[t] = [thread[t] EXCEPT !.at = "sign", !.op = "login"]
    BY <1>1, <1>8 DEF Login
  <2>2. thread'[t].op = "login"
    BY <1>1, <2>1 DEF RequestType
  <2> QED
    BY <1>3, <2>2
<1>9. CASE OpenPage(t)
  <2>1. thread'[t] = [NoRequest EXCEPT !.at = "shown", !.op = "page", !.page = Masked(cache)]
    BY <1>1, <1>9 DEF OpenPage
  <2>2. thread'[t].at = "shown"
    BY <2>1 DEF NoRequest
  <2> QED
    BY <1>3, <2>2 DEF Locked
<1>10. CASE CommitFails(t) \/ Publish(t) \/ SignIn(t)
  <2>1. thread'[t] \in {NoRequest, [NoRequest EXCEPT !.at = "sign"]}
    BY <1>1, <1>10 DEF CommitFails, Publish, SignIn
  <2>2. thread'[t].op = "none"
    BY <2>1 DEF NoRequest
  <2> QED
    BY <1>3, <2>2
<1> QED
  BY <1>4, <1>5, <1>6, <1>7, <1>8, <1>9, <1>10 DEF RequestStep

\* Until something may have turned the counter back, a key that ended stays behind.
LEMMA ServeEpochs ==
  ASSUME Typed, WriteInv, KeysInv, EpochInv, phase = "up", NEW t \in Threads, RequestStep(t),
         UNCHANGED <<scene, phase, itemVars, told>>
  PROVE  EpochInv'
<1>0. /\ \A u \in Threads : u # t => thread'[u] = thread[u]
      /\ Asked(t) \/ Continues(t)
      /\ stored' = stored \/ Commit(t)
      /\ (cache' = cache /\ ended' = ended) \/ Publish(t)
      /\ tokens' = tokens \/ SignIn(t)
  BY RequestMoves
<1>1. SUFFICES ASSUME ~turnedBack'
               PROVE  EpochInv'
  BY DEF EpochInv
<1>2. ~turnedBack
  BY <1>1, RequestMoves
<1>3. /\ \A u, v \in Threads : thread[u].op = "logout" /\ thread[v].op = "logout" => u = v
      /\ \A u \in Threads : thread[u].op = "logout" => thread[u].epoch = cache.epoch
      /\ \A key \in tokens : key.epoch <= stored.epoch /\ key.epoch <= cache.epoch
      /\ \A key \in ended : Dead(key, stored) /\ Dead(key, cache)
      /\ PagesAreNew /\ PagesAreNew'
  BY <1>1, <1>2, PagesStayNew DEF EpochInv, Loaded
<1>4. /\ \A key \in tokens : key.hash \in Nat /\ key.epoch \in Nat
      /\ cache.epoch \in Nat /\ stored.epoch \in Nat /\ cache \in Setting /\ stored \in Setting
      /\ ended \subseteq tokens
      /\ \A u \in Threads : thread[u].before \subseteq tokens
      /\ thread \in [Threads -> RequestType]
      /\ \A u \in Threads : thread[u].epoch \in Nat
  <2>1. tokens \subseteq Keys /\ cache \in Setting /\ stored \in Setting
        /\ thread \in [Threads -> RequestType]
    BY DEF Typed, TypeOK, SettingsTypeOK, RequestType
  <2>2. ended \subseteq tokens /\ \A u \in Threads : thread[u].before \subseteq tokens
    BY DEF KeysInv
  <2>3. \A u \in Threads : thread[u].epoch \in Nat
    BY <2>1 DEF RequestType
  <2>4. /\ cache.epoch \in 0..MaxEpoch /\ stored.epoch \in 0..MaxEpoch
        /\ \A key \in tokens : key.hash \in 0..MaxPasswords /\ key.epoch \in 0..MaxEpoch
    BY <2>1 DEF Keys, Setting
  <2> QED
    BY <2>1, <2>2, <2>3, <2>4
\* The counter that is stored is never behind the one in the cache.
<1>5. ASSUME NEW u \in Threads, thread[u].at = "committed", thread[u].op # "logout"
      PROVE  stored.epoch = cache.epoch
  BY <1>3, <1>5, NewKey DEF WriteInv, Locked, PagesAreNew
<1>6. cache.epoch <= stored.epoch
  <2>1. CASE \A u \in Threads : thread[u].at # "committed"
    BY <1>4, <2>1 DEF WriteInv, Settled
  <2>2. CASE \E u \in Threads : thread[u].at = "committed"
    <3>1. PICK u \in Threads : thread[u].at = "committed"
      BY <2>2
    <3>2. stored = thread[u].new /\ thread[u].at \in Locked
      BY <3>1 DEF WriteInv, Locked
    <3>3. thread[u].op = "logout" => stored.epoch = cache.epoch + 1
      BY <1>3, <3>2, NewKey
    <3> QED
      BY <1>4, <1>5, <3>1, <3>3
  <2> QED
    BY <2>1, <2>2
<1>7. CASE Asked(t)
  <2>1. PICK r \in RequestType :
          /\ thread'[t] = r
          /\ r.op = "logout" => r.epoch = cache.epoch
          /\ turnedBack' = (turnedBack \/ (r.op = "logout" /\ \E u \in Threads : thread[u].op = "logout"))
          /\ UNCHANGED <<stored, cache, tokens, ended>>
    BY <1>4, <1>7 DEF Asked
  <2>2. \A u, v \in Threads : thread'[u].op = "logout" /\ thread'[v].op = "logout" => u = v
    <3>1. r.op = "logout" => \A u \in Threads : thread[u].op # "logout"
      BY <1>1, <2>1
    <3> QED
      BY <1>0, <1>3, <2>1, <3>1
  <2>3. \A u \in Threads : thread'[u].op = "logout" => thread'[u].epoch = cache'.epoch
    BY <1>0, <1>3, <2>1
  <2> QED
    BY <1>3, <2>1, <2>2, <2>3 DEF EpochInv, Dead
<1>8. CASE Continues(t)
  <2>1. \A u \in Threads : thread'[u].op = "logout" =>
          thread[u].op = "logout" /\ thread'[u].epoch = thread[u].epoch
    BY <1>0, <1>8 DEF Continues
  <2>2. /\ \A key \in tokens : key.epoch <= stored'.epoch
        /\ \A key \in ended : Dead(key, stored')
        /\ stored.epoch <= stored'.epoch
    <3>1. CASE stored' = stored
      BY <1>3, <1>4, <3>1
    <3>2. CASE Commit(t)
      <4>1. stored' = thread[t].new /\ thread[t].at \in Locked /\ cache = stored
        BY <3>2, WrittenIsNew DEF Commit, Locked
      <4>2. stored'.epoch = IF thread[t].op = "logout" THEN cache.epoch + 1 ELSE cache.epoch
        BY <1>3, <4>1, NewKey DEF PagesAreNew
      <4>3. \/ thread[t].op = "password" /\ \A key \in tokens : key.hash # stored'.hash
            \/ stored'.hash = 0
            \/ stored'.hash = stored.hash
        BY <4>1, NewKey DEF KeysInv
      <4>4. ASSUME NEW key \in ended
            PROVE  Dead(key, stored')
        BY <1>3, <1>4, <4>1, <4>2, <4>3, <4>4 DEF Dead
      <4> QED
        BY <1>3, <1>4, <4>1, <4>2, <4>4
    <3> QED
      BY <1>0, <3>1, <3>2
  <2>3. /\ \A key \in tokens : key.epoch <= cache'.epoch
        /\ \A key \in ended' : Dead(key, stored') /\ Dead(key, cache')
        /\ \A u \in Threads : thread'[u].op = "logout" => thread[u].epoch = cache'.epoch
    <3>1. CASE cache' = cache /\ ended' = ended
      BY <1>3, <2>1, <2>2, <3>1
    <3>2. CASE Publish(t)
      <4>1. stored = thread[t].new /\ thread[t].at \in Locked /\ cache' = stored /\ stored' = stored
        BY <3>2 DEF Publish, WriteInv, Locked, rows
      <4>2. stored.epoch = IF thread[t].op = "logout" THEN cache.epoch + 1 ELSE cache.epoch
        BY <1>3, <4>1, NewKey DEF PagesAreNew
      <4>3. thread[t].op = "password" => \A key \in tokens : key.hash # stored.hash
        BY <4>1, NewKey DEF KeysInv
      <4>4. ASSUME NEW key \in ended'
            PROVE  Dead(key, stored)
        <5>1. CASE key \in ended
          BY <1>3, <5>1
        <5>2. CASE key \notin ended
          <6>1. thread[t].op \in {"logout", "password"} /\ key \in tokens
            BY <1>4, <3>2, <4>4, <5>2 DEF Publish
          <6>2. CASE thread[t].op = "logout"
            BY <1>3, <1>4, <4>2, <6>1, <6>2 DEF Dead
          <6>3. CASE thread[t].op = "password"
            BY <4>3, <6>1, <6>3 DEF Dead
          <6> QED
            BY <6>1, <6>2, <6>3
        <5> QED
          BY <5>1, <5>2
      <4>5. thread'[t].op = "none"
        <5>1. NoRequest.op = "none" /\ [NoRequest EXCEPT !.at = "sign"].op = "none"
          BY DEF NoRequest
        <5> QED
          BY <1>4, <3>2, <5>1 DEF Publish
      <4>6. ASSUME NEW u \in Threads, thread'[u].op = "logout"
            PROVE  thread[u].epoch = stored.epoch
        <5>1. u # t /\ thread[u].op = "logout"
          BY <2>1, <4>5, <4>6
        <5> QED
          BY <1>3, <4>2, <5>1
      <4> QED
        BY <1>3, <4>1, <4>4, <4>6
    <3> QED
      BY <1>0, <3>1, <3>2
  <2>4. \A key \in tokens' : key.epoch <= stored'.epoch /\ key.epoch <= cache'.epoch
    <3>1. CASE tokens' = tokens
      BY <2>2, <2>3, <3>1
    <3>2. CASE SignIn(t)
      <4>1. tokens' = tokens \cup {Key(cache)} /\ Key(cache).epoch = cache.epoch
            /\ stored' = stored /\ cache' = cache
        BY <3>2 DEF SignIn, Key, rows
      <4> QED
        BY <1>3, <1>4, <1>6, <4>1
    <3> QED
      BY <1>0, <3>1, <3>2
  <2> QED
    BY <1>3, <2>1, <2>3, <2>4 DEF EpochInv
<1> QED
  BY <1>0, <1>7, <1>8

LEMMA ServeTold ==
  ASSUME Typed, ToldInv, NEW t \in Threads, RequestStep(t), told' = told
  PROVE  ToldInv'
  BY RequestMoves DEF ToldInv

-------------------------------------------------------------------------------
(***************************************************************************)
(* The start and the crash, as the settings see them.                      *)
(***************************************************************************)
SettingsInv == WriteInv /\ KeysInv /\ EpochInv /\ ToldInv

ItemsTyped ==
  /\ batch \in 1..(Posts + Batch) /\ version \in 0..RulesVersion
  /\ item \in [Ids -> Item] /\ postStatus \in [Ids -> PostStatuses]
  /\ late \subseteq Ids

Phases == {"down", "read", "repair", "normalize", "reconcile", "batches", "recover", "up"}

\* A step of the start or of the items that leaves the settings alone.
LEMMA StillKeeps ==
  ASSUME Typed, SettingsInv, ItemsTyped', faults' \in 0..MaxFaults, failures' \in 0..MaxFailures,
         UNCHANGED <<mix, stored, unusable, cache, thread, tokens, salted, ended, turnedBack, scene, told>>,
         \/ phase = "down" /\ phase' = "read"
         \/ phase \in Settled /\ phase' \in Settled /\ (phase = "up" => phase' = "up")
  PROVE  Typed' /\ SettingsInv'
<1>1. phase' \in Phases
  BY DEF Settled, Phases
<1>2. Typed'
  <2>1. TypeOK'
    BY <1>1 DEF Typed, TypeOK, SettingsTypeOK, ItemsTyped, Phases
  <2>2. \A t \in Threads : Carries(thread[t])'
    BY DEF Typed, Carries
  <2>3. phase' # "up" => \A t \in Threads : thread'[t] = NoRequest \/ thread'[t].at = "shown"
    BY DEF Typed
  <2> QED
    BY <2>1, <2>2, <2>3 DEF Typed
<1>3. WriteInv'
  <2>1. phase' # "repair" /\ (~Loaded' => ~Loaded) /\ (phase' \in Settled => phase \in Settled)
    BY DEF Loaded, Settled
  <2> QED
    BY <2>1 DEF SettingsInv, WriteInv, Merges
<1>4. KeysInv'
  BY DEF SettingsInv, KeysInv
<1>5. EpochInv'
  <2>1. Loaded' => Loaded
    BY DEF Loaded, Settled
  <2> QED
    BY <2>1 DEF SettingsInv, EpochInv, Dead, PagesAreNew
<1>6. ToldInv'
  BY DEF SettingsInv, ToldInv
<1> QED
  BY <1>2, <1>3, <1>4, <1>5, <1>6 DEF SettingsInv

\* The process ends.
LEMMA ForgetKeeps ==
  ASSUME Typed, SettingsInv, Forget, faults' \in 0..MaxFaults, phase' = "down"
  PROVE  Typed' /\ SettingsInv'
<1>0. thread \in [Threads -> RequestType] /\ \A t \in Threads : Carries(thread[t])
  BY DEF Typed, TypeOK, SettingsTypeOK, RequestType
<1>1. /\ cache' = Default /\ failures' = 0
      /\ thread' = [t \in Threads |-> IF thread[t].at = "shown" THEN thread[t] ELSE NoRequest]
      /\ UNCHANGED <<mix, stored, unusable, tokens, salted, ended, turnedBack, scene, batch, version,
                     item, postStatus, late, told>>
  BY DEF Forget, itemVars, rows
<1>2. /\ NoRequest.at = "idle" /\ NoRequest.op = "none" /\ NoRequest.before = {}
      /\ NoRequest \in RequestType /\ Carries(NoRequest)
  BY NoRequestType DEF NoRequest
<1>3. 0 \in 0..MaxFailures
  BY SettingsAssumption DEF SettingsAssumption
<1>4. ASSUME NEW t \in Threads
      PROVE  /\ thread'[t] \in RequestType /\ Carries(thread'[t])
             /\ \/ thread'[t] = NoRequest
                \/ thread'[t] = thread[t] /\ thread[t].at = "shown" /\ thread[t].op = "page"
  BY <1>0, <1>1, <1>2 DEF Carries
<1>5. \A t \in Threads : thread'[t].at \notin Locked /\ thread'[t].op \notin {"logout", "password"}
  BY <1>2, <1>4 DEF Locked
<1>6. Typed'
  <2>1. TypeOK'
    <3>1. thread' \in [Threads -> RequestType]
      BY <1>1, <1>4
    <3> QED
      BY <1>1, <1>3, <3>1, DefaultSetting DEF Typed, TypeOK, SettingsTypeOK, RequestType
  <2>2. \A t \in Threads : Carries(thread[t])'
    BY <1>1, <1>4 DEF Carries
  <2> QED
    BY <1>4, <2>1, <2>2 DEF Typed
<1>7. WriteInv'
  <2>1. \A t \in Threads : thread'[t].at # "committed"
    BY <1>5 DEF Locked
  <2> QED
    BY <1>1, <1>5, <2>1 DEF WriteInv, Settled, Merges
<1>8. KeysInv'
  <2>1. cache'.hash <= salted'
    BY <1>1, DefaultSetting DEF Typed, TypeOK, SettingsTypeOK
  <2>2. \A t \in Threads : thread'[t].before \subseteq tokens
    BY <1>2, <1>4 DEF SettingsInv, KeysInv
  <2> QED
    BY <1>1, <1>5, <2>1, <2>2 DEF SettingsInv, KeysInv
<1>9. EpochInv'
  BY <1>1, <1>5 DEF SettingsInv, EpochInv, Loaded, Dead, PagesAreNew
<1>10. ToldInv'
  BY <1>1 DEF SettingsInv, ToldInv
<1> QED
  BY <1>6, <1>7, <1>8, <1>9, <1>10 DEF SettingsInv

\* Settings change between two runs of the process.
LEMMA SpoilKeeps ==
  ASSUME Typed, SettingsInv, Spoil
  PROVE  Typed' /\ SettingsInv'
<1>1. /\ phase = "down" /\ phase' = "down" /\ faults' = faults + 1 /\ faults < MaxFaults
      /\ \A f \in Fields : told[f] = 0
      /\ unusable' \in Spoils
      /\ UNCHANGED <<mix, stored, cache, thread, tokens, failures, salted, ended, turnedBack, scene,
                     batch, version, item, postStatus, late, told>>
  BY DEF Spoil, Fault, itemVars
<1>2. faults' \in 0..MaxFaults
  BY <1>1, SettingsAssumption DEF SettingsAssumption, Typed, TypeOK, SettingsTypeOK
<1>3. unusable' \subseteq Fields
  BY <1>1, StartUpAssumption DEF StartUpAssumption
<1>4. Typed'
  <2>1. TypeOK'
    BY <1>1, <1>2, <1>3 DEF Typed, TypeOK, SettingsTypeOK
  <2> QED
    BY <1>1, <2>1 DEF Typed, Carries
<1>5. WriteInv'
  BY <1>1 DEF SettingsInv, WriteInv, Merges, Loaded, Settled
<1>6. KeysInv'
  BY <1>1 DEF SettingsInv, KeysInv
<1>7. EpochInv'
  BY <1>1 DEF SettingsInv, EpochInv, Dead, Loaded, PagesAreNew
<1>8. ToldInv'
  BY <1>1 DEF ToldInv, Typed, TypeOK
<1> QED
  BY <1>4, <1>5, <1>6, <1>7, <1>8 DEF SettingsInv

\* While the process isn't up, there are no requests but the pages browsers show.
LEMMA NoRequests ==
  ASSUME Typed, phase # "up"
  PROVE  \A t \in Threads : thread[t].at \in {"idle", "shown"} /\ thread[t].op \in {"none", "page"}
  BY DEF Typed, Carries, NoRequest

LEMMA ReadKeeps ==
  ASSUME Typed, SettingsInv, Read
  PROVE  Typed' /\ SettingsInv'
<1>1. /\ cache' = Usable(stored) /\ phase = "read"
      /\ phase' = IF unusable = {} THEN "normalize" ELSE "repair"
      /\ turnedBack' = (turnedBack \/ "epoch" \in unusable)
      /\ UNCHANGED <<mix, stored, unusable, thread, tokens, failures, salted, ended, faults, scene,
                     batch, version, item, postStatus, late, told>>
  BY DEF Read, itemVars, rows
<1>2. /\ Usable(stored) \in Setting /\ Valid(Usable(stored))
      /\ unusable = {} => Usable(stored) = stored
      /\ Usable(stored).hash \in {stored.hash, 0}
      /\ "epoch" \notin unusable => Usable(stored).epoch = stored.epoch
  BY UsableSetting DEF Typed, TypeOK, SettingsTypeOK
<1>3. \A t \in Threads : thread[t].at \in {"idle", "shown"} /\ thread[t].op \in {"none", "page"}
  BY <1>1, NoRequests
<1>4. Typed'
  <2>1. turnedBack' \in BOOLEAN
    BY <1>1 DEF Typed, TypeOK, SettingsTypeOK
  <2>2. TypeOK'
    BY <1>1, <1>2, <2>1 DEF Typed, TypeOK, SettingsTypeOK
  <2> QED
    BY <1>1, <2>2 DEF Typed, Carries
<1>5. WriteInv'
  <2>1. Usable(stored)' = Usable(stored)
    BY <1>1 DEF Usable
  <2> QED
    BY <1>1, <1>2, <1>3, <2>1 DEF WriteInv, Loaded, Settled, Locked
<1>6. KeysInv'
  <2>1. cache'.hash <= salted'
    BY <1>1, <1>2 DEF SettingsInv, KeysInv, Typed, TypeOK, SettingsTypeOK
  <2> QED
    BY <1>1, <1>3, <2>1 DEF SettingsInv, KeysInv
<1>7. EpochInv'
  <2>1. SUFFICES ASSUME ~turnedBack'
                 PROVE  EpochInv'
    BY DEF EpochInv
  <2>2. ~turnedBack /\ cache'.epoch = stored.epoch
    BY <1>1, <1>2, <2>1
  <2>3. ASSUME NEW key, Dead(key, stored)
        PROVE  Dead(key, cache')
    BY <1>1, <1>2, <2>2, <2>3 DEF Dead
  <2>4. \A key \in ended : Dead(key, stored) /\ Dead(key, cache')
    BY <2>2, <2>3 DEF SettingsInv, EpochInv
  <2>5. \A key \in tokens : key.epoch <= stored.epoch
    BY <2>2 DEF SettingsInv, EpochInv
  <2> QED
    BY <1>1, <1>3, <2>2, <2>4, <2>5 DEF EpochInv, Dead, PagesAreNew, Locked
<1>8. ToldInv'
  BY <1>1 DEF SettingsInv, ToldInv
<1> QED
  BY <1>4, <1>5, <1>6, <1>7, <1>8 DEF SettingsInv

\* _save_reset stores what the cache already is.
LEMMA SaveResetKeeps ==
  ASSUME Typed, SettingsInv, phase = "repair", Repaired,
         told' = [f \in Fields |-> IF f \in unusable THEN told[f] + 1 ELSE told[f]],
         phase' = "normalize",
         UNCHANGED <<mix, cache, thread, tokens, failures, salted, ended, turnedBack, faults, scene,
                     itemVars>>
  PROVE  Typed' /\ SettingsInv'
<1>1. stored' = Usable(stored) /\ cache = Usable(stored) /\ unusable' = {}
  BY DEF Repaired, SettingsInv, WriteInv
<1>2. cache \in Setting /\ Valid(cache)
  BY DEF Typed, TypeOK, SettingsTypeOK
<1>3. \A t \in Threads : thread[t].at \in {"idle", "shown"} /\ thread[t].op \in {"none", "page"}
  BY NoRequests
<1>4. Typed'
  <2>1. told' \in [Fields -> Nat]
    BY DEF Typed, TypeOK
  <2>2. TypeOK'
    BY <1>1, <1>2, <2>1 DEF Typed, TypeOK, SettingsTypeOK, itemVars
  <2> QED
    BY <2>2 DEF Typed, Carries
<1>5. WriteInv'
  BY <1>1, <1>3 DEF WriteInv, Loaded, Settled, Locked
<1>6. KeysInv'
  <2>1. stored'.hash <= salted'
    BY <1>1 DEF SettingsInv, KeysInv
  <2> QED
    BY <1>1, <1>3, <2>1 DEF SettingsInv, KeysInv
<1>7. EpochInv'
  <2>1. stored' = cache /\ Loaded /\ cache' = cache
    BY <1>1 DEF Loaded
  <2> QED
    BY <1>3, <2>1 DEF SettingsInv, EpochInv, Dead, PagesAreNew, Locked
<1>8. ToldInv'
  <2>1. told \in [Fields -> Nat] /\ \A f \in Fields : told[f] <= 1 /\ (told[f] # 0 => f \notin unusable)
    BY DEF SettingsInv, ToldInv, Typed, TypeOK
  <2>2. \A f \in Fields : told'[f] <= 1
    BY <2>1
  <2> QED
    BY <1>1, <2>2 DEF ToldInv
<1> QED
  BY <1>4, <1>5, <1>6, <1>7, <1>8 DEF SettingsInv

LEMMA NormalizeKeeps ==
  ASSUME Typed, SettingsInv, phase = "normalize",
         cache' = IF cache.rules = "dead" THEN [cache EXCEPT !.rules = "current"] ELSE cache,
         stored' = IF cache.rules = "dead" THEN [stored EXCEPT !.rules = "current"] ELSE stored,
         phase' = "reconcile",
         UNCHANGED <<mix, unusable, thread, tokens, failures, salted, ended, turnedBack, faults, scene,
                     itemVars, told>>
  PROVE  Typed' /\ SettingsInv'
<1>1. \A t \in Threads : thread[t].at \in {"idle", "shown"} /\ thread[t].op \in {"none", "page"}
  BY NoRequests
<1>2. cache = stored /\ cache' = stored' /\ unusable = {}
  BY <1>1 DEF SettingsInv, WriteInv, Settled
<1>3. /\ cache' \in Setting /\ Valid(cache')
      /\ cache'.hash = cache.hash /\ cache'.epoch = cache.epoch
  <2>1. cache \in Setting /\ Valid(cache)
    BY DEF Typed, TypeOK, SettingsTypeOK
  <2> QED
    BY <2>1 DEF Setting, Valid
<1>4. Typed'
  <2>1. TypeOK'
    BY <1>2, <1>3 DEF Typed, TypeOK, SettingsTypeOK, itemVars
  <2> QED
    BY <2>1 DEF Typed, Carries
<1>5. WriteInv'
  BY <1>1, <1>2 DEF WriteInv, Loaded, Settled, Locked
<1>6. KeysInv'
  BY <1>1, <1>2, <1>3 DEF SettingsInv, KeysInv
<1>7. EpochInv'
  BY <1>1, <1>2, <1>3 DEF SettingsInv, EpochInv, Dead, Loaded, PagesAreNew, Locked
<1>8. ToldInv'
  BY DEF SettingsInv, ToldInv
<1> QED
  BY <1>4, <1>5, <1>6, <1>7, <1>8 DEF SettingsInv

-------------------------------------------------------------------------------
(***************************************************************************)
(* The rows.                                                               *)
(***************************************************************************)
LEMMA DerivedIsStatus ==
  ASSUME NEW i
  PROVE  Derived(i) \in PostStatuses
  BY DEF Derived, DerivePostStatus, PostStatuses

LEMMA DerivedPending ==
  ASSUME NEW i \in Item, i.row.wanted, i.row.status \in ActiveStatuses
  PROVE  Derived(i) = "pending"
<1> DEFINE statuses == {r.status : r \in {j \in {i.row} : j.wanted /\ j.status \notin Stopped}}
<1>1. i.row.status \notin Stopped
  BY DEF Stopped, ActiveStatuses
<1>2. i.row.status \in statuses
  BY <1>1
<1>3. /\ statuses # {} /\ statuses \cap ActiveStatuses # {}
      /\ statuses # {"completed"} /\ statuses # {"unsupported"}
  BY <1>2 DEF ActiveStatuses
<1>4. Derived(i) = DerivePostStatus(TRUE, {i.row})
  BY DEF Derived
<1>5. DerivePostStatus(TRUE, {i.row}) =
        CASE statuses = {} -> IF \E r \in {i.row} : r.status = "cancelled" \/ UserSkipped(r)
                              THEN "skipped" ELSE "no_media"
          [] statuses \cap ActiveStatuses # {} -> "pending"
          [] statuses = {"completed"} -> "completed"
          [] statuses = {"unsupported"} -> "unsupported"
          [] OTHER -> "partial"
  BY DEF DerivePostStatus
<1> HIDE DEF statuses
<1> QED
  BY <1>3, <1>4, <1>5

LEMMA ByTheRulesRuled ==
  ASSUME NEW i \in Item
  PROVE  ByTheRules(i) \in Item /\ (Undone(i) => Ruled(ByTheRules(i)) /\ Undone(ByTheRules(i)))
<1> DEFINE k == ByTheRules(i)
<1>1. /\ i.row \in Row /\ i.drm \in BOOLEAN /\ i.cover \in {"none", "embedded", "left out", "whole"}
  BY DEF Item
<1>2. k \in Item
  BY <1>1 DEF ByTheRules, Item, Row, Statuses, Finished, Stopped, AwaitingLinks, ActiveStatuses
<1>3. /\ k.drm = i.drm /\ k.row.wanted = i.row.wanted
      /\ k.row.status = IF i.row.status = "failed_permanent" /\ i.drm THEN "unsupported" ELSE i.row.status
      /\ k.cover = IF i.row.status = "completed" /\ i.cover = "embedded" THEN "left out" ELSE i.cover
      /\ k.row.job = IF (~i.row.wanted \/ i.row.status \in {"skipped", "excluded"}) /\ i.row.job = "queued"
                     THEN "none" ELSE i.row.job
  BY <1>1 DEF ByTheRules, Item, Row
<1> HIDE DEF k
<1>4. Undone(i) => Ruled(k) /\ Undone(k)
  BY <1>3 DEF Undone, Ruled, ActiveStatuses
<1> QED
  BY <1>2, <1>4 DEF k

\* The parts of a changed item decide whether it is one the rules allow.
LEMMA RowParts ==
  ASSUME NEW i \in Item, NEW row \in Row
  PROVE  /\ [i EXCEPT !.row = row] \in Item /\ [i EXCEPT !.row = row].row = row
         /\ [i EXCEPT !.row = row].drm = i.drm /\ [i EXCEPT !.row = row].cover = i.cover
  BY DEF Item

LEMMA UserKeeps ==
  ASSUME NEW r \in Row, NEW k \in {Skip(r), UnskipItem(r), Retry(r)}
  PROVE  /\ k \in Row
         /\ k.status \in {"failed_permanent", "completed"} => k.status = r.status
         /\ (r.job = "queued" => r.status \in ActiveStatuses \cup {"skipped", "excluded"})
              => (k.job = "queued" => k.status \in ActiveStatuses \cup {"skipped", "excluded"})
         /\ (r.job = "queued" => r.wanted /\ r.status \in ActiveStatuses)
              => (k.job = "queued" => k.wanted /\ k.status \in ActiveStatuses)
<1>1. r.status \in Statuses /\ r.wanted \in BOOLEAN /\ r.attempts \in 0..MaxAttempts
      /\ r.job \in {"none", "queued", "running"}
  BY DEF Row
<1>2. CASE k = Skip(r)
  <2>1. k \in Row
    BY <1>1, <1>2 DEF Skip, DropQueuedJob, Row, Statuses, Stopped
  <2>2. \/ r.status = "completed" /\ k = r
        \/ k.status = "skipped" /\ k.job # "queued"
    BY <1>1, <1>2 DEF Skip, DropQueuedJob, Row
  <2> QED
    BY <2>1, <2>2 DEF ActiveStatuses
<1>3. CASE k = UnskipItem(r)
  <2>1. k \in Row
    BY <1>1, <1>3 DEF UnskipItem, Discover, Row, Statuses, ActiveStatuses
  <2>2. /\ k.wanted /\ k.job = r.job
        /\ k.status = IF r.status \in Stopped THEN "discovered" ELSE r.status
    BY <1>1, <1>3 DEF UnskipItem, Discover, Row
  <2> QED
    BY <2>1, <2>2 DEF ActiveStatuses, Stopped
<1>4. CASE k = Retry(r)
  <2> DEFINE w == [r EXCEPT !.wanted = TRUE]
  <2>0. w \in Row /\ w.wanted /\ w.job = r.job /\ w.status = r.status /\ k = Requeue(w, TRUE)
    BY <1>1, <1>4 DEF Retry, Row
  <2> HIDE DEF w
  <2>1. k \in Row
    <3>1. 0 \in 0..MaxAttempts
      BY MaxAttemptsAssumption DEF MaxAttemptsAssumption
    <3> QED
      BY <2>0, <3>1 DEF Requeue, AddJob, Row, Statuses, AwaitingLinks
  <2>2. \/ k = w /\ (w.job # "none" \/ w.status \in {"no_access", "downloading"})
        \/ k.status = "queued" /\ k.wanted
    BY <2>0 DEF Requeue, AddJob, Row
  <2> QED
    BY <2>0, <2>1, <2>2 DEF ActiveStatuses
<1> QED
  BY <1>2, <1>3, <1>4

LEMMA OutcomeKeeps ==
  ASSUME NEW r \in Row, NEW outcome \in {"completed", "permanent", "cancelled"},
         NEW k, k = RecordOutcome(r, outcome)
  PROVE  k \in Row /\ k.job = "none"
<1>1. r.status \in Statuses /\ r.wanted \in BOOLEAN /\ r.attempts \in 0..MaxAttempts
  BY DEF Row
<1>2. CASE outcome = "completed"
  BY <1>2 DEF RecordOutcome, Completed, Row, Statuses, Finished
<1>3. CASE outcome = "cancelled"
  BY <1>3 DEF RecordOutcome, Cancelled, Row, Statuses, Stopped
<1>4. CASE outcome = "permanent"
  <2>1. CountAttempt(r.attempts, "permanent") \in 0..MaxAttempts
    BY <1>1, MaxAttemptsAssumption DEF CountAttempt, MaxAttemptsAssumption
  <2>2. FailureStatus(CountAttempt(r.attempts, "permanent"), "permanent") \in Statuses
    BY DEF FailureStatus, Statuses, AwaitingLinks
  <2>3. k = Failed(r, "permanent")
    BY <1>4 DEF RecordOutcome
  <2> QED
    BY <2>1, <2>2, <2>3 DEF Failed, Row
<1> QED
  BY <1>2, <1>3, <1>4

\* A session of the lifecycle leaves the rules' items by the rules, and a post's
\* status what its items make it.
LEMMA ChangeKeeps ==
  ASSUME Typed, RowsInv, NEW p \in Ids, NEW changed \in Item, ChangeItem(p, changed),
         \/ late' = late \cup {p}
         \/ /\ late' = late
            /\ p \notin late /\ Undone(item[p]) => Undone(changed)
            /\ p \notin late /\ Ruled(item[p]) => Ruled(changed)
  PROVE  ItemsTyped' /\ RowsInv'
<1>1. /\ item' = [item EXCEPT ![p] = changed]
      /\ postStatus' = [postStatus EXCEPT ![p] = Derived(changed)]
      /\ phase = "up" /\ UNCHANGED <<phase, batch, version>>
  BY DEF ChangeItem, Up
<1>2. item \in [Ids -> Item] /\ postStatus \in [Ids -> PostStatuses] /\ late \subseteq Ids
      /\ batch \in 1..(Posts + Batch) /\ version \in 0..RulesVersion
  BY DEF Typed, TypeOK
<1>3. Derived(changed) \in PostStatuses
  BY DerivedIsStatus
<1>4. ItemsTyped'
  BY <1>1, <1>2, <1>3 DEF ItemsTyped
<1>5. ASSUME NEW q \in Ids \ late'
      PROVE  /\ Undone(item'[q])
             /\ version = RulesVersion => Ruled(item'[q]) /\ postStatus'[q] = Derived(item'[q])
  <2>1. CASE q = p
    <3>1. item'[q] = changed /\ postStatus'[q] = Derived(changed)
      BY <1>1, <1>2, <2>1
    <3>2. late' = late /\ p \notin late /\ Undone(item[p]) /\ (version = RulesVersion => Ruled(item[p]))
      BY <1>5, <2>1 DEF RowsInv
    <3> QED
      BY <3>1, <3>2
  <2>2. CASE q # p
    <3>1. item'[q] = item[q] /\ postStatus'[q] = postStatus[q] /\ q \notin late
      BY <1>1, <1>2, <1>5, <2>2
    <3> QED
      BY <3>1 DEF RowsInv
  <2> QED
    BY <2>1, <2>2
<1> QED
  BY <1>1, <1>4, <1>5 DEF RowsInv, Derived

\* Each step on an item.
LEMMA ItemStepsKeep ==
  ASSUME Typed, RowsInv, NEW p \in Ids,
         \/ UserActs(p) \/ Download(p) \/ FileCheck(p) \/ EmbedCover(p)
         \/ \E outcome \in {"completed", "permanent", "cancelled"} : Finish(p, outcome)
  PROVE  /\ ItemsTyped' /\ RowsInv' /\ phase = "up"
         /\ UNCHANGED <<settingsVars, scene, phase, told>>
<1>1. item \in [Ids -> Item] /\ item[p] \in Item /\ item[p].row \in Row /\ late \subseteq Ids
      /\ item[p].drm \in BOOLEAN /\ item[p].cover \in {"none", "embedded", "left out", "whole"}
  <2>1. item \in [Ids -> Item] /\ item[p] \in Item /\ late \subseteq Ids
    BY DEF Typed, TypeOK
  <2> QED
    BY <2>1 DEF Item
<1>2. ASSUME NEW changed, ChangeItem(p, changed)
      PROVE  phase = "up" /\ UNCHANGED <<settingsVars, scene, phase, told>>
  BY <1>2 DEF ChangeItem, Up
<1>3. CASE UserActs(p)
  <2>1. PICK act \in {"skip", "unskip", "retry"} :
          ChangeItem(p, [item[p] EXCEPT !.row = CASE act = "skip" -> Skip(@)
                                                  [] act = "unskip" -> UnskipItem(@)
                                                  [] act = "retry" -> Retry(@)])
    BY <1>3 DEF UserActs
  <2> DEFINE row == CASE act = "skip" -> Skip(item[p].row)
                      [] act = "unskip" -> UnskipItem(item[p].row)
                      [] act = "retry" -> Retry(item[p].row)
             k == [item[p] EXCEPT !.row = row]
  <2>2. ChangeItem(p, k)
    BY <2>1
  <2>3. row \in {Skip(item[p].row), UnskipItem(item[p].row), Retry(item[p].row)}
    OBVIOUS
  <2> HIDE DEF row
  <2>4. row \in Row
    BY <1>1, <2>3, UserKeeps
  <2>5. k \in Item /\ k.row = row /\ k.drm = item[p].drm /\ k.cover = item[p].cover
    BY <1>1, <2>4, RowParts
  <2> HIDE DEF k
  <2>6. (Undone(item[p]) => Undone(k)) /\ (Ruled(item[p]) => Ruled(k))
    <3>1. row.status \in {"failed_permanent", "completed"} => row.status = item[p].row.status
      BY <1>1, <2>3, UserKeeps
    <3>2. Undone(item[p]) => Undone(k)
      BY <1>1, <2>3, <2>5, UserKeeps DEF Undone
    <3>3. (item[p].row.job = "queued" => item[p].row.wanted /\ item[p].row.status \in ActiveStatuses)
            => (row.job = "queued" => row.wanted /\ row.status \in ActiveStatuses)
      BY <1>1, <2>3, UserKeeps
    <3> QED
      BY <2>5, <3>1, <3>2, <3>3 DEF Ruled
  <2> QED
    BY <1>2, <1>3, <2>2, <2>5, <2>6, ChangeKeeps DEF UserActs
<1>4. CASE Download(p)
  <2> DEFINE row == Started(item[p].row)
             k == [item[p] EXCEPT !.row = row]
  <2>1. /\ item' = [item EXCEPT ![p] = k] /\ item[p].row.job = "queued" /\ phase = "up"
        /\ UNCHANGED <<settingsVars, scene, phase, batch, version, postStatus, late, told>>
    BY <1>1, <1>4 DEF Download, Up
  <2>2. row \in Row /\ row.status = "downloading" /\ row.job = "running" /\ row.wanted = item[p].row.wanted
    BY <1>1 DEF Started, Row, Statuses, ActiveStatuses
  <2> HIDE DEF row
  <2>3. k \in Item /\ k.row = row /\ k.drm = item[p].drm /\ k.cover = item[p].cover
    BY <1>1, <2>2, RowParts
  <2> HIDE DEF k
  <2>4. Undone(k) /\ Ruled(k)
    BY <2>2, <2>3 DEF Undone, Ruled
  <2>5. Ruled(item[p]) => Derived(item[p]) = "pending" /\ Derived(k) = "pending"
    <3>1. Ruled(item[p]) => item[p].row.wanted /\ item[p].row.status \in ActiveStatuses
      BY <2>1 DEF Ruled
    <3>2. k.row.status \in ActiveStatuses
      BY <2>2, <2>3 DEF ActiveStatuses
    <3> QED
      BY <1>1, <2>2, <2>3, <3>1, <3>2, DerivedPending
  <2>6. ItemsTyped'
    BY <1>1, <2>1, <2>3 DEF Typed, TypeOK, ItemsTyped
  <2>7. ASSUME NEW q \in Ids \ late
        PROVE  /\ Undone(item'[q])
               /\ version = RulesVersion => Ruled(item'[q]) /\ postStatus[q] = Derived(item'[q])
    <3>1. CASE q = p
      <4>1. item'[q] = k
        BY <1>1, <2>1, <3>1
      <4>2. version = RulesVersion => Ruled(item[p]) /\ postStatus[p] = Derived(item[p])
        BY <2>7, <3>1 DEF RowsInv
      <4> QED
        BY <2>4, <2>5, <3>1, <4>1, <4>2
    <3>2. CASE q # p
      <4>1. item'[q] = item[q]
        BY <1>1, <2>1, <2>7, <3>2
      <4> QED
        BY <2>7, <4>1 DEF RowsInv
    <3> QED
      BY <3>1, <3>2
  <2> QED
    BY <2>1, <2>6, <2>7 DEF RowsInv, Derived
<1>5. CASE FileCheck(p)
  <2>1. CASE /\ item[p].row.status = "completed"
             /\ ChangeItem(p, [item[p] EXCEPT !.row = FileMissing(@, FALSE)])
             /\ late' = late
    <3> DEFINE row == FileMissing(item[p].row, FALSE)
               k == [item[p] EXCEPT !.row = row]
    <3>1. row \in Row /\ row.status = "missing" /\ row.job = item[p].row.job
      BY <1>1 DEF FileMissing, Row, Statuses, AwaitingLinks
    <3> HIDE DEF row
    <3>2. k \in Item /\ k.row = row
      BY <1>1, <3>1, RowParts
    <3>3. ChangeItem(p, k)
      BY <2>1 DEF row
    <3> HIDE DEF k
    <3>4. (Undone(item[p]) => Undone(k)) /\ (Ruled(item[p]) => Ruled(k))
      BY <2>1, <3>1, <3>2 DEF Undone, Ruled, ActiveStatuses
    <3> QED
      BY <1>2, <2>1, <3>2, <3>3, <3>4, ChangeKeeps
  <2>2. CASE /\ item[p].row.status = "missing"
             /\ ChangeItem(p, [item[p] EXCEPT !.row = FileFound(@)])
             /\ late' = late \cup {p}
    <3> DEFINE row == FileFound(item[p].row)
               k == [item[p] EXCEPT !.row = row]
    <3>1. row \in Row
      BY <1>1 DEF FileFound, Row, Statuses, Finished
    <3> HIDE DEF row
    <3>2. k \in Item
      BY <1>1, <3>1, RowParts
    <3>3. ChangeItem(p, k)
      BY <2>2 DEF row
    <3> HIDE DEF k
    <3> QED
      BY <1>2, <2>2, <3>2, <3>3, ChangeKeeps
  <2> QED
    BY <1>5, <2>1, <2>2 DEF FileCheck
<1>6. CASE EmbedCover(p)
  <2> DEFINE k == [item[p] EXCEPT !.cover = "whole"]
  <2>1. ChangeItem(p, k) /\ late' = late
    BY <1>6 DEF EmbedCover
  <2>2. k \in Item /\ k.row = item[p].row /\ k.drm = item[p].drm /\ k.cover = "whole"
    BY <1>1 DEF Item
  <2> HIDE DEF k
  <2>3. (Undone(item[p]) => Undone(k)) /\ (Ruled(item[p]) => Ruled(k))
    BY <2>2 DEF Undone, Ruled
  <2> QED
    BY <1>2, <2>1, <2>2, <2>3, ChangeKeeps
<1>7. ASSUME NEW outcome \in {"completed", "permanent", "cancelled"}, Finish(p, outcome)
      PROVE  /\ ItemsTyped' /\ RowsInv' /\ phase = "up"
             /\ UNCHANGED <<settingsVars, scene, phase, told>>
  <2> DEFINE row == RecordOutcome(item[p].row, outcome)
             k == [row |-> row, drm |-> FALSE,
                   cover |-> IF item[p].cover = "none" THEN "none" ELSE "whole"]
  <2>1. ChangeItem(p, k) /\ late' = late
    BY <1>7 DEF Finish
  <2>2. row \in Row /\ row.job = "none"
    BY <1>1, <1>7, OutcomeKeeps
  <2> HIDE DEF row
  <2>3. k \in Item /\ k.row = row /\ k.drm = FALSE /\ k.cover # "embedded"
    BY <2>2 DEF Item
  <2> HIDE DEF k
  <2>4. Undone(k) /\ Ruled(k)
    BY <2>2, <2>3 DEF Undone, Ruled
  <2> QED
    BY <1>2, <2>1, <2>3, <2>4, ChangeKeeps
<1> QED
  BY <1>3, <1>4, <1>5, <1>6, <1>7

\* Rows that a step leaves alone, outside the batches.
LEMMA RowsStay ==
  ASSUME Typed, RowsInv, UNCHANGED itemVars, phase' # "batches"
  PROVE  ItemsTyped' /\ RowsInv'
<1>1. ItemsTyped'
  BY DEF Typed, TypeOK, ItemsTyped, itemVars
<1>2. RowsInv'
  BY DEF RowsInv, itemVars, Derived
<1> QED
  BY <1>1, <1>2

\* reconcile's first session makes the items fit the rules.
LEMMA ReconcileItemsKeeps ==
  ASSUME Typed, RowsInv, ReconcileItems
  PROVE  /\ ItemsTyped' /\ RowsInv' /\ faults' \in 0..MaxFaults
         /\ phase \in Settled \ {"up"} /\ phase' \in Settled
<1>1. /\ phase = "reconcile" /\ batch' = 1
      /\ UNCHANGED <<version, postStatus, late>>
      /\ \/ version >= RulesVersion /\ phase' = "recover" /\ UNCHANGED <<item, faults>>
         \/ /\ version < RulesVersion
            /\ item' = [p \in Ids |-> ByTheRules(item[p])] /\ phase' = "batches" /\ faults' = faults
         \/ /\ faults < MaxFaults /\ faults' = faults + 1 /\ phase' = "recover" /\ item' = item
  <2>1. version \in Nat /\ RulesVersion \in Nat
    BY StartUpAssumption DEF StartUpAssumption, Typed, TypeOK
  <2> QED
    BY <2>1 DEF ReconcileItems, Fault
<1>2. /\ item \in [Ids -> Item] /\ postStatus \in [Ids -> PostStatuses] /\ late \subseteq Ids
      /\ version \in 0..RulesVersion /\ faults \in 0..MaxFaults
  BY DEF Typed, TypeOK, SettingsTypeOK
<1>3. faults' \in 0..MaxFaults
  BY <1>1, <1>2, SettingsAssumption DEF SettingsAssumption
<1>4. 1 \in 1..(Posts + Batch)
  BY StartUpAssumption DEF StartUpAssumption
<1>5. phase \in Settled \ {"up"} /\ phase' \in Settled
  BY <1>1 DEF Settled
<1>6. CASE item' = item /\ phase' = "recover"
  BY <1>1, <1>2, <1>3, <1>4, <1>5, <1>6 DEF ItemsTyped, RowsInv, Derived
<1>7. CASE version < RulesVersion /\ item' = [p \in Ids |-> ByTheRules(item[p])] /\ phase' = "batches"
  <2>1. ItemsTyped'
    BY <1>1, <1>2, <1>4, <1>7, ByTheRulesRuled DEF ItemsTyped
  <2>2. ASSUME NEW p \in Ids \ late
        PROVE  Undone(item'[p]) /\ Ruled(item'[p])
    <3>1. item'[p] = ByTheRules(item[p]) /\ Undone(item[p]) /\ item[p] \in Item
      BY <1>2, <1>7, <2>2 DEF RowsInv
    <3> QED
      BY <3>1, ByTheRulesRuled
  <2>3. version # RulesVersion
    BY <1>2, <1>7, StartUpAssumption DEF StartUpAssumption
  <2>4. \A p \in Ids : ~(p < 1)
    BY StartUpAssumption DEF StartUpAssumption, Ids
  <2>5. RowsInv'
    BY <1>1, <2>2, <2>3, <2>4 DEF RowsInv
  <2> QED
    BY <1>3, <1>5, <2>1, <2>5
<1> QED
  BY <1>1, <1>6, <1>7

\* A batch derives the statuses of its posts; the version comes after the last.
LEMMA ReconcileBatchKeeps ==
  ASSUME Typed, RowsInv, ReconcileBatch
  PROVE  /\ ItemsTyped' /\ RowsInv' /\ faults' \in 0..MaxFaults
         /\ phase \in Settled \ {"up"} /\ phase' \in Settled
<1>1. /\ item \in [Ids -> Item] /\ postStatus \in [Ids -> PostStatuses] /\ late \subseteq Ids
      /\ version \in 0..RulesVersion /\ faults \in 0..MaxFaults /\ batch \in 1..(Posts + Batch)
  BY DEF Typed, TypeOK, SettingsTypeOK
<1>2. Posts \in Nat /\ Batch \in Nat \ {0} /\ RulesVersion \in Nat \ {0} /\ MaxFaults \in Nat
  BY StartUpAssumption, SettingsAssumption DEF StartUpAssumption, SettingsAssumption
<1>3. phase = "batches" /\ UNCHANGED <<item, late>>
  BY DEF ReconcileBatch
<1>4. \A p \in Ids \ late : Undone(item[p]) /\ Ruled(item[p]) /\ (p < batch => postStatus[p] = Derived(item[p]))
  BY <1>3 DEF RowsInv
<1>5. CASE /\ batch <= Posts
           /\ postStatus' = [p \in Ids |-> IF InBatch(p) THEN Derived(item[p]) ELSE postStatus[p]]
           /\ batch' = batch + Batch
           /\ UNCHANGED <<version, phase, faults>>
  <2>1. batch' \in 1..(Posts + Batch)
    BY <1>1, <1>2, <1>5
  <2>2. postStatus' \in [Ids -> PostStatuses]
    BY <1>1, <1>5, DerivedIsStatus
  <2>3. ItemsTyped'
    BY <1>1, <1>3, <1>5, <2>1, <2>2 DEF ItemsTyped
  <2>4. ASSUME NEW p \in Ids \ late, version = RulesVersion \/ p < batch'
        PROVE  postStatus'[p] = Derived(item[p])
    <3>1. CASE InBatch(p)
      BY <1>5, <2>4, <3>1
    <3>2. CASE ~InBatch(p)
      <4>1. version = RulesVersion \/ p < batch
        BY <1>1, <1>2, <1>5, <2>4, <3>2 DEF InBatch, Ids
      <4>2. postStatus[p] = Derived(item[p])
        BY <1>3, <4>1 DEF RowsInv
      <4> QED
        BY <1>5, <3>2, <4>2
    <3> QED
      BY <3>1, <3>2
  <2>5. RowsInv'
    BY <1>3, <1>4, <1>5, <2>4 DEF RowsInv, Derived
  <2> QED
    BY <1>1, <1>3, <1>5, <2>3, <2>5 DEF Settled
<1>6. CASE /\ batch > Posts /\ version' = RulesVersion /\ phase' = "recover"
           /\ UNCHANGED <<batch, postStatus, faults>>
  <2>1. ItemsTyped'
    BY <1>1, <1>2, <1>3, <1>6 DEF ItemsTyped
  <2>2. \A p \in Ids : p < batch
    BY <1>1, <1>2, <1>6 DEF Ids
  <2>3. RowsInv'
    BY <1>3, <1>4, <1>6, <2>2 DEF RowsInv, Derived
  <2> QED
    BY <1>1, <1>3, <1>6, <2>1, <2>3 DEF Settled
<1>7. CASE Fault("recover") /\ UNCHANGED <<version, batch, postStatus>>
  <2>1. faults' \in 0..MaxFaults /\ phase' = "recover"
    BY <1>1, <1>2, <1>7 DEF Fault
  <2>2. itemVars' = itemVars
    BY <1>3, <1>7 DEF itemVars
  <2>3. ItemsTyped' /\ RowsInv'
    BY <2>1, <2>2, RowsStay
  <2> QED
    BY <1>3, <2>1, <2>3 DEF Settled
<1> QED
  BY <1>5, <1>6, <1>7 DEF ReconcileBatch

\* recover_interrupted touches the downloads that were running, and no others.
LEMMA RecoverKeepsRows ==
  ASSUME Typed, RowsInv, phase = "recover",
         item' = [p \in Ids |-> [item[p] EXCEPT !.row = Recover(@)]],
         late' = late \cup {p \in Ids : item[p].row.job = "running"},
         phase' = "up",
         UNCHANGED <<settingsVars, scene, batch, version, postStatus, told>>
  PROVE  ItemsTyped' /\ RowsInv'
<1>1. item \in [Ids -> Item] /\ late \subseteq Ids
  BY DEF Typed, TypeOK
<1>2. ASSUME NEW p \in Ids
      PROVE  item'[p] \in Item /\ (item[p].row.job # "running" => item'[p] = item[p])
  <2>1. item[p] \in Item /\ item[p].row \in Row
    BY <1>1 DEF Item
  <2>2. Recover(item[p].row) \in Row
    BY <2>1 DEF Recover, Row, Statuses, AwaitingLinks
  <2>3. [item[p] EXCEPT !.row = Recover(item[p].row)] \in Item
    BY <2>1, <2>2, RowParts
  <2>4. item[p].row.job # "running" => Recover(item[p].row) = item[p].row
    BY DEF Recover
  <2>5. [item[p] EXCEPT !.row = item[p].row] = item[p]
    BY <2>1 DEF Item
  <2> QED
    BY <2>3, <2>4, <2>5
<1>3. item' \in [Ids -> Item]
  BY <1>2
<1>4. ItemsTyped'
  BY <1>1, <1>3 DEF Typed, TypeOK, ItemsTyped
<1>5. RowsInv'
  BY <1>2 DEF RowsInv, Derived
<1> QED
  BY <1>4, <1>5

-------------------------------------------------------------------------------
(***************************************************************************)
(* The invariant.                                                          *)
(***************************************************************************)
LEMMA InitIInv == Init => IInv
<1> SUFFICES ASSUME Init PROVE IInv
  OBVIOUS
<1>0. /\ thread = [t \in Threads |-> NoRequest] /\ phase = "down" /\ batch = 1 /\ late = {}
      /\ cache = Default /\ tokens = {} /\ ended = {} /\ failures = 0 /\ salted = 0 /\ faults = 0
      /\ turnedBack = FALSE /\ told = [f \in Fields |-> 0]
      /\ mix \in Mixes \cup {{}} /\ unusable \subseteq Fields
      /\ stored \in [hash : {0}, on : {FALSE}, epoch : {0}, done : {FALSE},
                     secret : {"", "cookie"}, rules : {"current", "dead"}]
  BY DEF Init, SettingsInit
<1>1. /\ 0 \in 0..MaxEpoch /\ 0 \in 0..MaxPasswords /\ 0 \in 0..MaxFailures /\ 0 \in 0..MaxFaults
      /\ 1 \in 1..(Posts + Batch) /\ RulesVersion \in 0..RulesVersion
      /\ RulesVersion - 1 \in 0..RulesVersion /\ RulesVersion - 1 # RulesVersion
  BY SettingsAssumption, StartUpAssumption DEF SettingsAssumption, StartUpAssumption
<1>2. stored \in Setting /\ Valid(stored) /\ stored.hash = 0
  BY <1>0, <1>1 DEF Setting, Valid
<1>3. /\ NoRequest.at = "idle" /\ NoRequest.op = "none" /\ NoRequest.before = {}
      /\ NoRequest \in RequestType /\ Carries(NoRequest)
  BY NoRequestType DEF NoRequest
<1>4. /\ scene \in {"upgrade", "repair", "requests"} /\ version \in 0..RulesVersion
      /\ item \in [Ids -> Item] /\ postStatus \in [Ids -> PostStatuses]
      /\ RowsInv
  <2>1. CASE /\ scene = "upgrade" /\ version = RulesVersion - 1
             /\ item \in [Ids -> OldItems]
             /\ postStatus \in [Ids -> OldStatuses]
    <3>1. OldItems \subseteq Item /\ \A i \in OldItems : Undone(i)
      BY StartUpAssumption DEF StartUpAssumption, Undone
    <3>2. postStatus \in [Ids -> PostStatuses]
      BY <2>1, StartUpAssumption DEF StartUpAssumption
    <3>3. RowsInv
      BY <1>0, <1>1, <2>1, <3>1 DEF RowsInv
    <3> QED
      BY <1>1, <2>1, <3>1, <3>2, <3>3
  <2>2. CASE /\ scene \in {"repair", "requests"} /\ version = RulesVersion
             /\ item = [p \in Ids |-> [row |-> Skip(NewRow), drm |-> FALSE, cover |-> "none"]]
             /\ postStatus = [p \in Ids |-> Derived(item[p])]
    <3> DEFINE row == Skip(NewRow)
               i == [row |-> row, drm |-> FALSE, cover |-> "none"]
    <3>1. NewRow \in Row
      BY MaxAttemptsAssumption DEF MaxAttemptsAssumption, NewRow, Row, Statuses, ActiveStatuses
    <3>2. row \in Row /\ row.job # "queued"
      <4>1. row \in Row
        BY <3>1, UserKeeps
      <4>2. NewRow.job = "none"
        BY DEF NewRow
      <4>3. row.job # "queued"
        BY <3>1, <4>2 DEF Skip, DropQueuedJob, Row
      <4> QED
        BY <4>1, <4>3
    <3> HIDE DEF row
    <3>3. i \in Item /\ Undone(i) /\ Ruled(i)
      BY <3>2 DEF Item, Undone, Ruled
    <3> HIDE DEF i
    <3>4. item = [p \in Ids |-> i]
      BY <2>2 DEF i, row
    <3>5. postStatus \in [Ids -> PostStatuses]
      BY <2>2, DerivedIsStatus
    <3>6. RowsInv
      BY <2>2, <3>3, <3>4 DEF RowsInv
    <3> QED
      BY <1>1, <2>2, <3>3, <3>4, <3>5, <3>6
  <2> QED
    BY <2>1, <2>2 DEF Init
<1>5. Typed
  <2>1. TypeOK
    BY <1>0, <1>1, <1>2, <1>3, <1>4, DefaultSetting DEF TypeOK, SettingsTypeOK, RequestType
  <2> QED
    BY <1>0, <1>3, <2>1 DEF Typed
<1>6. WriteInv
  BY <1>0, <1>3 DEF WriteInv, Loaded, Settled, Locked
<1>7. KeysInv
  <2>1. cache.hash <= salted /\ stored.hash <= salted
    <3>1. cache.hash = 0 /\ stored.hash = 0 /\ salted = 0
      BY <1>0, <1>2, DefaultSetting
    <3> QED
      BY <3>1
  <2>2. \A t \in Threads : thread[t].op = "none" /\ thread[t].before = {}
    BY <1>0, <1>3
  <2>3. tokens = {} /\ ended = {}
    BY <1>0
  <2> QED
    BY <2>1, <2>2, <2>3 DEF KeysInv
<1>8. EpochInv
  BY <1>0, <1>3 DEF EpochInv, PagesAreNew
<1>9. ToldInv
  <2>1. DOMAIN told = Fields /\ \A f \in Fields : told[f] = 0
    BY <1>0
  <2>2. \A f \in DOMAIN told : told[f] = 0
    BY <2>1
  <2>3. \A f \in DOMAIN told : told[f] <= 1
    BY <2>2
  <2> QED
    BY <2>2, <2>3 DEF ToldInv
<1> QED
  BY <1>4, <1>5, <1>6, <1>7, <1>8, <1>9 DEF IInv

LEMMA NextIInv == IInv /\ [Next]_vars => IInv'
<1> SUFFICES ASSUME IInv, [Next]_vars PROVE IInv'
  OBVIOUS
<1>0. Typed /\ SettingsInv /\ RowsInv
  BY DEF IInv, SettingsInv
<1>1. faults \in 0..MaxFaults /\ failures \in 0..MaxFailures /\ MaxFaults \in Nat /\ MaxFailures \in Nat
  BY <1>0, SettingsAssumption DEF Typed, TypeOK, SettingsTypeOK, SettingsAssumption
<1>2. SUFFICES Typed' /\ SettingsInv' /\ RowsInv'
  BY DEF IInv, SettingsInv
<1>3. ASSUME NEW next, Fault(next)
      PROVE  faults' \in 0..MaxFaults /\ phase' = next
  BY <1>1, <1>3 DEF Fault
<1>4. ASSUME Fault("down"), Forget
      PROVE  Typed' /\ SettingsInv' /\ RowsInv'
  <2>1. itemVars' = itemVars
    BY <1>4 DEF Forget
  <2> QED
    BY <1>0, <1>3, <1>4, <2>1, ForgetKeeps, RowsStay
<1>5. CASE Start
  <2>1. /\ phase = "down" /\ phase' = "read" /\ itemVars' = itemVars
        /\ UNCHANGED <<mix, stored, unusable, cache, thread, tokens, salted, ended, turnedBack, scene, told,
                       faults, failures>>
    BY <1>5 DEF Start, settingsVars, rows
  <2>2. ItemsTyped' /\ RowsInv'
    BY <1>0, <2>1, RowsStay
  <2> QED
    BY <1>0, <1>1, <2>1, <2>2, StillKeeps
<1>6. CASE Read
  <2>1. itemVars' = itemVars /\ phase' # "batches"
    BY <1>6 DEF Read
  <2> QED
    BY <1>0, <1>6, <2>1, ReadKeeps, RowsStay
<1>7. CASE SaveReset
  <2>1. CASE Fault("down") /\ Forget
    BY <1>4, <2>1
  <2>2. CASE ~(Fault("down") /\ Forget)
    <3>1. itemVars' = itemVars /\ phase' # "batches"
      BY <1>7, <2>2 DEF SaveReset
    <3>2. Typed' /\ SettingsInv'
      BY <1>0, <1>7, <2>2, SaveResetKeeps DEF SaveReset
    <3> QED
      BY <1>0, <3>1, <3>2, RowsStay
  <2> QED
    BY <2>1, <2>2
<1>8. CASE Normalize
  <2>1. CASE Fault("down") /\ Forget
    BY <1>4, <2>1
  <2>2. CASE ~(Fault("down") /\ Forget)
    <3>1. itemVars' = itemVars /\ phase' # "batches"
      BY <1>8, <2>2 DEF Normalize
    <3>2. Typed' /\ SettingsInv'
      BY <1>0, <1>8, <2>2, NormalizeKeeps DEF Normalize
    <3> QED
      BY <1>0, <3>1, <3>2, RowsStay
  <2> QED
    BY <2>1, <2>2
<1>9. CASE ReconcileItems
  <2>1. UNCHANGED <<mix, stored, unusable, cache, thread, tokens, failures, salted, ended, turnedBack, scene, told>>
    BY <1>9 DEF ReconcileItems, rows
  <2> QED
    BY <1>0, <1>1, <1>9, <2>1, ReconcileItemsKeeps, StillKeeps
<1>10. CASE ReconcileBatch
  <2>1. UNCHANGED <<mix, stored, unusable, cache, thread, tokens, failures, salted, ended, turnedBack, scene, told>>
    BY <1>10 DEF ReconcileBatch, rows
  <2> QED
    BY <1>0, <1>1, <1>10, <2>1, ReconcileBatchKeeps, StillKeeps
<1>11. CASE ComeUp
  <2>1. CASE Fault("down") /\ Forget
    BY <1>4, <2>1
  <2>2. CASE ~(Fault("down") /\ Forget)
    <3>1. /\ phase = "recover" /\ phase' = "up"
          /\ item' = [p \in Ids |-> [item[p] EXCEPT !.row = Recover(@)]]
          /\ late' = late \cup {p \in Ids : item[p].row.job = "running"}
          /\ UNCHANGED <<settingsVars, scene, batch, version, postStatus, told>>
      BY <1>11, <2>2 DEF ComeUp
    <3>2. ItemsTyped' /\ RowsInv'
      BY <1>0, <3>1, RecoverKeepsRows
    <3>3. phase \in Settled /\ phase' \in Settled /\ phase # "up"
      BY <3>1 DEF Settled
    <3>4. UNCHANGED <<mix, stored, unusable, cache, thread, tokens, salted, ended, turnedBack, scene, told,
                      failures, faults>>
      BY <3>1 DEF settingsVars, rows
    <3> QED
      BY <1>0, <1>1, <3>2, <3>3, <3>4, StillKeeps
  <2> QED
    BY <2>1, <2>2
<1>12. CASE Crash
  BY <1>4, <1>12 DEF Crash
<1>13. ASSUME NEW t \in Threads, Serve(t)
       PROVE  Typed' /\ SettingsInv' /\ RowsInv'
  <2>1. phase = "up" /\ RequestStep(t) /\ UNCHANGED <<scene, phase, itemVars, told>>
    BY <1>13 DEF Serve, Up
  <2>2. WriteInv /\ KeysInv /\ EpochInv /\ ToldInv
    BY <1>0 DEF SettingsInv
  <2>3. Typed' /\ WriteInv' /\ KeysInv' /\ EpochInv'
    BY <1>0, <2>1, <2>2, ServeTyped, ServeWrites, ServeKeys, ServeEpochs
  <2>4. ToldInv'
    BY <1>0, <2>1, <2>2, ServeTold
  <2>5. RowsInv'
    BY <1>0, <2>1, RowsStay
  <2> QED
    BY <2>3, <2>4, <2>5 DEF SettingsInv
<1>14. CASE WindowMoves
  <2>1. /\ failures' \in 0..MaxFailures /\ phase = "up" /\ phase' = "up" /\ itemVars' = itemVars
        /\ UNCHANGED <<mix, stored, unusable, cache, thread, tokens, salted, ended, turnedBack, scene, told, faults>>
    BY <1>1, <1>14 DEF WindowMoves, WindowPasses, Up, rows
  <2>2. ItemsTyped' /\ RowsInv'
    BY <1>0, <2>1, RowsStay
  <2> QED
    BY <1>0, <1>1, <2>1, <2>2, StillKeeps DEF Settled
<1>15. ASSUME NEW p \in Ids,
              \/ UserActs(p) \/ Download(p) \/ FileCheck(p) \/ EmbedCover(p)
              \/ \E outcome \in {"completed", "permanent", "cancelled"} : Finish(p, outcome)
       PROVE  Typed' /\ SettingsInv' /\ RowsInv'
  <2>1. /\ ItemsTyped' /\ RowsInv' /\ phase = "up"
        /\ UNCHANGED <<settingsVars, scene, phase, told>>
    BY <1>0, <1>15, ItemStepsKeep
  <2>2. UNCHANGED <<mix, stored, unusable, cache, thread, tokens, salted, ended, turnedBack, scene, told,
                    failures, faults>>
    BY <2>1 DEF settingsVars, rows
  <2> QED
    BY <1>0, <1>1, <2>1, <2>2, StillKeeps DEF Settled
<1>16. CASE UNCHANGED vars
  <2>1. UNCHANGED <<mix, stored, unusable, cache, thread, tokens, failures, salted, ended, turnedBack, faults,
                    scene, phase, batch, version, item, postStatus, late, told>>
    BY <1>16 DEF vars, settingsVars, itemVars, rows
  <2>2. Typed'
    BY <1>0, <2>1 DEF Typed, TypeOK, SettingsTypeOK, Carries
  <2>3. SettingsInv'
    BY <1>0, <2>1 DEF SettingsInv, WriteInv, KeysInv, EpochInv, ToldInv, Merges, Loaded, Dead,
                         PagesAreNew, Usable
  <2>4. RowsInv'
    BY <1>0, <2>1 DEF RowsInv, Derived
  <2> QED
    BY <2>2, <2>3, <2>4
<1>17. CASE Spoil
  <2>1. itemVars' = itemVars /\ phase' # "batches"
    BY <1>17 DEF Spoil, Fault
  <2> QED
    BY <1>0, <1>17, <2>1, SpoilKeeps, RowsStay
<1> QED
  BY <1>5, <1>6, <1>7, <1>8, <1>9, <1>10, <1>11, <1>12, <1>13, <1>14, <1>15, <1>16, <1>17
     DEF Next, StartStep

THEOREM Invariance == Spec => []IInv
<1>1. Init => IInv
  BY InitIInv
<1>2. IInv /\ [Next]_vars => IInv'
  BY NextIInv
<1> QED
  BY <1>1, <1>2, PTL DEF Spec

\* What the whole process agrees on, whatever was stored and whenever it
\* crashed: settings, requests, rows and versions have their types.
THEOREM TypesHold == Spec => []TypeOK
<1>1. IInv => TypeOK
  BY DEF IInv, Typed
<1> QED
  BY <1>1, Invariance, PTL

\* SettingsService.get reads without the lock: when no write is between its
\* commit and its cache, what it reads is what is stored, after any failed
\* commit, repair or crash (settings_service.py update, reload, _save_reset).
THEOREM CacheIsAlwaysStored == Spec => []CacheIsStored
<1>1. IInv => CacheIsStored
  BY DEF IInv, WriteInv, CacheIsStored, Settled
<1> QED
  BY <1>1, Invariance, PTL

\* A cookie handed out before a logout or a password change never works again
\* (api/auth.py session_key), whatever requests and crashes come, as long as no two
\* logouts run at once, no settings page from before a logout is saved, and no start
\* has to reset the counter.
THEOREM LoggedOutForGood == Spec => []LoggedOutStaysOut
<1>1. IInv => LoggedOutStaysOut
  <2>1. SUFFICES ASSUME IInv, ~turnedBack, NEW key \in ended, Active(cache), Key(cache) = key
                 PROVE  FALSE
    BY DEF LoggedOutStaysOut
  <2>2. key.hash = cache.hash /\ key.epoch = cache.epoch
    BY <2>1 DEF Key
  <2>3. cache.hash # 0 /\ cache \in Setting
    BY <2>1 DEF Active, IInv, Typed, TypeOK, SettingsTypeOK
  <2>4. Loaded
    BY <2>3, DefaultSetting, <2>1 DEF IInv, WriteInv
  <2>5. Dead(key, cache)
    BY <2>1, <2>4 DEF IInv, EpochInv
  <2>6. cache.epoch \in 0..MaxEpoch
    BY <2>3 DEF Setting
  <2> QED
    BY <2>2, <2>3, <2>5, <2>6 DEF Dead
<1> QED
  BY <1>1, Invariance, PTL

\* A setting that can't be used is reset, stored and reported once, wherever
\* the start is cut short (settings_service.py _save_reset).
THEOREM ResetOnlyOnce == Spec => []ResetOnce
<1>1. IInv => ResetOnce
  BY DEF IInv, ToldInv, ResetOnce
<1> QED
  BY <1>1, Invariance, PTL

\* Once the rules version is stored, every row reconcile saw is as the current
\* rules have it, and stays so (lifecycle.py reconcile).
THEOREM RowsAlwaysFollowTheRules == Spec => []RowsFollowTheRules
<1>1. IInv => RowsFollowTheRules
  BY DEF IInv, RowsInv, Ruled, RowsFollowTheRules
<1> QED
  BY <1>1, Invariance, PTL

\* No request writes back a setting it does not mean to change, neither a copy
\* another request made stale nor a masked secret (settings_service.py update).
THEOREM NothingIsEverWrittenBack == Spec => NothingIsWrittenBack
<1> DEFINE Meant == \A f \in Fields : stored'[f] # stored[f] =>
                      \/ \E t \in Threads : thread[t].at = "merged" /\ f \in Changes(thread[t])
                      \/ f \in unusable
                      \/ f = "rules" /\ stored[f] = "dead"
<1>1. IInv /\ [Next]_vars => [Meant]_vars
  <2> SUFFICES ASSUME IInv, Next, NEW f \in Fields, stored'[f] # stored[f]
               PROVE  \/ \E t \in Threads : thread[t].at = "merged" /\ f \in Changes(thread[t])
                      \/ f \in unusable
                      \/ f = "rules" /\ stored[f] = "dead"
    OBVIOUS
  <2>0. Typed /\ WriteInv /\ stored \in Setting /\ Valid(stored)
    BY DEF IInv, Typed, TypeOK, SettingsTypeOK
  <2>1. CASE SaveReset
    <3>1. stored' = Usable(stored)
      BY <2>1 DEF SaveReset, Repaired, Forget, rows
    <3> QED
      BY <2>0, <3>1, UsableSetting
  <2>2. CASE Normalize
    <3>1. cache.rules = "dead" /\ stored' = [stored EXCEPT !.rules = "current"] /\ phase = "normalize"
      BY <2>2 DEF Normalize, Forget, rows
    <3>2. cache = stored
      BY <2>0, <3>1, NoRequests DEF WriteInv, Settled
    <3>3. f = "rules"
      BY <2>0, <3>1, FieldNames DEF Setting
    <3> QED
      BY <3>1, <3>2, <3>3
  <2>3. ASSUME NEW t \in Threads, Serve(t)
        PROVE  \E u \in Threads : thread[u].at = "merged" /\ f \in Changes(thread[u])
    <3>1. Commit(t)
      BY <2>0, <2>3, RequestMoves DEF Serve
    <3>2. /\ thread[t].at = "merged" /\ stored' = thread[t].new /\ cache = stored
          /\ Merges(t)
      BY <2>0, <3>1, WrittenIsNew DEF Commit, WriteInv, Locked
    <3> QED
      BY <3>2 DEF Merges
  <2>4. stored' = stored \/ SaveReset \/ Normalize \/ \E t \in Threads : Serve(t)
    BY DEF Next, StartStep, Start, Read, ReconcileItems, ReconcileBatch, ComeUp, Crash, Forget, Spoil,
           rows, WindowMoves, WindowPasses, UserActs, ChangeItem, Download, FileCheck, EmbedCover, Finish,
           settingsVars
  <2> QED
    BY <2>1, <2>2, <2>3, <2>4
<1> QED
  BY <1>1, Invariance, PTL DEF NothingIsWrittenBack, Spec

===============================================================================
