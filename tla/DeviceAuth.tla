---------------------------- MODULE DeviceAuth ----------------------------
(***************************************************************************)
(* The extension's device credential: extension/src/background/auth.ts     *)
(* against server/internal/auth.  A single-use handshake token from the    *)
(* dashboard is exchanged for a device token, which rotates on every       *)
(* refresh.  The service worker and the side panel share the stored token; *)
(* each keeps one refresh at a time, and a web lock orders their refreshes.*)
(* Contexts die (the worker is stopped, the panel closed), requests and    *)
(* answers are lost, and the server remembers one previous token of each   *)
(* device, which it takes for a race for two minutes and then for theft.   *)
(*                                                                         *)
(* A refresh mints a device token and an access token together: one number *)
(* stands for both, and for the moment it was minted: a device's last_used_at *)
(* is set with its token.  The device an exchange creates has its number.  *)
(***************************************************************************)
EXTENDS Naturals, FiniteSets

CONSTANTS
    Worker, Panel,       \* the contexts of the extension
    Calls,               \* API calls of these contexts, one after the other each
    Home(_),             \* the context of a call
    Handshakes,          \* single-use tokens of the dashboard
    Nobody,
    MaxExchanges,        \* bound: exchanges posted, each makes one device
    MaxTokens,           \* bound: tokens minted
    DeviceCap,           \* ExtensionDeviceMaxPerUser
    MaxFaults            \* bound: contexts stopped at work, answers lost, queries that fail

Contexts  == {Worker, Panel}
Exchanges == 1..MaxExchanges
Tokens    == 1..MaxTokens

ASSUME AuthAssumption ==
    /\ Worker # Panel /\ Nobody \notin Contexts \cup Exchanges \cup Handshakes /\ Contexts \cap Exchanges = {}
    /\ \A k \in Calls : Home(k) \in Contexts
    /\ {MaxExchanges, MaxTokens, DeviceCap} \subseteq Nat \ {0} /\ MaxFaults \in Nat

VARIABLES
    (* the server *)
    ext,                 \* extension_tokens
    devices,             \* extension_devices
    minted,              \* tokens generated so far
    requests,            \* refresh requests on their way or being handled
    (* the browser's storage *)
    stored,              \* aethlara.device
    access,              \* aethlara.access
    connect,             \* aethlara.connect
    (* the extension *)
    lock,                \* who holds the web lock
    refresh,             \* the inflight refresh of each context
    calls,               \* what each call of the API client is doing
    exchange,            \* each exchange, at the server and at the client
    retiring,            \* devices the worker is revoking after a reconnect
    signout,             \* SIGN_OUT in the worker
    (* what the properties remember *)
    unseen,              \* devices whose rotation was never stored
    stolen,              \* devices revoked for reuse of an old token
    dbFailed,            \* a refresh met a database that failed
    faults

server  == <<ext, devices, minted>>
storage == <<stored, access, connect>>
bounds  == <<dbFailed, faults>>
vars    == <<server, requests, storage, lock, refresh, calls, exchange, retiring, signout,
             unseen, stolen, bounds>>

NoDevice == [cur |-> 0, prev |-> 0, recent |-> FALSE, state |-> "none"]
Nothing  == [dev |-> 0, tok |-> 0]
NoAccess == [tok |-> 0, fresh |-> FALSE]
NoRefresh == [pc |-> "none", rejected |-> 0, dev |-> 0, tok |-> 0, retry |-> FALSE, answer |-> "none"]
NoExchange == [client |-> "none", server |-> "none", ext |-> Nobody, prev |-> 0, tok |-> 0]
NoSignOut == [pc |-> "none", dev |-> 0]
IdleCall == [pc |-> "idle", tok |-> 0]

(* The state is what the program can hold, and the lock has a holder that will release it: a       *)
(* refresh past the lock or a handshake between its two writes.  Code: DeviceAuth and AccessToken  *)
(* in lib/storage.ts, the tables extension_tokens and extension_devices, withRefreshLock.          *)
TypeOK ==
    /\ ext \in [Handshakes -> {"none", "issued", "used"}]
    /\ devices \in [Exchanges -> [cur : 0..MaxTokens, prev : 0..MaxTokens, recent : BOOLEAN,
                                  state : {"none", "live", "revoked"}]]
    /\ minted \in 0..MaxTokens
    /\ requests \subseteq [from : Contexts \cup {Nobody}, tok : Tokens, pc : {"sent", "found"}]
    /\ stored \in [dev : 0..MaxExchanges, tok : 0..MaxTokens]
    /\ access \in [tok : 0..MaxTokens, fresh : BOOLEAN]
    /\ connect \in {"none", "connecting", "connected", "error"}
    /\ lock \in Contexts \cup Exchanges \cup {Nobody}
    /\ refresh \in [Contexts -> [pc : {"none", "lock", "posted", "served", "half", "sleep", "clear"},
                                 rejected : 0..MaxTokens, dev : 0..MaxExchanges, tok : 0..MaxTokens,
                                 retry : BOOLEAN, answer : {"none", "ok", "rotated", "gone"}]]
    /\ calls \in [Calls -> [pc : {"idle", "asking", "sent", "again", "resent"}, tok : 0..MaxTokens]]
    /\ exchange \in [Exchanges -> [client : {"none", "waiting", "answered", "half", "done"},
                                   server : {"none", "sent", "checked", "marked", "created", "uncapped", "over"},
                                   ext : Handshakes \cup {Nobody}, prev : 0..MaxExchanges,
                                   tok : 0..MaxTokens]]
    /\ retiring \subseteq Exchanges
    /\ signout \in [pc : {"none", "token", "delete", "clear", "cleared"}, dev : 0..MaxExchanges]
    /\ unseen \subseteq Exchanges /\ stolen \subseteq Exchanges
    /\ dbFailed \in BOOLEAN /\ faults \in 0..MaxFaults
    /\ \A c \in Contexts : (lock = c) <=> refresh[c].pc \notin {"none", "lock"}
    /\ \A i \in Exchanges : (lock = i) <=> exchange[i].client = "half"

(* The browser was never connected, or is, with a device of an earlier day. *)
Init ==
    /\ ext = [h \in Handshakes |-> "none"] /\ requests = {}
    /\ access = NoAccess /\ connect = "none"
    /\ lock = Nobody /\ refresh = [c \in Contexts |-> NoRefresh]
    /\ calls = [k \in Calls |-> IdleCall]
    /\ retiring = {} /\ signout = NoSignOut
    /\ unseen = {} /\ stolen = {} /\ dbFailed = FALSE /\ faults = 0
    /\ \/ /\ devices = [d \in Exchanges |-> NoDevice] /\ minted = 0
          /\ stored = Nothing /\ exchange = [i \in Exchanges |-> NoExchange]
       \/ /\ devices = [d \in Exchanges |->
                 IF d = 1 THEN [NoDevice EXCEPT !.cur = 1, !.state = "live"] ELSE NoDevice]
          /\ minted = 1 /\ stored = [dev |-> 1, tok |-> 1]
          /\ exchange = [i \in Exchanges |->
                 IF i = 1 THEN [NoExchange EXCEPT !.client = "done", !.server = "over", !.tok = 1] ELSE NoExchange]

Fault == faults < MaxFaults /\ faults' = faults + 1

-----------------------------------------------------------------------------
(* getAccessToken: the promise of a refresh is shared by the callers of its context *)

Usable(rejected) == access.fresh /\ access.tok # rejected

(* The calls, and a sign-out, that wait for the refresh of context c. *)
Waits(k, c)     == Home(k) = c /\ calls[k].pc \in {"asking", "again"}
SignOutWaits(c) == c = Worker /\ signout.pc = "token"

Resolve(c, t) ==
    /\ calls' = [k \in Calls |->
           IF ~Waits(k, c) THEN calls[k]
           ELSE [pc |-> IF calls[k].pc = "asking" THEN "sent" ELSE "resent", tok |-> t]]
    /\ signout' = IF SignOutWaits(c) THEN [signout EXCEPT !.pc = "delete"] ELSE signout
    /\ refresh' = [refresh EXCEPT ![c] = NoRefresh]
    /\ lock' = Nobody

Reject(c) ==
    /\ calls' = [k \in Calls |-> IF Waits(k, c) THEN IdleCall ELSE calls[k]]
    /\ signout' = IF SignOutWaits(c) THEN [signout EXCEPT !.pc = "clear"] ELSE signout
    /\ refresh' = [refresh EXCEPT ![c] = NoRefresh]
    /\ lock' = Nobody

(* inflight is set by the first caller, with the token that caller had rejected. *)
Join(c, rejected) ==
    refresh' = IF refresh[c].pc # "none" THEN refresh
               ELSE [refresh EXCEPT ![c] = [NoRefresh EXCEPT !.pc = "lock", !.rejected = rejected]]

GetAccessToken(k) ==
    /\ calls[k].pc = "idle"
    /\ \/ /\ Usable(0)
          /\ calls' = [calls EXCEPT ![k] = [pc |-> "sent", tok |-> access.tok]]
          /\ UNCHANGED refresh
       \/ /\ ~Usable(0)
          /\ calls' = [calls EXCEPT ![k] = [pc |-> "asking", tok |-> 0]]
          /\ Join(Home(k), 0)
    /\ UNCHANGED <<server, requests, storage, lock, exchange, retiring, signout, unseen, stolen, bounds>>

(* authorized: a 401 asks for another token, once. *)
Rejected401(k) ==
    /\ calls[k].pc = "sent"
    /\ LET t == calls[k].tok IN
       \/ /\ Usable(t)
          /\ calls' = [calls EXCEPT ![k] = [pc |-> "resent", tok |-> access.tok]]
          /\ UNCHANGED refresh
       \/ /\ ~Usable(t)
          /\ calls' = [calls EXCEPT ![k].pc = "again"]
          /\ Join(Home(k), t)
    /\ UNCHANGED <<server, requests, storage, lock, exchange, retiring, signout, unseen, stolen, bounds>>

CallEnds(k) ==
    /\ calls[k].pc \in {"sent", "resent"}
    /\ calls' = [calls EXCEPT ![k] = IdleCall]
    /\ UNCHANGED <<server, requests, storage, lock, refresh, exchange, retiring, signout, unseen, stolen, bounds>>

-----------------------------------------------------------------------------
(* refreshLocked *)

Post(c, retry) ==
    /\ refresh' = [refresh EXCEPT ![c] = [refresh[c] EXCEPT !.pc = "posted", !.dev = stored.dev,
                                                            !.tok = stored.tok, !.retry = retry]]
    /\ requests' = requests \cup {[from |-> c, tok |-> stored.tok, pc |-> "sent"]}

(* With the lock, the storage is read again: another context may have refreshed meanwhile. *)
WithLock(c, retry) ==
    LET rejected == refresh[c].rejected IN
    \/ Usable(rejected) /\ Resolve(c, access.tok) /\ UNCHANGED requests
    \/ ~Usable(rejected) /\ stored = Nothing /\ Reject(c) /\ UNCHANGED requests
    \/ /\ ~Usable(rejected) /\ stored # Nothing
       /\ Post(c, retry) /\ lock' = c /\ UNCHANGED <<calls, signout>>

RefreshLocked(c) ==
    /\ refresh[c].pc = "lock" /\ lock = Nobody
    /\ WithLock(c, FALSE)
    /\ UNCHANGED <<server, storage, exchange, retiring, unseen, stolen, bounds>>

\* Mutant: a second DEVICE_TOKEN_ROTATED is treated like every other 401.
RotatedTwiceIsGone(c) ==
    /\ refresh[c].pc = "served" /\ refresh[c].answer = "rotated"
    /\ refresh' = [refresh EXCEPT ![c].pc = IF refresh[c].retry THEN "served" ELSE "sleep",
                                  ![c].answer = IF refresh[c].retry THEN "gone" ELSE "none"]
    /\ UNCHANGED <<server, requests, storage, lock, calls, exchange, retiring, signout, unseen, stolen, bounds>>

(* DEVICE_TOKEN_ROTATED: a pause, then what the storage has by now, once. *)
Rotated(c) ==
    /\ refresh[c].pc = "served" /\ refresh[c].answer = "rotated"
    /\ \/ /\ ~refresh[c].retry
          /\ refresh' = [refresh EXCEPT ![c].pc = "sleep", ![c].answer = "none"]
          /\ UNCHANGED <<calls, signout, lock>>
       \/ refresh[c].retry /\ Reject(c)
    /\ UNCHANGED <<server, requests, storage, exchange, retiring, unseen, stolen, bounds>>

ReadAgain(c) ==
    /\ refresh[c].pc = "sleep"
    /\ WithLock(c, TRUE)
    /\ UNCHANGED <<server, storage, exchange, retiring, unseen, stolen, bounds>>

\* Mutant: the access token is written first.
PersistAccessFirst == <<"access", "device">>

(* persist: the rotated device token first, then the access token. *)
PersistOrder == <<"device", "access">>

Persist(n, d, t) ==
    \/ PersistOrder[n] = "device" /\ stored' = [dev |-> d, tok |-> t] /\ UNCHANGED access
    \/ PersistOrder[n] = "access" /\ access' = [tok |-> t, fresh |-> TRUE] /\ UNCHANGED stored

PersistFirst(c) ==
    /\ refresh[c].pc = "served" /\ refresh[c].answer = "ok"
    /\ Persist(1, refresh[c].dev, refresh[c].tok)
    /\ refresh' = [refresh EXCEPT ![c].pc = "half"]
    /\ UNCHANGED <<server, requests, connect, lock, calls, exchange, retiring, signout,
                   unseen, stolen, bounds>>

PersistSecond(c) ==
    /\ refresh[c].pc = "half"
    /\ Persist(2, refresh[c].dev, refresh[c].tok)
    /\ Resolve(c, refresh[c].tok)
    /\ UNCHANGED <<server, requests, connect, exchange, retiring, unseen, stolen, bounds>>

(* DEVICE_REVOKED, or any other 401 or 400: clearAuth removes the access token, then the device. *)
ClearAccess(c) ==
    /\ refresh[c].pc = "served" /\ refresh[c].answer = "gone"
    /\ access' = NoAccess
    /\ refresh' = [refresh EXCEPT ![c].pc = "clear"]
    /\ UNCHANGED <<server, requests, stored, connect, lock, calls, exchange, retiring, signout,
                   unseen, stolen, bounds>>

ClearDevice(c) ==
    /\ refresh[c].pc = "clear"
    /\ stored' = Nothing
    /\ Reject(c)
    /\ UNCHANGED <<server, requests, access, connect, exchange, retiring, unseen, stolen, bounds>>

-----------------------------------------------------------------------------
(* RefreshExtensionDevice: a look-up, then an update guarded by the token it found *)

Answer(r, a, d, t) ==
    /\ requests' = requests \ {r}
    /\ IF r.from = Nobody THEN UNCHANGED refresh
       ELSE refresh' = [refresh EXCEPT ![r.from] =
                [refresh[r.from] EXCEPT !.pc = "served", !.answer = a, !.dev = d, !.tok = t]]

Holds(d, t)    == devices[d].state # "none" /\ devices[d].cur = t
Replaced(d, t) == devices[d].state = "live" /\ devices[d].prev = t
Revoked(dev)   == [dev EXCEPT !.state = IF dev.state = "live" THEN "revoked" ELSE dev.state]

LookUp(r) ==
    /\ r.pc = "sent"
    /\ \/ /\ \E d \in Exchanges : Holds(d, r.tok) /\ devices[d].state = "live"
          /\ requests' = (requests \ {r}) \cup {[r EXCEPT !.pc = "found"]}
          /\ UNCHANGED <<refresh, devices, stolen>>
       \/ /\ \A d \in Exchanges : ~Holds(d, r.tok)
          /\ \E d \in Exchanges :
                /\ Replaced(d, r.tok)
                /\ IF devices[d].recent
                   THEN Answer(r, "rotated", 0, 0) /\ UNCHANGED <<devices, stolen>>
                   ELSE /\ Answer(r, "gone", 0, 0)
                        /\ devices' = [devices EXCEPT ![d] = Revoked(devices[d])]
                        /\ stolen' = stolen \cup {d}
       \/ /\ \/ \E d \in Exchanges : Holds(d, r.tok) /\ devices[d].state = "revoked"
             \/ \A d \in Exchanges : ~Holds(d, r.tok) /\ ~Replaced(d, r.tok)
          /\ Answer(r, "gone", 0, 0)
          /\ UNCHANGED <<devices, stolen>>
    /\ UNCHANGED <<ext, minted, storage, lock, calls, exchange, retiring, signout, unseen, bounds>>

Rotates(d, r) == Holds(d, r.tok) /\ devices[d].state = "live"

Rotate(r) ==
    /\ r.pc = "found"
    /\ \/ /\ minted < MaxTokens
          /\ \E d \in Exchanges :
                /\ Rotates(d, r)
                /\ devices' = [devices EXCEPT ![d] = [devices[d] EXCEPT !.cur = minted + 1,
                                                          !.prev = devices[d].cur, !.recent = TRUE]]
                /\ Answer(r, "ok", d, minted + 1)
                /\ unseen' = IF r.from = Nobody THEN unseen \cup {d} ELSE unseen
          /\ minted' = minted + 1
       \/ /\ \A d \in Exchanges : ~Rotates(d, r)
          /\ Answer(r, "rotated", 0, 0)
          /\ UNCHANGED <<devices, minted, unseen>>
    /\ UNCHANGED <<ext, storage, lock, calls, exchange, retiring, signout, stolen, bounds>>

(* A failed query is ErrInternal, or ErrExtensionDeviceInvalid; the handler answers both with *)
(* 401 DEVICE_REVOKED.                                                                         *)
DbFails(r) ==
    /\ Fault /\ dbFailed' = TRUE
    /\ Answer(r, "gone", 0, 0)
    /\ UNCHANGED <<server, storage, lock, calls, exchange, retiring, signout, unseen, stolen>>

(* fetch throws: the request never reached its update, or its answer is not read. *)
RequestLost(c) ==
    /\ \E r \in requests : r.from = c /\ requests' = requests \ {r}
    /\ Reject(c)
    /\ UNCHANGED <<server, storage, exchange, retiring, unseen, stolen, bounds>>

Minted(c)  == refresh[c].pc = "served" /\ refresh[c].answer = "ok"
Orphans(c) == {[r EXCEPT !.from = IF r.from = c THEN Nobody ELSE r.from] : r \in requests}

AnswerLost(c) ==
    /\ Fault
    /\ refresh[c].pc = "posted" \/ (refresh[c].pc = "served" /\ refresh[c].answer = "ok")
    /\ requests' = Orphans(c)
    /\ unseen' = IF Minted(c) THEN unseen \cup {refresh[c].dev} ELSE unseen
    /\ Reject(c)
    /\ UNCHANGED <<server, storage, exchange, retiring, stolen, dbFailed>>

(* Two minutes pass after the last rotation: a request takes 20 s at most. *)
GraceLapses(d) ==
    /\ devices[d].recent
    /\ \A r \in requests : r.tok # devices[d].prev
    /\ devices' = [devices EXCEPT ![d].recent = FALSE]
    /\ UNCHANGED <<ext, minted, requests, storage, lock, refresh, calls, exchange, retiring, signout,
                   unseen, stolen, bounds>>

AccessExpires ==
    /\ access.fresh
    /\ access' = [access EXCEPT !.fresh = FALSE]
    /\ UNCHANGED <<server, requests, stored, connect, lock, refresh, calls, exchange, retiring, signout,
                   unseen, stolen, bounds>>

-----------------------------------------------------------------------------
(* The handshake: the dashboard's token is relayed by the page and exchanged by the worker *)

(* "Connect Chrome extension" in the dashboard opens the handshake page. *)
GenerateExtensionToken(h) ==
    /\ ext[h] = "none"
    /\ ext' = [ext EXCEPT ![h] = "issued"]
    /\ UNCHANGED <<devices, minted, requests, storage, lock, refresh, calls, exchange, retiring,
                   signout, unseen, stolen, bounds>>

(* The page relays its token when it loads, and again when the worker did not reply. *)
ConnectWithHandshake(i, h) ==
    /\ ext[h] # "none" /\ exchange[i] = NoExchange
    /\ \A j \in Exchanges : j < i => exchange[j] # NoExchange
    /\ exchange' = [exchange EXCEPT ![i] = [NoExchange EXCEPT !.client = "waiting", !.server = "sent",
                                                              !.ext = h, !.prev = stored.dev]]
    /\ connect' = "connecting"
    /\ UNCHANGED <<server, requests, stored, access, lock, refresh, calls, retiring, signout,
                   unseen, stolen, bounds>>

(* ExchangeExtensionToken: the token is checked, then marked used. *)
CheckToken(i) ==
    /\ exchange[i].server = "sent"
    /\ \/ /\ ext[exchange[i].ext] = "issued"
          /\ exchange' = [exchange EXCEPT ![i].server = "checked"]
          /\ UNCHANGED connect
       \/ /\ ext[exchange[i].ext] = "used"
          /\ exchange' = [exchange EXCEPT ![i].server = "over", ![i].client = "done"]
          /\ connect' = IF exchange[i].client = "waiting" THEN "error" ELSE connect
    /\ UNCHANGED <<server, requests, stored, access, lock, refresh, calls, retiring, signout,
                   unseen, stolen, bounds>>

MarkUsed(i) ==
    /\ exchange[i].server = "checked"
    /\ ext' = [ext EXCEPT ![exchange[i].ext] = "used"]
    /\ exchange' = [exchange EXCEPT ![i].server = "marked"]
    /\ UNCHANGED <<devices, minted, requests, storage, lock, refresh, calls, retiring, signout,
                   unseen, stolen, bounds>>

(* issueDevice: the device is created, then the least recently used ones over the cap are revoked. *)
CreateDevice(i) ==
    /\ exchange[i].server = "marked" /\ minted < MaxTokens
    /\ minted' = minted + 1
    /\ devices' = [devices EXCEPT ![i] = [NoDevice EXCEPT !.cur = minted + 1, !.recent = TRUE, !.state = "live"]]
    /\ exchange' = [exchange EXCEPT ![i].server = "created", ![i].tok = minted + 1]
    /\ UNCHANGED <<ext, requests, storage, lock, refresh, calls, retiring, signout, unseen, stolen, bounds>>

Live == {d \in Exchanges : devices[d].state = "live"}
UsedAfter(d) == {e \in Live : devices[e].cur > devices[d].cur}

\* Mutant: the cap is counted without the device just created.
ExcessOverOneMore == {d \in Live : Cardinality(UsedAfter(d)) > DeviceCap}

Excess == {d \in Live : Cardinality(UsedAfter(d)) >= DeviceCap}

(* The worker, if it still waits, is told of its device. *)
ExchangeServed(i, s) ==
    exchange' = [exchange EXCEPT ![i] = [exchange[i] EXCEPT !.server = s,
                    !.client = IF exchange[i].client = "waiting" THEN "answered" ELSE exchange[i].client]]

RevokeExcess(i) ==
    /\ exchange[i].server = "created"
    /\ devices' = [d \in Exchanges |-> IF d \in Excess THEN Revoked(devices[d]) ELSE devices[d]]
    /\ ExchangeServed(i, "over")
    /\ UNCHANGED <<ext, minted, requests, storage, lock, refresh, calls, retiring, signout,
                   unseen, stolen, bounds>>

(* A failure is logged, and the device handed out all the same. *)
RevokeExcessFails(i) ==
    /\ exchange[i].server = "created" /\ Fault
    /\ ExchangeServed(i, "uncapped")
    /\ UNCHANGED <<server, requests, storage, lock, refresh, calls, retiring, signout,
                   unseen, stolen, dbFailed>>

ExchangeLost(i) ==
    /\ exchange[i].client = "waiting" /\ Fault
    /\ exchange' = [exchange EXCEPT ![i].client = "done"]
    /\ connect' = "error"
    /\ UNCHANGED <<server, requests, stored, access, lock, refresh, calls, retiring, signout,
                   unseen, stolen, dbFailed>>

(* inflightSafeReplace: persist with the lock. *)
ReplaceDevice(i) ==
    /\ exchange[i].client = "answered" /\ lock = Nobody
    /\ lock' = i
    /\ Persist(1, i, exchange[i].tok)
    /\ exchange' = [exchange EXCEPT ![i].client = "half"]
    /\ UNCHANGED <<server, requests, connect, refresh, calls, retiring, signout,
                   unseen, stolen, bounds>>

(* Connected: the device this browser used before is retired. *)
Connected(i) ==
    /\ exchange[i].client = "half"
    /\ Persist(2, i, exchange[i].tok)
    /\ connect' = "connected"
    /\ lock' = Nobody
    /\ exchange' = [exchange EXCEPT ![i].client = "done"]
    /\ retiring' = IF exchange[i].prev \in Exchanges \ {i} THEN retiring \cup {exchange[i].prev} ELSE retiring
    /\ UNCHANGED <<server, requests, refresh, calls, signout, unseen, stolen, bounds>>

(* revokeDevice, best effort. *)
Retire(d) ==
    /\ d \in retiring
    /\ retiring' = retiring \ {d}
    /\ \/ devices' = [devices EXCEPT ![d] = Revoked(devices[d])] /\ UNCHANGED faults
       \/ Fault /\ UNCHANGED devices
    /\ UNCHANGED <<ext, minted, requests, storage, lock, refresh, calls, exchange, signout,
                   unseen, stolen, dbFailed>>

-----------------------------------------------------------------------------
(* SIGN_OUT: the device is disconnected on the server if it can be, then all is forgotten *)

SignOut ==
    /\ signout.pc = "none" /\ stored # Nothing
    /\ \/ /\ Usable(0)
          /\ signout' = [pc |-> "delete", dev |-> stored.dev]
          /\ UNCHANGED refresh
       \/ /\ ~Usable(0)
          /\ signout' = [pc |-> "token", dev |-> stored.dev]
          /\ Join(Worker, 0)
    /\ UNCHANGED <<server, requests, storage, lock, calls, exchange, retiring, unseen, stolen, bounds>>

Disconnect ==
    /\ signout.pc = "delete"
    /\ signout' = [signout EXCEPT !.pc = "clear"]
    /\ \/ devices' = [devices EXCEPT ![signout.dev] = Revoked(devices[signout.dev])] /\ UNCHANGED faults
       \/ Fault /\ UNCHANGED devices
    /\ UNCHANGED <<ext, minted, requests, storage, lock, refresh, calls, exchange, retiring,
                   unseen, stolen, dbFailed>>

(* clearAuth, without the lock. *)
ForgetAccess ==
    /\ signout.pc = "clear"
    /\ access' = NoAccess
    /\ signout' = [signout EXCEPT !.pc = "cleared"]
    /\ UNCHANGED <<server, requests, stored, connect, lock, refresh, calls, exchange, retiring,
                   unseen, stolen, bounds>>

ForgetDevice ==
    /\ signout.pc = "cleared"
    /\ stored' = Nothing
    /\ signout' = NoSignOut
    /\ UNCHANGED <<server, requests, access, connect, lock, refresh, calls, exchange, retiring,
                   unseen, stolen, bounds>>

(* Settings in the dashboard: "Disconnect". *)
RevokeFromDashboard(d) ==
    /\ devices[d].state = "live"
    /\ devices' = [devices EXCEPT ![d] = Revoked(devices[d])]
    /\ UNCHANGED <<ext, minted, requests, storage, lock, refresh, calls, exchange, retiring, signout,
                   unseen, stolen, bounds>>

-----------------------------------------------------------------------------
(* A context ends at work: its promises are gone, its requests are not, and the lock is free. *)

Working(c) ==
    \/ refresh[c].pc # "none"
    \/ \E k \in Calls : Home(k) = c /\ calls[k].pc # "idle"
    \/ c = Worker /\ \/ \E i \in Exchanges : exchange[i].client \notin {"none", "done"}
                     \/ retiring # {} \/ signout.pc # "none"

Dies(c) ==
    /\ Fault /\ Working(c)
    /\ requests' = Orphans(c)
    /\ unseen' = IF Minted(c) THEN unseen \cup {refresh[c].dev} ELSE unseen
    /\ refresh' = [refresh EXCEPT ![c] = NoRefresh]
    /\ calls' = [k \in Calls |-> IF Home(k) = c THEN IdleCall ELSE calls[k]]
    /\ lock' = IF lock = c \/ (c = Worker /\ lock \in Exchanges) THEN Nobody ELSE lock
    /\ IF c = Worker
       THEN /\ exchange' = [i \in Exchanges |->
                  IF exchange[i] = NoExchange THEN NoExchange ELSE [exchange[i] EXCEPT !.client = "done"]]
            /\ retiring' = {} /\ signout' = NoSignOut
       ELSE UNCHANGED <<exchange, retiring, signout>>
    /\ UNCHANGED <<server, storage, stolen, dbFailed>>

-----------------------------------------------------------------------------
RefreshStep(c) ==
    \/ RefreshLocked(c) \/ Rotated(c) \/ ReadAgain(c)
    \/ PersistFirst(c) \/ PersistSecond(c) \/ ClearAccess(c) \/ ClearDevice(c) \/ RequestLost(c)
ServerStep(r)   == LookUp(r) \/ Rotate(r)
CallStep(k)     == GetAccessToken(k) \/ Rejected401(k) \/ CallEnds(k)
ExchangeStep(i) == CheckToken(i) \/ MarkUsed(i) \/ CreateDevice(i) \/ RevokeExcess(i) \/ RevokeExcessFails(i)
ClientStep(i)   == ReplaceDevice(i) \/ Connected(i)
SignOutStep     == Disconnect \/ ForgetAccess \/ ForgetDevice

Next ==
    \/ \E c \in Contexts : RefreshStep(c) \/ AnswerLost(c) \/ Dies(c)
    \/ \E r \in requests : ServerStep(r) \/ DbFails(r)
    \/ \E k \in Calls : CallStep(k)
    \/ \E h \in Handshakes : GenerateExtensionToken(h)
    \/ \E i \in Exchanges, h \in Handshakes : ConnectWithHandshake(i, h)
    \/ \E i \in Exchanges : ExchangeStep(i) \/ ClientStep(i) \/ ExchangeLost(i)
    \/ \E d \in Exchanges : Retire(d) \/ GraceLapses(d) \/ RevokeFromDashboard(d)
    \/ SignOut \/ SignOutStep \/ AccessExpires

Spec == Init /\ [][Next]_vars

-----------------------------------------------------------------------------
(* A device is revoked for the reuse of an old token only after a rotation the extension never got *)
(* to store: neither two contexts refreshing at once nor a death between the two writes of persist *)
(* looks like theft.  Code: persist, withRefreshLock, RefreshExtensionDevice.                       *)
TheftOnlyAfterLoss == stolen \subseteq unseen

(* The credential is forgotten on the user's sign-out, or when its device is no longer live (or the *)
(* server's database failed): no race among the contexts makes the extension drop a device the      *)
(* server would serve.  Code: refreshLocked, clearAuth, RefreshExtensionDevice.                     *)
ForgetsOnlyDead ==
    [][stored # Nothing /\ stored' = Nothing =>
         signout.pc = "cleared" \/ devices[stored.dev].state = "revoked" \/ dbFailed]_vars

(* The user's live devices stay within the cap, but for those an exchange has created and not yet   *)
(* counted, or failed to count.  Code: issueDevice, RevokeExcessExtensionDevices.                    *)
Counting == {"created", "uncapped"}

DevicesCapped ==
    Cardinality(Live) <= DeviceCap + Cardinality({i \in Exchanges : exchange[i].server \in Counting})
=============================================================================
