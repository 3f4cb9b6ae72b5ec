------------------------- MODULE DeviceAuth_proofs -------------------------
(* The extension's device credential, for any calls, handshakes, exchanges,  *)
(* tokens, cap and faults: a device is taken for stolen only after a         *)
(* rotation that was never stored, the credential is forgotten only when its *)
(* device is dead, and the live devices stay within the cap.                 *)
EXTENDS DeviceAuth, FiniteSetTheorems, WellFoundedInduction, TLAPS

DeviceRec   == [cur : 0..MaxTokens, prev : 0..MaxTokens, recent : BOOLEAN, state : {"none", "live", "revoked"}]
RequestRec  == [from : Contexts \cup {Nobody}, tok : Tokens, pc : {"sent", "found"}]
RefreshRec  == [pc : {"none", "lock", "posted", "served", "half", "sleep", "clear"},
                rejected : 0..MaxTokens, dev : 0..MaxExchanges, tok : 0..MaxTokens,
                retry : BOOLEAN, answer : {"none", "ok", "rotated", "gone"}]
ExchangeRec == [client : {"none", "waiting", "answered", "half", "done"},
                server : {"none", "sent", "checked", "marked", "created", "uncapped", "over"},
                ext : Handshakes \cup {Nobody}, prev : 0..MaxExchanges, tok : 0..MaxTokens]

CoreTypes ==
    /\ devices \in [Exchanges -> DeviceRec] /\ minted \in 0..MaxTokens
    /\ requests \subseteq RequestRec
    /\ stored \in [dev : 0..MaxExchanges, tok : 0..MaxTokens]
    /\ lock \in Contexts \cup Exchanges \cup {Nobody}
    /\ refresh \in [Contexts -> RefreshRec]
    /\ exchange \in [Exchanges -> ExchangeRec]
    /\ unseen \subseteq Exchanges /\ dbFailed \in BOOLEAN

LockInv ==
    /\ \A c \in Contexts : (lock = c) <=> refresh[c].pc \notin {"none", "lock"}
    /\ \A i \in Exchanges : (lock = i) <=> exchange[i].client = "half"

Exists(d) == devices[d].state # "none"

\* A token is of one device, and it is its token or the one before.
TokensInv ==
    /\ \A d \in Exchanges :
          /\ ~Exists(d) => devices[d] = NoDevice
          /\ Exists(d) => devices[d].cur \in 1..minted /\ devices[d].prev \in 0..minted
                          /\ devices[d].prev # devices[d].cur
    /\ \A d, e \in Exchanges :
          d # e /\ Exists(d) => /\ devices[d].cur \notin {devices[e].cur, devices[e].prev}
                                /\ devices[d].prev # 0 => devices[d].prev # devices[e].prev

\* The token of an exchange that the worker has not stored yet.
Pending(i) == exchange[i].tok # 0 /\ exchange[i].client \in {"waiting", "answered"}

ExchangesInv ==
    \A i \in Exchanges :
        /\ exchange[i].server \in {"none", "sent", "checked", "marked"} => ~Exists(i) /\ exchange[i].tok = 0
        /\ exchange[i].client = "answered" => Pending(i)
        /\ exchange[i].client \in {"answered", "half"} => exchange[i].server \in {"over", "uncapped"}
        /\ exchange[i].server = "created" => exchange[i].tok # 0
        /\ Pending(i) => Exists(i) /\ devices[i].cur = exchange[i].tok /\ devices[i].prev = 0

\* A request on its way is of one that waits for it, or of nobody.
RequestsInv ==
    /\ \A r \in requests : /\ r.tok \in 1..minted
                           /\ r.from # Nobody => refresh[r.from].pc = "posted" /\ refresh[r.from].tok = r.tok
    /\ \A r, q \in requests : r.from = q.from /\ r.from # Nobody => r = q

StoredInv ==
    /\ stored = Nothing \/ /\ stored.dev \in Exchanges /\ Exists(stored.dev) /\ stored.tok # 0
                           /\ stored.tok \in {devices[stored.dev].cur, devices[stored.dev].prev}
    /\ \A c \in Contexts : refresh[c].pc = "posted" =>
          stored = Nothing \/ stored = [dev |-> refresh[c].dev, tok |-> refresh[c].tok]
    /\ \A r \in requests, d \in Exchanges : stored.dev = d /\ r.tok = devices[d].cur => stored.tok = r.tok

\* What was minted and not stored yet is known to one side only.
SecretInv ==
    /\ \A c \in Contexts : Minted(c) =>
          /\ refresh[c].dev \in Exchanges /\ Exists(refresh[c].dev)
          /\ devices[refresh[c].dev].cur = refresh[c].tok
          /\ stored.tok # refresh[c].tok /\ \A r \in requests : r.tok # refresh[c].tok
          /\ \A i \in Exchanges : Pending(i) => refresh[c].dev # i
    /\ \A i \in Exchanges : Pending(i) =>
          stored.tok # exchange[i].tok /\ \A r \in requests : r.tok # exchange[i].tok

\* An old token that is stored or under way: its rotation was not stored, or not yet.
TheftInv ==
    /\ \A d \in Exchanges : Exists(d) /\ devices[d].prev # 0 /\ stored.tok = devices[d].prev =>
          d \in unseen \/ \E c \in Contexts : Minted(c) /\ refresh[c].dev = d
    /\ \A r \in requests, d \in Exchanges : Exists(d) /\ r.tok = devices[d].prev => devices[d].recent \/ d \in unseen
    /\ stolen \subseteq unseen

Leaving(c) == refresh[c].pc = "clear" \/ (refresh[c].pc = "served" /\ refresh[c].answer = "gone")

GoneInv ==
    \A c \in Contexts : Leaving(c) =>
        stored = Nothing \/ devices[stored.dev].state = "revoked" \/ dbFailed

AuthInv ==
    /\ CoreTypes /\ LockInv /\ TokensInv /\ ExchangesInv /\ RequestsInv
    /\ StoredInv /\ SecretInv /\ TheftInv /\ GoneInv /\ DevicesCapped

LEMMA Parameters ==
    /\ MaxExchanges \in Nat \ {0} /\ MaxTokens \in Nat \ {0} /\ DeviceCap \in Nat \ {0} /\ MaxFaults \in Nat
    /\ Worker # Panel /\ Nobody \notin Contexts /\ Nobody \notin Exchanges /\ Nobody \notin Handshakes
    /\ \A c \in Contexts : c \notin Exchanges
    /\ 0 \notin Exchanges /\ Exchanges \subseteq 0..MaxExchanges /\ Exchanges \subseteq Nat
BY AuthAssumption DEF Exchanges

-----------------------------------------------------------------------------
(* What one step writes *)

LEMMA RefreshSet ==
    ASSUME NEW c \in Contexts, refresh \in [Contexts -> RefreshRec], NEW v \in RefreshRec,
           refresh' = [refresh EXCEPT ![c] = v]
    PROVE  /\ refresh' \in [Contexts -> RefreshRec] /\ refresh'[c] = v
           /\ \A x \in Contexts : x # c => refresh'[x] = refresh[x]
OBVIOUS

LEMMA NoRefreshTyped == NoRefresh \in RefreshRec
BY Parameters DEF NoRefresh, RefreshRec

LEMMA PostedTyped ==
    ASSUME NEW old \in RefreshRec, NEW d \in 0..MaxExchanges, NEW t \in 0..MaxTokens, NEW retry \in BOOLEAN
    PROVE  [old EXCEPT !.pc = "posted", !.dev = d, !.tok = t, !.retry = retry] \in RefreshRec
BY DEF RefreshRec

LEMMA ServedTyped ==
    ASSUME NEW old \in RefreshRec, NEW d \in 0..MaxExchanges, NEW t \in 0..MaxTokens,
           NEW a \in {"ok", "rotated", "gone"}
    PROVE  [old EXCEPT !.pc = "served", !.answer = a, !.dev = d, !.tok = t] \in RefreshRec
BY DEF RefreshRec

LEMMA JoinedTyped ==
    ASSUME NEW old \in RefreshRec, NEW rejected \in 0..MaxTokens
    PROVE  /\ [old EXCEPT !.pc = "lock", !.rejected = rejected] \in RefreshRec
           /\ [old EXCEPT !.pc = "lock", !.rejected = rejected].pc = "lock"
BY DEF RefreshRec

LEMMA JoinEffect ==
    ASSUME NEW c \in Contexts, NEW rejected \in 0..MaxTokens, refresh \in [Contexts -> RefreshRec], Join(c, rejected)
    PROVE  /\ refresh' \in [Contexts -> RefreshRec]
           /\ \A x \in Contexts : refresh'[x] # refresh[x] =>
                 refresh[x].pc = "none" /\ refresh'[x].pc = "lock"
<1>1. PICK new \in RefreshRec : new = [NoRefresh EXCEPT !.pc = "lock", !.rejected = rejected] /\ new.pc = "lock"
  BY JoinedTyped, NoRefreshTyped
<1>2. CASE refresh[c].pc # "none"
  BY <1>2 DEF Join
<1>3. CASE refresh[c].pc = "none"
  <2>1. refresh' = [refresh EXCEPT ![c] = new]
    BY <1>1, <1>3 DEF Join
  <2> QED BY <1>1, <1>3, <2>1, RefreshSet
<1> QED BY <1>2, <1>3

LEMMA FreeEffect ==
    ASSUME NEW c \in Contexts, refresh \in [Contexts -> RefreshRec],
           refresh' = [refresh EXCEPT ![c] = NoRefresh]
    PROVE  /\ refresh' \in [Contexts -> RefreshRec] /\ refresh'[c] = NoRefresh
           /\ \A x \in Contexts \ {c} : refresh'[x] = refresh[x]
BY NoRefreshTyped, RefreshSet

LEMMA PostEffect ==
    ASSUME NEW c \in Contexts, NEW retry \in BOOLEAN, CoreTypes, stored.tok # 0, Post(c, retry)
    PROVE  /\ refresh' \in [Contexts -> RefreshRec] /\ requests' \subseteq RequestRec
           /\ refresh'[c].pc = "posted" /\ refresh'[c].dev = stored.dev /\ refresh'[c].tok = stored.tok
           /\ \A x \in Contexts \ {c} : refresh'[x] = refresh[x]
           /\ requests' = requests \cup {[from |-> c, tok |-> stored.tok, pc |-> "sent"]}
<1>1. stored.dev \in 0..MaxExchanges /\ stored.tok \in 0..MaxTokens /\ stored.tok \in Tokens
  BY Parameters DEF CoreTypes, Tokens
<1>2. PICK old \in RefreshRec : old = refresh[c]
  BY DEF CoreTypes
<1>3. PICK new \in RefreshRec :
         new = [old EXCEPT !.pc = "posted", !.dev = stored.dev, !.tok = stored.tok, !.retry = retry]
  BY <1>1, <1>2, PostedTyped
<1>4. new.pc = "posted" /\ new.dev = stored.dev /\ new.tok = stored.tok
  BY <1>2, <1>3 DEF RefreshRec
<1>5. refresh' = [refresh EXCEPT ![c] = new]
  BY <1>2, <1>3 DEF Post
<1>6. /\ refresh' \in [Contexts -> RefreshRec] /\ refresh'[c] = new
      /\ \A x \in Contexts \ {c} : refresh'[x] = refresh[x]
  BY <1>3, <1>5, RefreshSet DEF CoreTypes
<1> QED BY <1>1, <1>4, <1>6 DEF Post, CoreTypes, RequestRec

LEMMA AnswerEffect ==
    ASSUME CoreTypes, NEW r \in requests, NEW a \in {"ok", "rotated", "gone"}, NEW d \in 0..MaxExchanges,
           NEW t \in 0..MaxTokens, Answer(r, a, d, t)
    PROVE  /\ refresh' \in [Contexts -> RefreshRec] /\ requests' \subseteq RequestRec
           /\ requests' = requests \ {r} /\ r.from \in Contexts \cup {Nobody} /\ r.tok \in Tokens
           /\ r.from \in Contexts => /\ refresh'[r.from].pc = "served" /\ refresh'[r.from].answer = a
                                     /\ refresh'[r.from].dev = d /\ refresh'[r.from].tok = t
           /\ \A x \in Contexts : x # r.from => refresh'[x] = refresh[x]
<1>1. r.from \in Contexts \cup {Nobody} /\ r.tok \in Tokens
  BY DEF CoreTypes, RequestRec
<1>2. CASE r.from = Nobody
  BY <1>1, <1>2, Parameters DEF Answer, CoreTypes
<1>3. CASE r.from \in Contexts
  <2>1. refresh' = [refresh EXCEPT ![r.from] = [refresh[r.from] EXCEPT !.pc = "served", !.answer = a, !.dev = d, !.tok = t]]
    BY <1>3, Parameters DEF Answer
  <2>2. PICK old \in RefreshRec : old = refresh[r.from]
    BY <1>3 DEF CoreTypes
  <2>3. PICK new \in RefreshRec : new = [old EXCEPT !.pc = "served", !.answer = a, !.dev = d, !.tok = t]
    BY <2>2, ServedTyped
  <2>4. new.pc = "served" /\ new.answer = a /\ new.dev = d /\ new.tok = t
    BY <2>2, <2>3 DEF RefreshRec
  <2>5. refresh' = [refresh EXCEPT ![r.from] = new]
    BY <2>1, <2>2, <2>3
  <2>6. /\ refresh' \in [Contexts -> RefreshRec] /\ refresh'[r.from] = new
        /\ \A x \in Contexts : x # r.from => refresh'[x] = refresh[x]
    BY <1>3, <2>3, <2>5, RefreshSet DEF CoreTypes
  <2> QED BY <1>1, <1>3, <2>4, <2>6 DEF Answer, CoreTypes
<1> QED BY <1>1, <1>2, <1>3

LEMMA OrphansEffect ==
    ASSUME CoreTypes, NEW c \in Contexts
    PROVE  /\ Orphans(c) \subseteq RequestRec
           /\ \A q \in Orphans(c) : q.from # c /\ \E r \in requests : q.tok = r.tok /\ q.from \in {r.from, Nobody}
                                     /\ (q.from # Nobody => q = r)
BY Parameters DEF Orphans, CoreTypes, RequestRec

\* What a revocation, or a step that is not about a device, leaves of it.
Same(d) ==
    /\ devices'[d].cur = devices[d].cur /\ devices'[d].prev = devices[d].prev
    /\ devices'[d].recent = devices[d].recent
    /\ devices'[d].state = "none" <=> devices[d].state = "none"
    /\ ~Exists(d) => devices'[d] = devices[d]

Revokes(S) == devices' = [d \in Exchanges |-> IF d \in S THEN Revoked(devices[d]) ELSE devices[d]]

LEMMA RevokedDevice ==
    ASSUME NEW dev \in DeviceRec
    PROVE  /\ Revoked(dev) \in DeviceRec
           /\ Revoked(dev).cur = dev.cur /\ Revoked(dev).prev = dev.prev /\ Revoked(dev).recent = dev.recent
           /\ Revoked(dev).state = IF dev.state = "live" THEN "revoked" ELSE dev.state
           /\ dev.state # "live" => Revoked(dev) = dev
<1>1. PICK s \in {"none", "live", "revoked"} : s = IF dev.state = "live" THEN "revoked" ELSE dev.state
  BY DEF DeviceRec
<1>2. [dev EXCEPT !.state = s] \in DeviceRec /\ [dev EXCEPT !.state = s].state = s
      /\ [dev EXCEPT !.state = s].cur = dev.cur /\ [dev EXCEPT !.state = s].prev = dev.prev
      /\ [dev EXCEPT !.state = s].recent = dev.recent
      /\ (s = dev.state => [dev EXCEPT !.state = s] = dev)
  BY <1>1 DEF DeviceRec
<1> QED BY <1>1, <1>2 DEF Revoked

LEMMA RevokesEffect ==
    ASSUME devices \in [Exchanges -> DeviceRec], NEW S, Revokes(S)
    PROVE  /\ devices' \in [Exchanges -> DeviceRec]
           /\ \A d \in Exchanges :
                 /\ Same(d)
                 /\ devices'[d].state = IF d \in S /\ devices[d].state = "live" THEN "revoked" ELSE devices[d].state
<1>1. devices' \in [Exchanges -> DeviceRec]
  BY RevokedDevice DEF Revokes
<1>2. ASSUME NEW d \in Exchanges
      PROVE  /\ Same(d)
             /\ devices'[d].state = IF d \in S /\ devices[d].state = "live" THEN "revoked" ELSE devices[d].state
  <2>1. PICK dev \in DeviceRec : dev = devices[d]
    OBVIOUS
  <2>2. devices'[d] = IF d \in S THEN Revoked(dev) ELSE dev
    BY <2>1 DEF Revokes
  <2> QED BY <2>1, <2>2, RevokedDevice DEF Same, Exists
<1> QED BY <1>1, <1>2

LEMMA RevokesOne ==
    ASSUME NEW d, devices \in [Exchanges -> DeviceRec], devices' = [devices EXCEPT ![d] = Revoked(devices[d])]
    PROVE  Revokes({d})
BY DEF Revokes

LEMMA RevokesNone ==
    ASSUME devices \in [Exchanges -> DeviceRec], devices' = devices
    PROVE  Revokes({})
BY DEF Revokes

-----------------------------------------------------------------------------
(* A step that mints nothing, stores no token and posts no request *)

LEMMA Quiet ==
    ASSUME AuthInv, CoreTypes',
           \A d \in Exchanges : Same(d), minted' = minted,
           \A r \in requests' : \E q \in requests : q.tok = r.tok,
           stored' = stored \/ stored' = Nothing,
           \A c \in Contexts : refresh'[c].pc = "posted" => refresh'[c] = refresh[c],
           \A c \in Contexts : Minted(c)' => refresh'[c] = refresh[c],
           \A c \in Contexts : Minted(c) /\ ~Minted(c)' => refresh[c].dev \in unseen',
           unseen \subseteq unseen', stolen' \subseteq unseen',
           \A i \in Exchanges : Pending(i)' => Pending(i) /\ exchange'[i].tok = exchange[i].tok
    PROVE  TokensInv' /\ StoredInv' /\ SecretInv' /\ TheftInv'
<1>1. TokensInv'
  BY DEF AuthInv, TokensInv, Same, Exists
<1>2. \A d \in Exchanges : Exists(d) => devices[d].cur \in Nat \ {0} /\ devices[d].prev \in Nat
  BY DEF AuthInv, TokensInv, CoreTypes
<1>3. StoredInv'
  <2>1. stored' = Nothing \/ /\ stored'.dev \in Exchanges /\ devices'[stored'.dev].state # "none" /\ stored'.tok # 0
                             /\ stored'.tok \in {devices'[stored'.dev].cur, devices'[stored'.dev].prev}
    <3>1. CASE stored' = Nothing
      BY <3>1
    <3>2. CASE stored' = stored /\ stored # Nothing
      BY <3>2 DEF AuthInv, StoredInv, Same, Exists
    <3> QED BY <3>1, <3>2
  <2>2. ASSUME NEW c \in Contexts, refresh'[c].pc = "posted"
        PROVE  stored' = Nothing \/ stored' = [dev |-> refresh'[c].dev, tok |-> refresh'[c].tok]
    BY <2>2 DEF AuthInv, StoredInv
  <2>3. ASSUME NEW r \in requests', NEW d \in Exchanges, stored'.dev = d, r.tok = devices'[d].cur
        PROVE  stored'.tok = r.tok
    <3>1. stored' = stored
      BY <2>3, Parameters DEF Nothing
    <3> QED BY <2>3, <3>1 DEF AuthInv, StoredInv, Same
  <2> QED BY <2>1, <2>2, <2>3 DEF StoredInv, Exists
<1>4. stored'.tok = stored.tok \/ stored'.tok = 0
  BY DEF Nothing
<1>5. SecretInv'
  <2>1. ASSUME NEW c \in Contexts, Minted(c)'
        PROVE  /\ refresh'[c].dev \in Exchanges /\ devices'[refresh'[c].dev].state # "none"
               /\ devices'[refresh'[c].dev].cur = refresh'[c].tok
               /\ stored'.tok # refresh'[c].tok /\ \A r \in requests' : r.tok # refresh'[c].tok
               /\ \A i \in Exchanges : Pending(i)' => refresh'[c].dev # i
    <3>1. refresh'[c] = refresh[c] /\ Minted(c)
      BY <2>1 DEF Minted
    <3>2. /\ refresh[c].dev \in Exchanges /\ Exists(refresh[c].dev)
          /\ devices[refresh[c].dev].cur = refresh[c].tok
          /\ stored.tok # refresh[c].tok /\ \A r \in requests : r.tok # refresh[c].tok
          /\ \A i \in Exchanges : Pending(i) => refresh[c].dev # i
      BY <3>1 DEF AuthInv, SecretInv
    <3> QED BY <1>2, <1>4, <3>1, <3>2 DEF Same, Exists
  <2>2. ASSUME NEW i \in Exchanges, Pending(i)'
        PROVE  stored'.tok # exchange'[i].tok /\ \A r \in requests' : r.tok # exchange'[i].tok
    <3>1. Pending(i) /\ exchange'[i].tok = exchange[i].tok /\ exchange[i].tok # 0
      BY <2>2 DEF Pending
    <3>2. stored.tok # exchange[i].tok /\ \A r \in requests : r.tok # exchange[i].tok
      BY <3>1 DEF AuthInv, SecretInv
    <3> QED BY <1>4, <3>1, <3>2
  <2> QED BY <2>1, <2>2 DEF SecretInv, Exists
<1>6. TheftInv'
  <2>1. ASSUME NEW d \in Exchanges, devices'[d].state # "none", devices'[d].prev # 0, stored'.tok = devices'[d].prev
        PROVE  d \in unseen' \/ \E c \in Contexts : Minted(c)' /\ refresh'[c].dev = d
    <3>1. Exists(d) /\ devices[d].prev # 0 /\ stored.tok = devices[d].prev
      BY <1>2, <1>4, <2>1 DEF Same, Exists
    <3>2. d \in unseen \/ \E c \in Contexts : Minted(c) /\ refresh[c].dev = d
      BY <3>1 DEF AuthInv, TheftInv
    <3> QED BY <3>2
  <2>2. ASSUME NEW r \in requests', NEW d \in Exchanges, devices'[d].state # "none", r.tok = devices'[d].prev
        PROVE  devices'[d].recent \/ d \in unseen'
    BY <2>2 DEF AuthInv, TheftInv, Same, Exists
  <2> QED BY <2>1, <2>2 DEF TheftInv, Exists
<1> QED BY <1>1, <1>3, <1>5, <1>6

-----------------------------------------------------------------------------
(* The parts of the invariant that a step disturbs little *)

Created == {i \in Exchanges : exchange[i].server \in Counting}

LEMMA Finite ==
    /\ IsFiniteSet(Exchanges) /\ IsFiniteSet(Live) /\ IsFiniteSet(Created)
    /\ Cardinality(Live) \in Nat /\ Cardinality(Created) \in Nat
<1>1. IsFiniteSet(Exchanges)
  BY FS_Interval, Parameters DEF Exchanges
<1>2. Live \subseteq Exchanges /\ Created \subseteq Exchanges
  BY DEF Live, Created
<1> QED BY <1>1, <1>2, FS_Subset, FS_CardinalityType

LEMMA FiniteNext ==
    /\ IsFiniteSet(Live') /\ IsFiniteSet(Created')
    /\ Cardinality(Live') \in Nat /\ Cardinality(Created') \in Nat
<1>1. Live' \subseteq Exchanges /\ Created' \subseteq Exchanges
  BY DEF Live, Created
<1> QED BY <1>1, Finite, FS_Subset, FS_CardinalityType

\* No device comes to life and no exchange counts its device: the cap holds as before.
LEMMA CapKept ==
    ASSUME DevicesCapped,
           \A d \in Exchanges : devices'[d].state = "live" => devices[d].state = "live",
           \A i \in Exchanges : exchange[i].server \in Counting => exchange'[i].server \in Counting
    PROVE  DevicesCapped'
<1>1. Live' \subseteq Live /\ Created \subseteq Created'
  BY DEF Live, Created
<1>2. Cardinality(Live') <= Cardinality(Live) /\ Cardinality(Created) <= Cardinality(Created')
  BY <1>1, Finite, FiniteNext, FS_Subset
<1>3. Cardinality(Live) <= DeviceCap + Cardinality(Created)
  BY DEF DevicesCapped, Created
<1>4. Cardinality(Live') <= DeviceCap + Cardinality(Created')
  BY <1>2, <1>3, Finite, FiniteNext, Parameters
<1> QED BY <1>4 DEF DevicesCapped, Created

LEMMA ExchangesKept ==
    ASSUME AuthInv, CoreTypes', \A d \in Exchanges : Same(d),
           \A i \in Exchanges : /\ exchange'[i].server = exchange[i].server /\ exchange'[i].tok = exchange[i].tok
                                /\ exchange'[i].client \in {exchange[i].client, "half", "done"}
                                /\ exchange'[i].client = "half" => exchange[i].client \in {"answered", "half"}
    PROVE  /\ ExchangesInv'
           /\ \A i \in Exchanges : Pending(i)' => Pending(i) /\ exchange'[i].tok = exchange[i].tok
BY DEF AuthInv, ExchangesInv, Pending, Exists, Same

LEMMA GoneKept ==
    ASSUME AuthInv, stored' = stored \/ stored' = Nothing, dbFailed => dbFailed',
           \A d \in Exchanges : devices[d].state = "revoked" => devices'[d].state = "revoked",
           \A c \in Contexts : Leaving(c)' => Leaving(c)
    PROVE  GoneInv'
<1>1. stored = Nothing \/ stored.dev \in Exchanges
  BY DEF AuthInv, StoredInv
<1> QED BY <1>1 DEF AuthInv, GoneInv

core == <<devices, minted, requests, stored, lock, refresh, exchange, unseen, stolen, dbFailed>>

LEMMA SameDevices ==
    ASSUME devices' = devices
    PROVE  \A d \in Exchanges : Same(d)
BY DEF Same

(* The calls, the dashboard's tokens, the access token: none of them is in the invariant. *)
LEMMA Still ==
    ASSUME AuthInv, UNCHANGED core
    PROVE  AuthInv'
<1>1. UNCHANGED <<devices, minted, requests, stored, lock, refresh, exchange, unseen, stolen, dbFailed>>
  BY DEF core
<1>2. CoreTypes' /\ LockInv'
  BY <1>1 DEF AuthInv, CoreTypes, LockInv
<1>3. TokensInv' /\ ExchangesInv'
  BY <1>1 DEF AuthInv, TokensInv, ExchangesInv, Exists, Pending
<1>4. RequestsInv' /\ StoredInv'
  BY <1>1 DEF AuthInv, RequestsInv, StoredInv, Exists
<1>5. SecretInv' /\ TheftInv' /\ GoneInv'
  BY <1>1 DEF AuthInv, SecretInv, TheftInv, GoneInv, Exists, Pending, Minted, Leaving
<1>6. DevicesCapped'
  BY <1>1, CapKept DEF AuthInv
<1> QED BY <1>2, <1>3, <1>4, <1>5, <1>6 DEF AuthInv

(* A caller starts the refresh of its context. *)
LEMMA JoinKeeps ==
    ASSUME AuthInv, NEW c \in Contexts, NEW rejected \in 0..MaxTokens, Join(c, rejected),
           UNCHANGED <<devices, minted, requests, stored, lock, exchange, unseen, stolen, dbFailed>>
    PROVE  AuthInv'
<1>1. /\ refresh' \in [Contexts -> RefreshRec]
      /\ \A x \in Contexts : refresh'[x] # refresh[x] => refresh[x].pc = "none" /\ refresh'[x].pc = "lock"
  BY JoinEffect DEF AuthInv, CoreTypes
<1>2. CoreTypes'
  BY <1>1 DEF AuthInv, CoreTypes
<1>3. LockInv'
  BY <1>1 DEF AuthInv, LockInv
<1>4. ExchangesInv' /\ \A i \in Exchanges : Pending(i)' => Pending(i) /\ exchange'[i].tok = exchange[i].tok
  BY <1>2, ExchangesKept, SameDevices
<1>5. RequestsInv'
  <2>1. ASSUME NEW r \in requests, r.from # Nobody
        PROVE  refresh'[r.from].pc = "posted" /\ refresh'[r.from].tok = r.tok
    <3>1. r.from \in Contexts /\ refresh[r.from].pc = "posted" /\ refresh[r.from].tok = r.tok
      BY <2>1 DEF AuthInv, CoreTypes, RequestRec, RequestsInv
    <3> QED BY <1>1, <3>1
  <2> QED BY <2>1 DEF AuthInv, RequestsInv
<1>6. \A x \in Contexts : (Leaving(x)' => Leaving(x)) /\ (Minted(x)' => refresh'[x] = refresh[x]) /\ (Minted(x) => Minted(x)')
  BY <1>1 DEF Leaving, Minted
<1>7. TokensInv' /\ StoredInv' /\ SecretInv' /\ TheftInv'
  <2>1. \A x \in Contexts : refresh'[x].pc = "posted" => refresh'[x] = refresh[x]
    BY <1>1
  <2>2. unseen \subseteq unseen' /\ stolen' \subseteq unseen' /\ \A r \in requests' : \E q \in requests : q.tok = r.tok
    BY DEF AuthInv, TheftInv
  <2> QED BY <1>2, <1>4, <1>6, <2>1, <2>2, SameDevices, Quiet
<1>8. GoneInv' /\ DevicesCapped'
  BY <1>6, GoneKept, CapKept DEF AuthInv
<1> QED BY <1>2, <1>3, <1>4, <1>5, <1>7, <1>8 DEF AuthInv

(* The refresh of a context ends, whatever it has reached: its request and its rotation, if any, *)
(* are nobody's now.                                                                               *)
LEMMA FreeKeeps ==
    ASSUME AuthInv, NEW c \in Contexts, refresh' = [refresh EXCEPT ![c] = NoRefresh], LockInv', CoreTypes',
           \A q \in requests' : q.from # c /\ \E r \in requests : q.tok = r.tok /\ (q.from # Nobody => q = r),
           \A i \in Exchanges : /\ exchange'[i].server = exchange[i].server /\ exchange'[i].tok = exchange[i].tok
                                /\ exchange'[i].client \in {exchange[i].client, "done"},
           Minted(c) => refresh[c].dev \in unseen', unseen \subseteq unseen',
           stored' = stored \/ stored' = Nothing,
           UNCHANGED <<devices, minted, stolen, dbFailed>>
    PROVE  AuthInv'
<1>1. refresh'[c] = NoRefresh /\ \A x \in Contexts \ {c} : refresh'[x] = refresh[x]
  BY FreeEffect DEF AuthInv, CoreTypes
<1>2. refresh'[c].pc = "none"
  BY <1>1 DEF NoRefresh
<1>3. ExchangesInv' /\ \A i \in Exchanges : Pending(i)' => Pending(i) /\ exchange'[i].tok = exchange[i].tok
  BY ExchangesKept, SameDevices
<1>4. RequestsInv'
  <2>1. ASSUME NEW q \in requests'
        PROVE  /\ q.tok \in 1..minted
               /\ q.from # Nobody => refresh'[q.from].pc = "posted" /\ refresh'[q.from].tok = q.tok
    <3>1. PICK r \in requests : q.tok = r.tok /\ (q.from # Nobody => q = r)
      OBVIOUS
    <3>2. CASE q.from = Nobody
      BY <3>1, <3>2 DEF AuthInv, RequestsInv
    <3>3. CASE q.from # Nobody
      <4>1. q = r /\ q.from \in Contexts \ {c}
        BY <3>1, <3>3 DEF AuthInv, CoreTypes, RequestRec
      <4> QED BY <1>1, <3>3, <4>1 DEF AuthInv, RequestsInv
    <3> QED BY <3>2, <3>3
  <2>2. ASSUME NEW r \in requests', NEW q \in requests', r.from = q.from, r.from # Nobody
        PROVE  r = q
    <3>1. r \in requests /\ q \in requests
      BY <2>2
    <3> QED BY <2>2, <3>1 DEF AuthInv, RequestsInv
  <2> QED BY <2>1, <2>2 DEF RequestsInv
<1>5. \A x \in Contexts : (Leaving(x)' => Leaving(x)) /\ (Minted(x)' => refresh'[x] = refresh[x])
  BY <1>1, <1>2 DEF Leaving, Minted
<1>6. \A x \in Contexts : Minted(x) /\ ~Minted(x)' => refresh[x].dev \in unseen'
  BY <1>1 DEF Minted
<1>7. TokensInv' /\ StoredInv' /\ SecretInv' /\ TheftInv'
  <2>1. \A x \in Contexts : refresh'[x].pc = "posted" => refresh'[x] = refresh[x]
    BY <1>1, <1>2
  <2>2. stolen' \subseteq unseen' /\ \A r \in requests' : \E q \in requests : q.tok = r.tok
    BY DEF AuthInv, TheftInv
  <2> QED BY <1>3, <1>5, <1>6, <2>1, <2>2, SameDevices, Quiet
<1>8. GoneInv'
  BY <1>5, GoneKept
<1>9. DevicesCapped'
  BY CapKept DEF AuthInv
<1> QED BY <1>3, <1>4, <1>7, <1>8, <1>9 DEF AuthInv

(* A context posts the token the storage has. *)
LEMMA PostKeeps ==
    ASSUME AuthInv, NEW c \in Contexts, NEW retry \in BOOLEAN, Post(c, retry), stored # Nothing,
           refresh[c].pc \in {"lock", "sleep"}, lock \in {c, Nobody}, lock' = c,
           UNCHANGED <<devices, minted, stored, exchange, unseen, stolen, dbFailed>>
    PROVE  AuthInv'
<1>1. /\ stored.dev \in Exchanges /\ Exists(stored.dev) /\ stored.tok # 0
      /\ stored.tok \in {devices[stored.dev].cur, devices[stored.dev].prev}
  BY DEF AuthInv, StoredInv
<1>2. /\ refresh' \in [Contexts -> RefreshRec] /\ requests' \subseteq RequestRec
      /\ refresh'[c].pc = "posted" /\ refresh'[c].dev = stored.dev /\ refresh'[c].tok = stored.tok
      /\ \A x \in Contexts \ {c} : refresh'[x] = refresh[x]
      /\ requests' = requests \cup {[from |-> c, tok |-> stored.tok, pc |-> "sent"]}
  BY <1>1, PostEffect DEF AuthInv
<1>0. PICK new : new = [from |-> c, tok |-> stored.tok, pc |-> "sent"]
  OBVIOUS
<1>3. new.from = c /\ new.tok = stored.tok
  BY <1>0
<1>4. requests' = requests \cup {new}
  BY <1>0, <1>2
<1>5. \A x \in Contexts \ {c} : refresh[x].pc \in {"none", "lock"}
  BY Parameters DEF AuthInv, LockInv
<1>6. CoreTypes'
  BY <1>2 DEF AuthInv, CoreTypes
<1>7. LockInv'
  BY <1>2, <1>5, Parameters DEF AuthInv, LockInv
<1>8. ExchangesInv' /\ \A i \in Exchanges : Pending(i)' => Pending(i) /\ exchange'[i].tok = exchange[i].tok
  BY <1>6, ExchangesKept, SameDevices
<1>9. stored.tok \in 1..minted
  BY <1>1 DEF AuthInv, TokensInv, CoreTypes
<1>10. \A r \in requests : r.from # c
  BY Parameters DEF AuthInv, RequestsInv
<1>11. RequestsInv'
  <2>1. ASSUME NEW r \in requests'
        PROVE  /\ r.tok \in 1..minted
               /\ r.from # Nobody => refresh'[r.from].pc = "posted" /\ refresh'[r.from].tok = r.tok
    <3>1. CASE r = new
      BY <1>2, <1>3, <1>9, <3>1
    <3>2. CASE r \in requests
      <4>1. r.from # Nobody => r.from \in Contexts \ {c}
        BY <1>10, <3>2 DEF AuthInv, CoreTypes, RequestRec
      <4> QED BY <1>2, <3>2, <4>1 DEF AuthInv, RequestsInv
    <3> QED BY <1>4, <3>1, <3>2
  <2>2. ASSUME NEW r \in requests', NEW q \in requests', r.from = q.from, r.from # Nobody
        PROVE  r = q
    BY <1>3, <1>4, <1>10, <2>2 DEF AuthInv, RequestsInv
  <2> QED BY <2>1, <2>2 DEF RequestsInv
<1>12. \A x \in Contexts : ~Minted(x) /\ ~Minted(x)' /\ (Leaving(x)' => Leaving(x))
  BY <1>2, <1>5 DEF Minted, Leaving
<1>13. StoredInv'
  <2>1. stored \in [dev : 0..MaxExchanges, tok : 0..MaxTokens]
    BY DEF AuthInv, CoreTypes
  <2>2. ASSUME NEW x \in Contexts, refresh'[x].pc = "posted"
        PROVE  stored = [dev |-> refresh'[x].dev, tok |-> refresh'[x].tok]
    BY <1>2, <1>5, <2>1, <2>2
  <2>3. ASSUME NEW r \in requests', NEW d \in Exchanges, stored.dev = d, r.tok = devices[d].cur
        PROVE  stored.tok = r.tok
    BY <1>3, <1>4, <2>3 DEF AuthInv, StoredInv
  <2> QED BY <1>1, <2>2, <2>3 DEF StoredInv, Exists
<1>14. TokensInv'
  BY DEF AuthInv, TokensInv, Exists
<1>15. SecretInv'
  BY <1>3, <1>4, <1>8, <1>12 DEF AuthInv, SecretInv
<1>16. TheftInv'
  <2>1. ASSUME NEW r \in requests', NEW d \in Exchanges, Exists(d), r.tok = devices[d].prev
        PROVE  devices[d].recent \/ d \in unseen
    <3>1. CASE r = new
      <4>1. devices[d].prev # 0 /\ stored.tok = devices[d].prev
        BY <1>1, <1>3, <2>1, <3>1
      <4> QED BY <1>12, <2>1, <4>1 DEF AuthInv, TheftInv
    <3>2. CASE r \in requests
      BY <2>1, <3>2 DEF AuthInv, TheftInv
    <3> QED BY <1>4, <3>1, <3>2
  <2>2. ASSUME NEW d \in Exchanges, Exists(d), devices[d].prev # 0, stored.tok = devices[d].prev
        PROVE  d \in unseen
    BY <1>12, <2>2 DEF AuthInv, TheftInv
  <2> QED BY <2>1, <2>2 DEF AuthInv, TheftInv, Exists
<1>17. GoneInv'
  BY <1>12, GoneKept
<1>18. DevicesCapped'
  BY CapKept DEF AuthInv
<1> QED BY <1>6, <1>7, <1>8, <1>11, <1>13, <1>14, <1>15, <1>16, <1>17, <1>18 DEF AuthInv

-----------------------------------------------------------------------------
(* The server answers a request *)

(* What an answer leaves of the requests and of the other refreshes, whatever it says. *)
LEMMA Answered ==
    ASSUME AuthInv, NEW r \in requests, NEW a \in {"ok", "rotated", "gone"}, NEW d \in 0..MaxExchanges,
           NEW t \in 0..MaxTokens, Answer(r, a, d, t), UNCHANGED <<lock, exchange>>,
           minted' \in Nat, minted <= minted'
    PROVE  /\ LockInv' /\ RequestsInv'
           /\ \A x \in Contexts : refresh'[x].pc = "posted" => refresh'[x] = refresh[x]
           /\ \A x \in Contexts : Minted(x) => refresh'[x] = refresh[x]
           /\ \A x \in Contexts \ {r.from} : refresh'[x] = refresh[x]
<1>1. /\ requests' = requests \ {r} /\ r.from \in Contexts \cup {Nobody} /\ r.tok \in Tokens
      /\ r.from \in Contexts => /\ refresh'[r.from].pc = "served" /\ refresh'[r.from].answer = a
                                /\ refresh'[r.from].dev = d /\ refresh'[r.from].tok = t
      /\ \A x \in Contexts : x # r.from => refresh'[x] = refresh[x]
  BY AnswerEffect DEF AuthInv
<1>2. r.from \in Contexts => refresh[r.from].pc = "posted"
  BY Parameters DEF AuthInv, RequestsInv
<1>3. LockInv'
  BY <1>1, <1>2 DEF AuthInv, LockInv
<1>4. RequestsInv'
  <2>1. ASSUME NEW q \in requests'
        PROVE  /\ q.tok \in 1..minted'
               /\ q.from # Nobody => refresh'[q.from].pc = "posted" /\ refresh'[q.from].tok = q.tok
    <3>1. q \in requests /\ q # r /\ q.tok \in 1..minted
      BY <1>1 DEF AuthInv, RequestsInv
    <3>2. q.from # Nobody => q.from \in Contexts /\ q.from # r.from
      BY <3>1 DEF AuthInv, CoreTypes, RequestRec, RequestsInv
    <3>3. minted \in Nat
      BY DEF AuthInv, CoreTypes
    <3> QED BY <1>1, <3>1, <3>2, <3>3 DEF AuthInv, RequestsInv
  <2>2. ASSUME NEW p \in requests', NEW q \in requests', p.from = q.from, p.from # Nobody
        PROVE  p = q
    <3>1. p \in requests /\ q \in requests
      BY <1>1
    <3> QED BY <2>2, <3>1 DEF AuthInv, RequestsInv
  <2> QED BY <2>1, <2>2 DEF RequestsInv
<1>5. \A x \in Contexts : refresh'[x].pc = "posted" => refresh'[x] = refresh[x]
  BY <1>1
<1>6. \A x \in Contexts : Minted(x) => refresh'[x] = refresh[x]
  BY <1>1, <1>2 DEF Minted
<1> QED BY <1>1, <1>3, <1>4, <1>5, <1>6

(* An answer without a token: the device is found rotated, or is gone. *)
LEMMA AnswerKeeps ==
    ASSUME AuthInv, NEW r \in requests, NEW a \in {"rotated", "gone"}, Answer(r, a, 0, 0), NEW S, Revokes(S),
           stolen' \subseteq unseen, dbFailed' \in BOOLEAN, dbFailed => dbFailed',
           a = "gone" /\ r.from # Nobody =>
               stored = Nothing \/ devices'[stored.dev].state = "revoked" \/ dbFailed',
           UNCHANGED <<minted, stored, lock, exchange, unseen>>
    PROVE  AuthInv'
<1>0. a \in {"ok", "rotated", "gone"} /\ 0 \in 0..MaxExchanges /\ 0 \in 0..MaxTokens /\ CoreTypes
  BY Parameters DEF AuthInv
<1>1. /\ refresh' \in [Contexts -> RefreshRec] /\ requests' \subseteq RequestRec
      /\ requests' = requests \ {r} /\ r.from \in Contexts \cup {Nobody}
      /\ r.from \in Contexts => refresh'[r.from].pc = "served" /\ refresh'[r.from].answer = a
  BY <1>0, AnswerEffect
<1>2. /\ LockInv' /\ RequestsInv'
      /\ \A x \in Contexts : refresh'[x].pc = "posted" => refresh'[x] = refresh[x]
      /\ \A x \in Contexts : Minted(x) => refresh'[x] = refresh[x]
      /\ \A x \in Contexts \ {r.from} : refresh'[x] = refresh[x]
  <2>1. minted \in Nat
    BY DEF AuthInv, CoreTypes
  <2> QED BY <1>0, <2>1, Answered
<1>3. /\ devices' \in [Exchanges -> DeviceRec]
      /\ \A d \in Exchanges :
            /\ Same(d)
            /\ devices'[d].state = IF d \in S /\ devices[d].state = "live" THEN "revoked" ELSE devices[d].state
  BY RevokesEffect DEF AuthInv, CoreTypes
<1>4. CoreTypes'
  BY <1>1, <1>3 DEF AuthInv, CoreTypes
<1>5. ExchangesInv' /\ \A i \in Exchanges : Pending(i)' => Pending(i) /\ exchange'[i].tok = exchange[i].tok
  BY <1>3, <1>4, ExchangesKept
<1>6. \A x \in Contexts : Minted(x)' => refresh'[x] = refresh[x]
  BY <1>1, <1>2 DEF Minted
<1>7. \A x \in Contexts : Minted(x) => Minted(x)'
  BY <1>2 DEF Minted
<1>8. TokensInv' /\ StoredInv' /\ SecretInv' /\ TheftInv'
  <2>1. \A q \in requests' : \E p \in requests : p.tok = q.tok
    BY <1>1
  <2>2. unseen \subseteq unseen' /\ stolen' \subseteq unseen'
    OBVIOUS
  <2>3. \A x \in Contexts : Minted(x) /\ ~Minted(x)' => refresh[x].dev \in unseen'
    BY <1>7
  <2> QED BY <1>2, <1>3, <1>4, <1>5, <1>6, <2>1, <2>2, <2>3, Quiet
<1>9. GoneInv'
  <2>1. ASSUME NEW x \in Contexts, Leaving(x)'
        PROVE  stored' = Nothing \/ devices'[stored'.dev].state = "revoked" \/ dbFailed'
    <3>1. CASE x = r.from
      BY <1>1, <2>1, <3>1, Parameters DEF Leaving
    <3>2. CASE x # r.from
      <4>1. Leaving(x)
        BY <1>2, <2>1, <3>2 DEF Leaving
      <4>2. stored = Nothing \/ stored.dev \in Exchanges
        BY DEF AuthInv, StoredInv
      <4> QED BY <1>3, <4>1, <4>2 DEF AuthInv, GoneInv
    <3> QED BY <3>1, <3>2
  <2> QED BY <2>1 DEF GoneInv
<1>10. DevicesCapped'
  BY <1>3, CapKept DEF AuthInv
<1> QED BY <1>2, <1>4, <1>5, <1>8, <1>9, <1>10 DEF AuthInv

\* A token has one owner.
LEMMA OneOwner ==
    ASSUME AuthInv, NEW d \in Exchanges, NEW e \in Exchanges, Exists(d), Exists(e), NEW t, t # 0,
           t \in {devices[d].cur, devices[d].prev}, t \in {devices[e].cur, devices[e].prev}
    PROVE  d = e
BY DEF AuthInv, TokensInv

\* The token that is asked for is the one the storage has, if it has one.
LEMMA AskedIsStored ==
    ASSUME AuthInv, NEW r \in requests, r.from # Nobody, stored # Nothing
    PROVE  /\ stored.dev \in Exchanges /\ Exists(stored.dev) /\ r.tok # 0
           /\ r.tok \in {devices[stored.dev].cur, devices[stored.dev].prev}
<1>1. r.from \in Contexts /\ refresh[r.from].pc = "posted" /\ refresh[r.from].tok = r.tok
  BY DEF AuthInv, CoreTypes, RequestRec, RequestsInv
<1>2. stored = [dev |-> refresh[r.from].dev, tok |-> refresh[r.from].tok]
  BY <1>1 DEF AuthInv, StoredInv
<1>3. stored.tok = r.tok
  BY <1>1, <1>2
<1> QED BY <1>3 DEF AuthInv, StoredInv

LEMMA FoundKeeps ==
    ASSUME AuthInv, NEW r \in requests, requests' = (requests \ {r}) \cup {[r EXCEPT !.pc = "found"]},
           UNCHANGED <<devices, minted, stored, lock, refresh, exchange, unseen, stolen, dbFailed>>
    PROVE  AuthInv'
<1>1. [r EXCEPT !.pc = "found"] \in RequestRec /\ [r EXCEPT !.pc = "found"].from = r.from
      /\ [r EXCEPT !.pc = "found"].tok = r.tok
  BY DEF AuthInv, CoreTypes, RequestRec
<1>2. PICK new \in RequestRec : new = [r EXCEPT !.pc = "found"] /\ new.from = r.from /\ new.tok = r.tok
  BY <1>1
<1>3. requests' = (requests \ {r}) \cup {new}
  BY <1>2
<1>4. CoreTypes' /\ LockInv'
  BY <1>3 DEF AuthInv, CoreTypes, LockInv
<1>5. ExchangesInv' /\ \A i \in Exchanges : Pending(i)' => Pending(i) /\ exchange'[i].tok = exchange[i].tok
  BY <1>4, ExchangesKept, SameDevices
<1>6. RequestsInv'
  <2>1. ASSUME NEW q \in requests'
        PROVE  /\ q.tok \in 1..minted
               /\ q.from # Nobody => refresh[q.from].pc = "posted" /\ refresh[q.from].tok = q.tok
    <3>1. PICK p \in requests : p.from = q.from /\ p.tok = q.tok
      BY <1>2, <1>3
    <3> QED BY <3>1 DEF AuthInv, RequestsInv
  <2>2. ASSUME NEW p \in requests', NEW q \in requests', p.from = q.from, p.from # Nobody
        PROVE  p = q
    <3>1. p = new \/ (p \in requests /\ p # r)
      BY <1>3
    <3>2. q = new \/ (q \in requests /\ q # r)
      BY <1>3
    <3> QED BY <1>2, <2>2, <3>1, <3>2 DEF AuthInv, RequestsInv
  <2> QED BY <2>1, <2>2 DEF RequestsInv
<1>7. \A q \in requests' : \E p \in requests : p.tok = q.tok
  BY <1>2, <1>3
<1>8. \A x \in Contexts : (Minted(x)' <=> Minted(x)) /\ (Leaving(x)' <=> Leaving(x))
  BY DEF Minted, Leaving
<1>9. unseen \subseteq unseen' /\ stolen' \subseteq unseen'
  BY DEF AuthInv, TheftInv
<1>10. TokensInv' /\ StoredInv' /\ SecretInv' /\ TheftInv'
  BY <1>4, <1>5, <1>7, <1>8, <1>9, SameDevices, Quiet
<1>11. GoneInv' /\ DevicesCapped'
  BY <1>8, GoneKept, CapKept DEF AuthInv
<1> QED BY <1>4, <1>5, <1>6, <1>10, <1>11 DEF AuthInv

LEMMA LookUpKeeps ==
    ASSUME AuthInv, NEW r \in requests, LookUp(r)
    PROVE  AuthInv'
<1>1. UNCHANGED <<minted, stored, lock, exchange, unseen, dbFailed>> /\ dbFailed \in BOOLEAN /\ stolen \subseteq unseen
  BY DEF LookUp, storage, bounds, AuthInv, CoreTypes, TheftInv
<1>2. CASE requests' = (requests \ {r}) \cup {[r EXCEPT !.pc = "found"]} /\ UNCHANGED <<refresh, devices, stolen>>
  BY <1>1, <1>2, FoundKeeps
<1>3. ASSUME NEW d \in Exchanges, \A e \in Exchanges : ~Holds(e, r.tok), Replaced(d, r.tok), devices[d].recent,
             Answer(r, "rotated", 0, 0), UNCHANGED <<devices, stolen>>
      PROVE  AuthInv'
  <2>1. Revokes({})
    BY <1>3, RevokesNone DEF AuthInv, CoreTypes
  <2> QED BY <1>1, <1>3, <2>1, AnswerKeeps
<1>4. ASSUME NEW d \in Exchanges, \A e \in Exchanges : ~Holds(e, r.tok), Replaced(d, r.tok), ~devices[d].recent,
             Answer(r, "gone", 0, 0), devices' = [devices EXCEPT ![d] = Revoked(devices[d])],
             stolen' = stolen \cup {d}
      PROVE  AuthInv'
  <2>1. Revokes({d})
    BY <1>4, RevokesOne DEF AuthInv, CoreTypes
  <2>2. Exists(d) /\ devices[d].prev = r.tok /\ devices[d].state = "live"
    BY <1>4 DEF Replaced, Exists
  <2>3. stolen' \subseteq unseen
    BY <1>1, <1>4, <2>2 DEF AuthInv, TheftInv
  <2>4. r.from # Nobody => stored = Nothing \/ devices'[stored.dev].state = "revoked" \/ dbFailed'
    <3>1. SUFFICES ASSUME r.from # Nobody, stored # Nothing
                   PROVE  devices'[stored.dev].state = "revoked"
      OBVIOUS
    <3>2. /\ stored.dev \in Exchanges /\ Exists(stored.dev) /\ r.tok # 0
          /\ r.tok \in {devices[stored.dev].cur, devices[stored.dev].prev}
      BY <3>1, AskedIsStored
    <3>3. d = stored.dev
      BY <2>2, <3>2, OneOwner
    <3> QED BY <2>1, <2>2, <3>3, RevokesEffect DEF AuthInv, CoreTypes
  <2> QED BY <1>1, <1>4, <2>1, <2>3, <2>4, AnswerKeeps
<1>5. ASSUME \/ \E d \in Exchanges : Holds(d, r.tok) /\ devices[d].state = "revoked"
             \/ \A d \in Exchanges : ~Holds(d, r.tok) /\ ~Replaced(d, r.tok),
             Answer(r, "gone", 0, 0), UNCHANGED <<devices, stolen>>
      PROVE  AuthInv'
  <2>1. Revokes({})
    BY <1>5, RevokesNone DEF AuthInv, CoreTypes
  <2>2. r.from # Nobody => stored = Nothing \/ devices'[stored.dev].state = "revoked" \/ dbFailed'
    <3>1. SUFFICES ASSUME r.from # Nobody, stored # Nothing
                   PROVE  devices[stored.dev].state = "revoked"
      BY <1>5
    <3>2. /\ stored.dev \in Exchanges /\ Exists(stored.dev) /\ r.tok # 0
          /\ r.tok \in {devices[stored.dev].cur, devices[stored.dev].prev}
      BY <3>1, AskedIsStored
    <3>3. ASSUME NEW d \in Exchanges, Holds(d, r.tok), devices[d].state = "revoked"
          PROVE  devices[stored.dev].state = "revoked"
      <4>1. Exists(d) /\ r.tok = devices[d].cur
        BY <3>3 DEF Holds, Exists
      <4>2. d = stored.dev
        BY <3>2, <4>1, OneOwner
      <4> QED BY <3>3, <4>2
    <3>4. CASE \A d \in Exchanges : ~Holds(d, r.tok) /\ ~Replaced(d, r.tok)
      <4>1. devices[stored.dev].state \in {"none", "live", "revoked"}
        BY <3>2 DEF AuthInv, CoreTypes, DeviceRec
      <4> QED BY <3>2, <3>4, <4>1 DEF Holds, Replaced, Exists
    <3> QED BY <1>5, <3>3, <3>4
  <2> QED BY <1>1, <1>5, <2>1, <2>2, AnswerKeeps
<1> QED BY <1>2, <1>3, <1>4, <1>5, Zenon DEF LookUp

LEMMA DbFailsKeeps ==
    ASSUME AuthInv, NEW r \in requests, DbFails(r)
    PROVE  AuthInv'
<1>1. /\ UNCHANGED <<devices, minted, stored, lock, exchange, unseen, stolen>>
      /\ Answer(r, "gone", 0, 0)
  BY DEF DbFails, server, storage
<1>2. dbFailed'
  BY Zenon DEF DbFails
<1>3. dbFailed' \in BOOLEAN
  BY Zenon DEF DbFails
<1>4. Revokes({})
  BY <1>1, RevokesNone DEF AuthInv, CoreTypes
<1>5. stolen' \subseteq unseen
  BY <1>1 DEF AuthInv, TheftInv
<1> QED BY <1>1, <1>2, <1>3, <1>4, <1>5, AnswerKeeps

LEMMA DeviceSet ==
    ASSUME NEW d \in Exchanges, devices \in [Exchanges -> DeviceRec], NEW v \in DeviceRec,
           devices' = [devices EXCEPT ![d] = v]
    PROVE  /\ devices' \in [Exchanges -> DeviceRec] /\ devices'[d] = v
           /\ \A x \in Exchanges : x # d => devices'[x] = devices[x]
OBVIOUS

RotatedTo(old, t, p) == [old EXCEPT !.cur = t, !.prev = p, !.recent = TRUE]

LEMMA RotatedTyped ==
    ASSUME NEW old \in DeviceRec, NEW t \in 0..MaxTokens, NEW p \in 0..MaxTokens
    PROVE  /\ RotatedTo(old, t, p) \in DeviceRec /\ RotatedTo(old, t, p).cur = t /\ RotatedTo(old, t, p).prev = p
           /\ RotatedTo(old, t, p).recent /\ RotatedTo(old, t, p).state = old.state
<1>1. PICK yes \in BOOLEAN : yes = TRUE
  OBVIOUS
<1>2. /\ [old EXCEPT !.cur = t, !.prev = p, !.recent = yes] \in DeviceRec
      /\ [old EXCEPT !.cur = t, !.prev = p, !.recent = yes].cur = t
      /\ [old EXCEPT !.cur = t, !.prev = p, !.recent = yes].prev = p
      /\ [old EXCEPT !.cur = t, !.prev = p, !.recent = yes].recent = yes
      /\ [old EXCEPT !.cur = t, !.prev = p, !.recent = yes].state = old.state
  BY DEF DeviceRec
<1> QED BY <1>1, <1>2, Zenon DEF RotatedTo

LEMMA RotatedEffect ==
    ASSUME devices \in [Exchanges -> DeviceRec], NEW d \in Exchanges, NEW t \in 0..MaxTokens,
           devices' = [devices EXCEPT ![d] = RotatedTo(devices[d], t, devices[d].cur)]
    PROVE  /\ devices' \in [Exchanges -> DeviceRec]
           /\ devices'[d].cur = t /\ devices'[d].prev = devices[d].cur /\ devices'[d].recent
           /\ devices'[d].state = devices[d].state
           /\ \A e \in Exchanges : e # d => devices'[e] = devices[e]
<1>1. PICK old \in DeviceRec : old = devices[d]
  OBVIOUS
<1>2. PICK p \in 0..MaxTokens : p = old.cur
  BY <1>1 DEF DeviceRec
<1>3. PICK new \in DeviceRec : new = RotatedTo(old, t, p)
  BY <1>1, <1>2, RotatedTyped
<1>4. new.cur = t /\ new.prev = p /\ new.recent /\ new.state = old.state
  BY <1>1, <1>2, <1>3, RotatedTyped
<1>5. devices' = [devices EXCEPT ![d] = new]
  BY <1>1, <1>2, <1>3
<1>6. /\ devices' \in [Exchanges -> DeviceRec] /\ devices'[d] = new
      /\ \A e \in Exchanges : e # d => devices'[e] = devices[e]
  BY <1>3, <1>5, DeviceSet
<1> QED BY <1>1, <1>2, <1>4, <1>6

(* The rotation: the token becomes the one before, and the new one is known to its answer only. *)
LEMMA RotateKeeps ==
    ASSUME AuthInv, NEW r \in requests, NEW d \in Exchanges, minted < MaxTokens, minted' = minted + 1, Rotates(d, r),
           devices' = [devices EXCEPT ![d] = [devices[d] EXCEPT !.cur = minted + 1,
                                                  !.prev = devices[d].cur, !.recent = TRUE]],
           Answer(r, "ok", d, minted + 1),
           unseen' = IF r.from = Nobody THEN unseen \cup {d} ELSE unseen,
           UNCHANGED <<stored, lock, exchange, stolen, dbFailed>>
    PROVE  AuthInv'
<1>1. /\ minted \in Nat /\ minted + 1 \in 0..MaxTokens /\ d \in 0..MaxExchanges /\ CoreTypes
      /\ devices[d] \in DeviceRec
  BY Parameters DEF AuthInv, CoreTypes
<1>2. /\ devices' \in [Exchanges -> DeviceRec]
      /\ devices'[d].cur = minted + 1 /\ devices'[d].prev = devices[d].cur /\ devices'[d].recent
      /\ devices'[d].state = devices[d].state
      /\ \A e \in Exchanges : e # d => devices'[e] = devices[e]
  <2>1. devices' = [devices EXCEPT ![d] = RotatedTo(devices[d], minted + 1, devices[d].cur)]
    BY Zenon DEF RotatedTo
  <2>2. PICK t \in 0..MaxTokens : t = minted + 1
    BY <1>1
  <2>3. devices' = [devices EXCEPT ![d] = RotatedTo(devices[d], t, devices[d].cur)]
    BY <2>1, <2>2, Zenon
  <2> QED BY <2>2, <2>3, RotatedEffect DEF AuthInv, CoreTypes
<1>3. /\ refresh' \in [Contexts -> RefreshRec] /\ requests' \subseteq RequestRec
      /\ requests' = requests \ {r} /\ r.from \in Contexts \cup {Nobody}
      /\ r.from \in Contexts => /\ refresh'[r.from].pc = "served" /\ refresh'[r.from].answer = "ok"
                                /\ refresh'[r.from].dev = d /\ refresh'[r.from].tok = minted + 1
      /\ \A x \in Contexts : x # r.from => refresh'[x] = refresh[x]
  BY <1>1, AnswerEffect
<1>4. /\ LockInv' /\ RequestsInv'
      /\ \A x \in Contexts : refresh'[x].pc = "posted" => refresh'[x] = refresh[x]
      /\ \A x \in Contexts : Minted(x) => refresh'[x] = refresh[x]
  <2>1. minted' \in Nat /\ minted <= minted'
    BY <1>1
  <2> QED BY <1>1, <2>1, Answered
<1>5. CoreTypes'
  BY <1>1, <1>2, <1>3 DEF CoreTypes
<1>6. Exists(d) /\ devices[d].cur = r.tok /\ r.tok \in 1..minted /\ devices[d].state = "live"
  BY DEF Rotates, Holds, Exists, AuthInv, RequestsInv
<1>7. \A e \in Exchanges : Exists(e) => devices[e].cur \in 1..minted /\ devices[e].prev \in 0..minted
  BY DEF AuthInv, TokensInv
<1>8. \A e \in Exchanges : (Exists(e)' <=> Exists(e)) /\ devices'[e].state = devices[e].state
  BY <1>2 DEF Exists
<1>9. TokensInv'
  <2>1. ASSUME NEW e \in Exchanges
        PROVE  /\ ~Exists(e)' => devices'[e] = NoDevice
               /\ Exists(e)' => devices'[e].cur \in 1..minted' /\ devices'[e].prev \in 0..minted'
                                /\ devices'[e].prev # devices'[e].cur
    <3>1. CASE e = d
      BY <1>1, <1>2, <1>6, <1>8, <3>1
    <3>2. CASE e # d
      BY <1>1, <1>2, <1>8, <3>2 DEF AuthInv, TokensInv
    <3> QED BY <3>1, <3>2
  <2>2. ASSUME NEW e \in Exchanges, NEW f \in Exchanges, e # f, Exists(e)'
        PROVE  /\ devices'[e].cur \notin {devices'[f].cur, devices'[f].prev}
               /\ devices'[e].prev # 0 => devices'[e].prev # devices'[f].prev
    <3>1. Exists(e) /\ devices[e].cur \notin {devices[f].cur, devices[f].prev}
          /\ (devices[e].prev # 0 => devices[e].prev # devices[f].prev)
      BY <1>8, <2>2 DEF AuthInv, TokensInv
    <3>2. Exists(f) => devices[f].cur \notin {devices[e].cur, devices[e].prev}
      BY <2>2 DEF AuthInv, TokensInv
    <3>3. ~Exists(f) => devices[f].cur = 0 /\ devices[f].prev = 0
      BY DEF AuthInv, TokensInv, NoDevice
    <3>4. CASE e = d
      <4>1. devices'[f] = devices[f]
        BY <1>2, <2>2, <3>4
      <4>2. devices[f].cur \in 0..minted /\ devices[f].prev \in 0..minted
        BY <1>1, <1>7, <3>3
      <4> QED BY <1>1, <1>2, <3>1, <3>4, <4>1, <4>2
    <3>5. CASE f = d
      <4>1. devices'[e] = devices[e]
        BY <1>2, <2>2, <3>5
      <4>2. devices[e].cur \in 1..minted /\ devices[e].prev \in 0..minted
        BY <1>7, <3>1
      <4> QED BY <1>1, <1>2, <1>6, <3>1, <3>2, <3>5, <4>1, <4>2
    <3>6. CASE e # d /\ f # d
      BY <1>2, <3>1, <3>6
    <3> QED BY <3>4, <3>5, <3>6
  <2> QED BY <2>1, <2>2 DEF TokensInv
<1>10. ASSUME NEW i \in Exchanges, Pending(i)
       PROVE  i # d
  <2>1. devices[i].cur = exchange[i].tok /\ exchange[i].tok # r.tok
    BY <1>10 DEF AuthInv, ExchangesInv, SecretInv
  <2> QED BY <1>6, <2>1
<1>11. ExchangesInv' /\ \A i \in Exchanges : Pending(i)' <=> Pending(i)
  <2>1. \A i \in Exchanges : Pending(i)' <=> Pending(i)
    BY DEF Pending
  <2>2. \A i \in Exchanges : Pending(i) => devices'[i] = devices[i]
    BY <1>2, <1>10
  <2> QED BY <1>8, <2>1, <2>2 DEF AuthInv, ExchangesInv
<1>12. \A x \in Contexts : Minted(x) => refresh'[x] = refresh[x] /\ refresh[x].dev # d
  <2>1. ASSUME NEW x \in Contexts, Minted(x)
        PROVE  refresh[x].dev # d
    <3>1. devices[refresh[x].dev].cur = refresh[x].tok /\ refresh[x].tok # r.tok
      BY <2>1 DEF AuthInv, SecretInv
    <3> QED BY <1>6, <3>1
  <2> QED BY <1>4, <2>1
<1>13. \A x \in Contexts : Minted(x)' => Minted(x) \/ (x = r.from /\ refresh'[x].dev = d /\ refresh'[x].tok = minted + 1)
  BY <1>3 DEF Minted
<1>14. stored.tok \in 0..minted /\ (stored = Nothing \/ stored.dev \in Exchanges)
  <2>1. CASE stored = Nothing
    BY <1>1, <2>1 DEF Nothing
  <2>2. CASE stored # Nothing
    BY <1>1, <1>7, <2>2 DEF AuthInv, StoredInv
  <2> QED BY <2>1, <2>2
<1>15. StoredInv'
  <2>1. stored # Nothing => /\ stored.dev \in Exchanges /\ devices'[stored.dev].state # "none" /\ stored.tok # 0
                            /\ stored.tok \in {devices'[stored.dev].cur, devices'[stored.dev].prev}
    <3>1. SUFFICES ASSUME stored # Nothing
                   PROVE  /\ stored.dev \in Exchanges /\ devices'[stored.dev].state # "none" /\ stored.tok # 0
                          /\ stored.tok \in {devices'[stored.dev].cur, devices'[stored.dev].prev}
      OBVIOUS
    <3>2. /\ stored.dev \in Exchanges /\ Exists(stored.dev) /\ stored.tok # 0
          /\ stored.tok \in {devices[stored.dev].cur, devices[stored.dev].prev}
      BY <3>1 DEF AuthInv, StoredInv
    <3>3. CASE stored.dev = d
      <4>1. stored.tok = devices[d].cur
        BY <1>6, <3>3 DEF AuthInv, StoredInv
      <4> QED BY <1>2, <1>6, <3>2, <3>3, <4>1 DEF Exists
    <3>4. CASE stored.dev # d
      BY <1>2, <3>2, <3>4 DEF Exists
    <3> QED BY <3>3, <3>4
  <2>2. ASSUME NEW x \in Contexts, refresh'[x].pc = "posted"
        PROVE  stored = Nothing \/ stored = [dev |-> refresh'[x].dev, tok |-> refresh'[x].tok]
    <3>1. refresh'[x] = refresh[x]
      BY <1>4, <2>2
    <3> QED BY <2>2, <3>1 DEF AuthInv, StoredInv
  <2>3. ASSUME NEW q \in requests', NEW e \in Exchanges, stored.dev = e, q.tok = devices'[e].cur
        PROVE  stored.tok = q.tok
    <3>1. q \in requests /\ q.tok \in 1..minted
      BY <1>3 DEF AuthInv, RequestsInv
    <3>2. e # d
      BY <1>1, <1>2, <2>3, <3>1
    <3> QED BY <1>2, <2>3, <3>1, <3>2 DEF AuthInv, StoredInv
  <2> QED BY <2>1, <2>2, <2>3 DEF StoredInv, Exists
<1>16. SecretInv'
  <2>1. ASSUME NEW x \in Contexts, Minted(x)'
        PROVE  /\ refresh'[x].dev \in Exchanges /\ devices'[refresh'[x].dev].state # "none"
               /\ devices'[refresh'[x].dev].cur = refresh'[x].tok
               /\ stored.tok # refresh'[x].tok /\ \A q \in requests' : q.tok # refresh'[x].tok
               /\ \A i \in Exchanges : Pending(i)' => refresh'[x].dev # i
    <3>1. CASE Minted(x)
      <4>1. refresh'[x] = refresh[x] /\ refresh[x].dev # d
        BY <1>12, <3>1
      <4>2. /\ refresh[x].dev \in Exchanges /\ Exists(refresh[x].dev)
            /\ devices[refresh[x].dev].cur = refresh[x].tok
            /\ stored.tok # refresh[x].tok /\ \A q \in requests : q.tok # refresh[x].tok
            /\ \A i \in Exchanges : Pending(i) => refresh[x].dev # i
        BY <3>1 DEF AuthInv, SecretInv
      <4>3. devices'[refresh[x].dev] = devices[refresh[x].dev]
        BY <1>2, <4>1, <4>2
      <4> QED BY <1>3, <1>11, <4>1, <4>2, <4>3 DEF Exists
    <3>2. CASE ~Minted(x)
      <4>1. refresh'[x].dev = d /\ refresh'[x].tok = minted + 1
        BY <1>13, <2>1, <3>2
      <4>2. stored.tok # minted + 1 /\ \A q \in requests' : q.tok # minted + 1
        BY <1>1, <1>3, <1>14 DEF AuthInv, RequestsInv
      <4> QED BY <1>2, <1>6, <1>10, <1>11, <4>1, <4>2 DEF Exists
    <3> QED BY <3>1, <3>2
  <2>2. ASSUME NEW i \in Exchanges, Pending(i)'
        PROVE  stored.tok # exchange[i].tok /\ \A q \in requests' : q.tok # exchange[i].tok
    BY <1>3, <1>11, <2>2 DEF AuthInv, SecretInv
  <2> QED BY <2>1, <2>2 DEF SecretInv, Exists
<1>17. TheftInv'
  <2>1. ASSUME NEW e \in Exchanges, Exists(e)', devices'[e].prev # 0, stored.tok = devices'[e].prev
        PROVE  e \in unseen' \/ \E x \in Contexts : Minted(x)' /\ refresh'[x].dev = e
    <3>1. CASE e = d
      BY <1>3, <3>1 DEF Minted
    <3>2. CASE e # d
      <4>1. e \in unseen \/ \E x \in Contexts : Minted(x) /\ refresh[x].dev = e
        BY <1>2, <1>8, <2>1, <3>2 DEF AuthInv, TheftInv
      <4>2. \A x \in Contexts : Minted(x) => Minted(x)'
        BY <1>12 DEF Minted
      <4> QED BY <1>12, <4>1, <4>2
    <3> QED BY <3>1, <3>2
  <2>2. ASSUME NEW q \in requests', NEW e \in Exchanges, Exists(e)', q.tok = devices'[e].prev
        PROVE  devices'[e].recent \/ e \in unseen'
    <3>1. CASE e = d
      BY <1>2, <3>1
    <3>2. CASE e # d
      <4>1. devices'[e] = devices[e] /\ q \in requests
        BY <1>2, <1>3, <3>2
      <4>2. devices[e].recent \/ e \in unseen
        BY <1>8, <2>2, <4>1 DEF AuthInv, TheftInv
      <4> QED BY <4>1, <4>2
    <3> QED BY <3>1, <3>2
  <2>3. stolen' \subseteq unseen'
    BY DEF AuthInv, TheftInv
  <2> QED BY <2>1, <2>2, <2>3 DEF TheftInv
<1>18. \A x \in Contexts : Leaving(x)' => Leaving(x)
  BY <1>3 DEF Leaving
<1>19. GoneInv' /\ DevicesCapped'
  BY <1>8, <1>18, GoneKept, CapKept DEF AuthInv
<1> QED BY <1>4, <1>5, <1>9, <1>11, <1>15, <1>16, <1>17, <1>19 DEF AuthInv

-----------------------------------------------------------------------------
(* The steps of a refresh that post nothing, and those of the exchanges *)

LEMMA PcTyped ==
    ASSUME NEW old \in RefreshRec, NEW p \in {"half", "sleep", "clear"}
    PROVE  [old EXCEPT !.pc = p] \in RefreshRec /\ [old EXCEPT !.pc = p].pc = p
BY DEF RefreshRec

LEMMA AnswerTyped ==
    ASSUME NEW old \in RefreshRec
    PROVE  [old EXCEPT !.answer = "none"] \in RefreshRec /\ [old EXCEPT !.answer = "none"].pc = old.pc
BY DEF RefreshRec

LEMMA PcEffect ==
    ASSUME refresh \in [Contexts -> RefreshRec], NEW c \in Contexts, NEW p \in {"half", "sleep", "clear"},
           \/ refresh' = [refresh EXCEPT ![c].pc = p]
           \/ refresh' = [refresh EXCEPT ![c].pc = p, ![c].answer = "none"]
    PROVE  /\ refresh' \in [Contexts -> RefreshRec] /\ refresh'[c].pc = p
           /\ \A x \in Contexts : x # c => refresh'[x] = refresh[x]
<1>1. PICK old \in RefreshRec : old = refresh[c]
  OBVIOUS
<1>2. PICK one \in RefreshRec : one = [old EXCEPT !.pc = p]
  BY <1>1, PcTyped
<1>3. PICK two \in RefreshRec : two = [one EXCEPT !.answer = "none"]
  BY <1>2, AnswerTyped
<1>4. one.pc = p /\ two.pc = p
  BY <1>1, <1>2, <1>3, PcTyped, AnswerTyped
<1>5. refresh' = [refresh EXCEPT ![c] = one] \/ refresh' = [refresh EXCEPT ![c] = two]
  BY <1>1, <1>2, <1>3
<1> QED BY <1>2, <1>3, <1>4, <1>5, RefreshSet

(* Nothing is asked, answered, stored or minted. *)
LEMMA Calm ==
    ASSUME AuthInv, CoreTypes', LockInv', ExchangesInv', DevicesCapped', NEW S, Revokes(S),
           \A i \in Exchanges : Pending(i)' => Pending(i) /\ exchange'[i].tok = exchange[i].tok,
           \A x \in Contexts : refresh'[x].pc = "posted" \/ refresh[x].pc = "posted" => refresh'[x] = refresh[x],
           \A x \in Contexts : Minted(x)' \/ Minted(x) => refresh'[x] = refresh[x],
           \A x \in Contexts : Leaving(x)' => Leaving(x),
           UNCHANGED <<minted, requests, stored, unseen, stolen, dbFailed>>
    PROVE  AuthInv'
<1>1. \A d \in Exchanges :
          /\ Same(d)
          /\ devices'[d].state = IF d \in S /\ devices[d].state = "live" THEN "revoked" ELSE devices[d].state
  BY RevokesEffect DEF AuthInv, CoreTypes
<1>2. RequestsInv'
  <2>1. ASSUME NEW r \in requests, r.from # Nobody
        PROVE  refresh'[r.from].pc = "posted" /\ refresh'[r.from].tok = r.tok
    <3>1. r.from \in Contexts /\ refresh[r.from].pc = "posted" /\ refresh[r.from].tok = r.tok
      BY <2>1 DEF AuthInv, CoreTypes, RequestRec, RequestsInv
    <3> QED BY <3>1
  <2> QED BY <2>1 DEF AuthInv, RequestsInv
<1>3. \A x \in Contexts : Minted(x) => Minted(x)'
  BY DEF Minted
<1>4. unseen \subseteq unseen' /\ stolen' \subseteq unseen' /\ \A q \in requests' : \E r \in requests : r.tok = q.tok
  BY DEF AuthInv, TheftInv
<1>5. TokensInv' /\ StoredInv' /\ SecretInv' /\ TheftInv'
  <2>1. \A d \in Exchanges : Same(d)
    BY <1>1
  <2>2. \A x \in Contexts : Minted(x) /\ ~Minted(x)' => refresh[x].dev \in unseen'
    BY <1>3
  <2> QED BY <1>4, <2>1, <2>2, Quiet
<1>6. GoneInv'
  BY <1>1, GoneKept
<1> QED BY <1>2, <1>5, <1>6 DEF AuthInv

(* A refresh pauses, or begins to forget: it has been answered, but not with a token. *)
LEMMA PcKeeps ==
    ASSUME AuthInv, NEW c \in Contexts, NEW p \in {"sleep", "clear"},
           \/ refresh' = [refresh EXCEPT ![c].pc = p]
           \/ refresh' = [refresh EXCEPT ![c].pc = p, ![c].answer = "none"],
           refresh[c].pc = "served", refresh[c].answer # "ok", p = "clear" => Leaving(c),
           UNCHANGED <<devices, minted, requests, stored, lock, exchange, unseen, stolen, dbFailed>>
    PROVE  AuthInv'
<1>1. /\ refresh' \in [Contexts -> RefreshRec] /\ refresh'[c].pc = p
      /\ \A x \in Contexts : x # c => refresh'[x] = refresh[x]
  BY PcEffect DEF AuthInv, CoreTypes
<1>2. CoreTypes' /\ LockInv'
  BY <1>1 DEF AuthInv, CoreTypes, LockInv
<1>3. ExchangesInv' /\ \A i \in Exchanges : Pending(i)' => Pending(i) /\ exchange'[i].tok = exchange[i].tok
  BY <1>2, ExchangesKept, SameDevices
<1>4. DevicesCapped'
  BY CapKept DEF AuthInv
<1>5. Revokes({})
  BY RevokesNone DEF AuthInv, CoreTypes
<1>6. \A x \in Contexts : refresh'[x].pc = "posted" \/ refresh[x].pc = "posted" => refresh'[x] = refresh[x]
  BY <1>1
<1>7. \A x \in Contexts : Minted(x)' \/ Minted(x) => refresh'[x] = refresh[x]
  BY <1>1 DEF Minted
<1>8. \A x \in Contexts : Leaving(x)' => Leaving(x)
  BY <1>1 DEF Leaving
<1> QED BY <1>2, <1>3, <1>4, <1>5, <1>6, <1>7, <1>8, Calm

LEMMA ExchangeSet ==
    ASSUME NEW i \in Exchanges, exchange \in [Exchanges -> ExchangeRec], NEW v \in ExchangeRec,
           exchange' = [exchange EXCEPT ![i] = v]
    PROVE  /\ exchange' \in [Exchanges -> ExchangeRec] /\ exchange'[i] = v
           /\ \A x \in Exchanges : x # i => exchange'[x] = exchange[x]
OBVIOUS

(* A step of the exchanges that stores nothing and creates no device. *)
LEMMA ExchangeKeeps ==
    ASSUME AuthInv, exchange' \in [Exchanges -> ExchangeRec], LockInv', lock' \in Contexts \cup Exchanges \cup {Nobody},
           ExchangesInv', DevicesCapped', NEW S, Revokes(S),
           \A i \in Exchanges : Pending(i)' => Pending(i) /\ exchange'[i].tok = exchange[i].tok,
           UNCHANGED <<minted, requests, stored, refresh, unseen, stolen, dbFailed>>
    PROVE  AuthInv'
<1>1. devices' \in [Exchanges -> DeviceRec]
  BY RevokesEffect DEF AuthInv, CoreTypes
<1>2. CoreTypes'
  BY <1>1 DEF AuthInv, CoreTypes
<1>3. \A x \in Contexts : (Minted(x)' <=> Minted(x)) /\ (Leaving(x)' <=> Leaving(x))
  BY DEF Minted, Leaving
<1> QED BY <1>2, <1>3, Calm

Before == {"none", "sent", "checked", "marked"}

(* An exchange moves on, at the server before its device is made, or at the client. *)
LEMMA ExchangeMoves ==
    ASSUME AuthInv, NEW i \in Exchanges, NEW v \in ExchangeRec, exchange' = [exchange EXCEPT ![i] = v],
           v.tok = exchange[i].tok,
           \/ v.client \in {exchange[i].client, "done"}
           \/ v.client = "waiting" /\ exchange[i].tok = 0,
           v.server = exchange[i].server \/ (exchange[i].server \in Before /\ v.server \in Before \cup {"over"}),
           LockInv', lock' \in Contexts \cup Exchanges \cup {Nobody},
           UNCHANGED <<devices, minted, requests, stored, refresh, unseen, stolen, dbFailed>>
    PROVE  AuthInv'
<1>1. /\ exchange' \in [Exchanges -> ExchangeRec] /\ exchange'[i] = v
      /\ \A x \in Exchanges : x # i => exchange'[x] = exchange[x]
  BY ExchangeSet DEF AuthInv, CoreTypes
<1>2. \A x \in Exchanges : Pending(x)' => Pending(x) /\ exchange'[x].tok = exchange[x].tok
  BY <1>1 DEF Pending
<1>3. ExchangesInv'
  <2>1. ASSUME NEW x \in Exchanges
        PROVE  /\ exchange'[x].server \in Before => ~Exists(x) /\ exchange'[x].tok = 0
               /\ exchange'[x].client = "answered" => Pending(x)'
               /\ exchange'[x].client \in {"answered", "half"} => exchange'[x].server \in {"over", "uncapped"}
               /\ exchange'[x].server = "created" => exchange'[x].tok # 0
               /\ Pending(x)' => Exists(x) /\ devices[x].cur = exchange'[x].tok /\ devices[x].prev = 0
    <3>1. /\ exchange[x].server \in Before => ~Exists(x) /\ exchange[x].tok = 0
          /\ exchange[x].client = "answered" => Pending(x)
          /\ exchange[x].client \in {"answered", "half"} => exchange[x].server \in {"over", "uncapped"}
          /\ exchange[x].server = "created" => exchange[x].tok # 0
          /\ Pending(x) => Exists(x) /\ devices[x].cur = exchange[x].tok /\ devices[x].prev = 0
      BY DEF AuthInv, ExchangesInv, Before
    <3>2. CASE x # i
      BY <1>1, <3>1, <3>2 DEF Pending
    <3>3. CASE x = i
      <4>1. exchange'[x].client = "answered" => exchange[x].client = "answered"
        BY <1>1, <3>3
      <4>2. exchange'[x].client = "answered" => Pending(x)'
        BY <1>1, <3>1, <3>3, <4>1 DEF Pending
      <4>3. exchange'[x].server \in Before => exchange[x].server \in Before
        BY <1>1, <3>3
      <4>4. exchange'[x].server = "created" => exchange[x].server = "created"
        BY <1>1, <3>3 DEF Before
      <4>5. exchange'[x].client \in {"answered", "half"} => exchange'[x].server \in {"over", "uncapped"}
        BY <1>1, <3>1, <3>3 DEF Before
      <4> QED BY <1>1, <1>2, <3>1, <3>3, <4>2, <4>3, <4>4, <4>5
    <3> QED BY <3>2, <3>3
  <2> QED BY <2>1 DEF ExchangesInv, Before, Exists
<1>4. DevicesCapped'
  <2>1. \A x \in Exchanges : exchange[x].server \in Counting => exchange'[x].server \in Counting
    BY <1>1 DEF Before, Counting
  <2> QED BY <2>1, CapKept DEF AuthInv
<1>5. Revokes({})
  BY RevokesNone DEF AuthInv, CoreTypes
<1> QED BY <1>1, <1>2, <1>3, <1>4, <1>5, ExchangeKeeps

LEMMA ExchangeFields ==
    ASSUME NEW old \in ExchangeRec
    PROVE  /\ \A s \in {"checked", "marked", "over"} :
                 /\ [old EXCEPT !.server = s] \in ExchangeRec /\ [old EXCEPT !.server = s].server = s
                 /\ [old EXCEPT !.server = s].client = old.client /\ [old EXCEPT !.server = s].tok = old.tok
           /\ \A s \in {"half", "done"} :
                 /\ [old EXCEPT !.client = s] \in ExchangeRec /\ [old EXCEPT !.client = s].client = s
                 /\ [old EXCEPT !.client = s].server = old.server /\ [old EXCEPT !.client = s].tok = old.tok
BY DEF ExchangeRec

Started(old, h, d) == [old EXCEPT !.client = "waiting", !.server = "sent", !.ext = h, !.prev = d]

LEMMA StartedTyped ==
    ASSUME NEW old \in ExchangeRec, NEW h \in Handshakes, NEW d \in 0..MaxExchanges
    PROVE  /\ Started(old, h, d) \in ExchangeRec
           /\ Started(old, h, d).client = "waiting" /\ Started(old, h, d).server = "sent"
           /\ Started(old, h, d).tok = old.tok
BY DEF Started, ExchangeRec

LEMMA NoExchangeTyped == NoExchange \in ExchangeRec
BY Parameters DEF NoExchange, ExchangeRec

LEMMA ConnectKeeps ==
    ASSUME AuthInv, NEW i \in Exchanges, NEW h \in Handshakes, ConnectWithHandshake(i, h)
    PROVE  AuthInv'
<1>1. /\ UNCHANGED <<devices, minted, requests, stored, lock, refresh, unseen, stolen, dbFailed>>
      /\ exchange[i] = NoExchange
      /\ exchange' = [exchange EXCEPT ![i] = [NoExchange EXCEPT !.client = "waiting", !.server = "sent",
                                                                !.ext = h, !.prev = stored.dev]]
  BY DEF ConnectWithHandshake, server, bounds
<1>2. PICK v \in ExchangeRec : v = Started(NoExchange, h, stored.dev)
  BY StartedTyped, NoExchangeTyped DEF AuthInv, CoreTypes
<1>3. v.client = "waiting" /\ v.server = "sent" /\ v.tok = 0
  <2>1. stored.dev \in 0..MaxExchanges /\ NoExchange.tok = 0
    BY DEF AuthInv, CoreTypes, NoExchange
  <2> QED BY <1>2, <2>1, StartedTyped, NoExchangeTyped
<1>4. exchange[i].tok = 0 /\ exchange[i].server = "none" /\ exchange[i].client = "none"
  BY <1>1 DEF NoExchange
<1>6. exchange' = [exchange EXCEPT ![i] = v]
  BY <1>1, <1>2 DEF Started
<1>7. /\ exchange'[i] = v /\ \A x \in Exchanges : x # i => exchange'[x] = exchange[x]
  BY <1>3, <1>6, ExchangeSet DEF AuthInv, CoreTypes
<1>8. LockInv' /\ lock' \in Contexts \cup Exchanges \cup {Nobody}
  BY <1>1, <1>3, <1>4, <1>7 DEF AuthInv, CoreTypes, LockInv
<1>9. v.tok = exchange[i].tok /\ v.client = "waiting" /\ exchange[i].server \in Before /\ v.server \in Before \cup {"over"}
  BY <1>3, <1>4 DEF Before
<1> QED BY <1>1, <1>3, <1>4, <1>6, <1>8, <1>9, ExchangeMoves

(* The lock is not concerned by an exchange that is not between its two writes. *)
LEMMA LockApart ==
    ASSUME AuthInv, NEW i \in Exchanges, NEW v \in ExchangeRec, exchange' = [exchange EXCEPT ![i] = v],
           exchange[i].client # "half", v.client # "half", UNCHANGED <<lock, refresh>>
    PROVE  LockInv' /\ lock' \in Contexts \cup Exchanges \cup {Nobody}
<1>1. /\ exchange'[i] = v /\ \A x \in Exchanges : x # i => exchange'[x] = exchange[x]
  BY ExchangeSet DEF AuthInv, CoreTypes
<1> QED BY <1>1 DEF AuthInv, CoreTypes, LockInv

LEMMA CheckKeeps ==
    ASSUME AuthInv, NEW i \in Exchanges, CheckToken(i)
    PROVE  AuthInv'
<1>1. /\ UNCHANGED <<devices, minted, requests, stored, lock, refresh, unseen, stolen, dbFailed>>
      /\ exchange[i].server = "sent"
      /\ \/ exchange' = [exchange EXCEPT ![i].server = "checked"]
         \/ exchange' = [exchange EXCEPT ![i].server = "over", ![i].client = "done"]
  BY DEF CheckToken, server, bounds
<1>2. PICK old \in ExchangeRec : old = exchange[i]
  BY DEF AuthInv, CoreTypes
<1>3. PICK one \in ExchangeRec : one = [old EXCEPT !.server = "checked"]
  BY <1>2, ExchangeFields
<1>4. PICK mid \in ExchangeRec : mid = [old EXCEPT !.server = "over"]
  BY <1>2, ExchangeFields
<1>5. PICK two \in ExchangeRec : two = [mid EXCEPT !.client = "done"]
  BY <1>4, ExchangeFields
<1>6. one.server = "checked" /\ one.client = old.client /\ one.tok = old.tok
  BY <1>2, <1>3, ExchangeFields
<1>7. two.server = "over" /\ two.client = "done" /\ two.tok = old.tok
  BY <1>2, <1>4, <1>5, ExchangeFields
<1>8. exchange' = [exchange EXCEPT ![i] = one] \/ exchange' = [exchange EXCEPT ![i] = two]
  BY <1>1, <1>2, <1>3, <1>4, <1>5
<1>9. exchange[i].client # "half"
  BY <1>1 DEF AuthInv, ExchangesInv
<1>10. LockInv' /\ lock' \in Contexts \cup Exchanges \cup {Nobody}
  BY <1>1, <1>2, <1>3, <1>5, <1>6, <1>7, <1>8, <1>9, LockApart
<1>11. {one.server, two.server} \subseteq Before \cup {"over"} /\ exchange[i].server \in Before
  BY <1>1, <1>6, <1>7 DEF Before
<1>12. CASE exchange' = [exchange EXCEPT ![i] = one]
  BY <1>1, <1>2, <1>3, <1>6, <1>10, <1>11, <1>12, ExchangeMoves
<1>13. CASE exchange' = [exchange EXCEPT ![i] = two]
  BY <1>1, <1>2, <1>5, <1>7, <1>10, <1>11, <1>13, ExchangeMoves
<1> QED BY <1>8, <1>12, <1>13

LEMMA MarkKeeps ==
    ASSUME AuthInv, NEW i \in Exchanges, MarkUsed(i)
    PROVE  AuthInv'
<1>1. /\ UNCHANGED <<devices, minted, requests, stored, lock, refresh, unseen, stolen, dbFailed>>
      /\ exchange[i].server = "checked" /\ exchange' = [exchange EXCEPT ![i].server = "marked"]
  BY DEF MarkUsed, storage, bounds
<1>2. PICK old \in ExchangeRec : old = exchange[i]
  BY DEF AuthInv, CoreTypes
<1>3. PICK one \in ExchangeRec : one = [old EXCEPT !.server = "marked"]
  BY <1>2, ExchangeFields
<1>4. one.server = "marked" /\ one.client = old.client /\ one.tok = old.tok
  BY <1>2, <1>3, ExchangeFields
<1>5. exchange' = [exchange EXCEPT ![i] = one]
  BY <1>1, <1>2, <1>3
<1>6. exchange[i].client # "half"
  BY <1>1 DEF AuthInv, ExchangesInv
<1>7. LockInv' /\ lock' \in Contexts \cup Exchanges \cup {Nobody}
  BY <1>1, <1>2, <1>3, <1>4, <1>5, <1>6, LockApart
<1>8. /\ one.tok = exchange[i].tok /\ one.client \in {exchange[i].client, "done"}
      /\ one.server \in Before \cup {"over"} /\ exchange[i].server \in Before
  BY <1>1, <1>2, <1>4 DEF Before
<1> QED BY <1>1, <1>3, <1>5, <1>7, <1>8, ExchangeMoves

LEMMA LostKeeps ==
    ASSUME AuthInv, NEW i \in Exchanges, ExchangeLost(i)
    PROVE  AuthInv'
<1>1. /\ UNCHANGED <<devices, minted, requests, stored, lock, refresh, unseen, stolen, dbFailed>>
      /\ exchange[i].client = "waiting" /\ exchange' = [exchange EXCEPT ![i].client = "done"]
  BY DEF ExchangeLost, server
<1>2. PICK old \in ExchangeRec : old = exchange[i]
  BY DEF AuthInv, CoreTypes
<1>3. PICK one \in ExchangeRec : one = [old EXCEPT !.client = "done"]
  BY <1>2, ExchangeFields
<1>4. one.client = "done" /\ one.server = old.server /\ one.tok = old.tok
  BY <1>2, <1>3, ExchangeFields
<1>5. exchange' = [exchange EXCEPT ![i] = one]
  BY <1>1, <1>2, <1>3
<1>6. LockInv' /\ lock' \in Contexts \cup Exchanges \cup {Nobody}
  BY <1>1, <1>3, <1>4, <1>5, LockApart
<1>7. /\ one.tok = exchange[i].tok
      /\ \/ one.client \in {exchange[i].client, "done"}
         \/ one.client = "waiting" /\ exchange[i].tok = 0
      /\ one.server = exchange[i].server \/ (exchange[i].server \in Before /\ one.server \in Before \cup {"over"})
  BY <1>2, <1>4
<1> QED BY <1>1, <1>3, <1>5, <1>6, <1>7, ExchangeMoves

(* Connected: the access token is stored, and the lock is free. *)
LEMMA ConnectedKeeps ==
    ASSUME AuthInv, NEW i \in Exchanges, Connected(i)
    PROVE  AuthInv'
<1>1. /\ UNCHANGED <<devices, minted, requests, refresh, unseen, stolen, dbFailed>>
      /\ exchange[i].client = "half" /\ exchange' = [exchange EXCEPT ![i].client = "done"]
      /\ lock' = Nobody /\ stored' = stored
  BY DEF Connected, server, bounds, Persist, PersistOrder
<1>2. PICK old \in ExchangeRec : old = exchange[i]
  BY DEF AuthInv, CoreTypes
<1>3. PICK one \in ExchangeRec : one = [old EXCEPT !.client = "done"]
  BY <1>2, ExchangeFields
<1>4. one.client = "done" /\ one.server = old.server /\ one.tok = old.tok
  BY <1>2, <1>3, ExchangeFields
<1>5. exchange' = [exchange EXCEPT ![i] = one]
  BY <1>1, <1>2, <1>3
<1>6. exchange'[i] = one /\ \A x \in Exchanges : x # i => exchange'[x] = exchange[x]
  BY <1>3, <1>5, ExchangeSet DEF AuthInv, CoreTypes
<1>7. lock = i
  BY <1>1 DEF AuthInv, LockInv
<1>8. LockInv'
  BY <1>1, <1>4, <1>6, <1>7, Parameters DEF AuthInv, LockInv
<1>9. /\ one.tok = exchange[i].tok
      /\ \/ one.client \in {exchange[i].client, "done"}
         \/ one.client = "waiting" /\ exchange[i].tok = 0
      /\ one.server = exchange[i].server \/ (exchange[i].server \in Before /\ one.server \in Before \cup {"over"})
  BY <1>2, <1>4
<1>10. lock' \in Contexts \cup Exchanges \cup {Nobody}
  BY <1>1
<1> QED BY <1>1, <1>3, <1>5, <1>8, <1>9, <1>10, ExchangeMoves

-----------------------------------------------------------------------------
(* The cap *)

LEMMA LeastOf ==
    ASSUME NEW S, S \subseteq Nat, S # {}
    PROVE  \E n \in S : \A k \in S : n <= k
<1> DEFINE Less == {ss \in Nat \X Nat : ss[1] < ss[2]}
<1>1. IsWellFoundedOn(Less, Nat)
  BY NatLessThanWellFounded, Zenon DEF OpToRel
<1>2. \A n, m \in Nat : n < m => <<n, m>> \in Less
  OBVIOUS
<1> HIDE DEF Less
<1>3. PICK n \in S : \A k \in S : <<k, n>> \notin Less
  BY <1>1, WFMin
<1>4. ASSUME NEW k \in S
      PROVE  n <= k
  <2>1. n \in Nat /\ k \in Nat
    OBVIOUS
  <2>2. ~(k < n)
    BY <1>2, <1>3, <2>1
  <2> QED BY <2>1, <2>2
<1> QED BY <1>4

(* Below the least recently used device that is kept there are no more than the cap. *)
LEMMA ExcessBound ==
    ASSUME AuthInv
    PROVE  Cardinality(Live \ Excess) <= DeviceCap
<1> DEFINE S == Live \ Excess
<1>1. S \subseteq Live /\ IsFiniteSet(S) /\ Live \subseteq Exchanges
  BY Finite, FS_Subset DEF Live
<1>2. \A d \in S : d \in Exchanges /\ Exists(d) /\ devices[d].cur \in Nat /\ d \notin Excess /\ d \in Live
  BY DEF Live, Exists, AuthInv, TokensInv, CoreTypes
<1> HIDE DEF S
<1>3. CASE S = {}
  BY <1>3, FS_EmptySet, Parameters DEF S
<1>4. CASE S # {}
  <2>1. PICK m \in S : \A d \in S : devices[m].cur <= devices[d].cur
    <3> DEFINE C == {devices[d].cur : d \in S}
    <3>1. C \subseteq Nat /\ C # {}
      BY <1>2, <1>4
    <3>2. PICK n \in C : \A k \in C : n <= k
      BY <3>1, LeastOf
    <3> QED BY <3>2
  <2>2. S \ {m} \subseteq UsedAfter(m)
    <3>1. ASSUME NEW d \in S, d # m
          PROVE  devices[d].cur > devices[m].cur
      <4>1. devices[d].cur # devices[m].cur
        BY <1>2, <3>1 DEF AuthInv, TokensInv
      <4> QED BY <1>2, <2>1, <4>1
    <3> QED BY <1>2, <3>1 DEF UsedAfter
  <2>3. IsFiniteSet(UsedAfter(m)) /\ Cardinality(UsedAfter(m)) \in Nat
    <3>1. UsedAfter(m) \subseteq Live
      BY DEF UsedAfter
    <3> QED BY <3>1, Finite, FS_Subset, FS_CardinalityType
  <2>4. Cardinality(UsedAfter(m)) < DeviceCap
    BY <1>2, <2>3, Parameters DEF Excess
  <2>5. Cardinality(S \ {m}) <= Cardinality(UsedAfter(m)) /\ Cardinality(S \ {m}) = Cardinality(S) - 1
    BY <1>1, <2>2, <2>3, FS_Subset, FS_RemoveElement
  <2>6. Cardinality(S) \in Nat
    BY <1>1, FS_CardinalityType
  <2>7. Cardinality(S) <= DeviceCap
    BY <2>3, <2>4, <2>5, <2>6, Parameters
  <2> QED BY <2>7 DEF S
<1> QED BY <1>3, <1>4

Over(old, v, s) == [old EXCEPT !.server = v, !.client = s]

LEMMA OverTyped ==
    ASSUME NEW old \in ExchangeRec, NEW v \in {"over", "uncapped"},
           NEW s \in {"none", "waiting", "answered", "half", "done"}
    PROVE  /\ Over(old, v, s) \in ExchangeRec
           /\ Over(old, v, s).server = v /\ Over(old, v, s).client = s /\ Over(old, v, s).tok = old.tok
BY DEF Over, ExchangeRec

(* The worker has its answer: the devices over the cap are revoked, or that failed. *)
LEMMA ExchangeServedKeeps ==
    ASSUME AuthInv, NEW i \in Exchanges, NEW v \in {"over", "uncapped"}, NEW S,
           exchange[i].server = "created", ExchangeServed(i, v), Revokes(S), v = "over" => S = Excess,
           UNCHANGED <<minted, requests, stored, lock, refresh, unseen, stolen, dbFailed>>
    PROVE  AuthInv'
<1>1. exchange' = [exchange EXCEPT ![i] = [exchange[i] EXCEPT !.server = v,
                      !.client = IF exchange[i].client = "waiting" THEN "answered" ELSE exchange[i].client]]
  BY DEF ExchangeServed
<1>3. /\ devices' \in [Exchanges -> DeviceRec]
      /\ \A d \in Exchanges :
            /\ Same(d)
            /\ devices'[d].state = IF d \in S /\ devices[d].state = "live" THEN "revoked" ELSE devices[d].state
  BY RevokesEffect DEF AuthInv, CoreTypes
<1>4. PICK old \in ExchangeRec : old = exchange[i]
  BY DEF AuthInv, CoreTypes
<1>5. PICK s \in {"none", "waiting", "answered", "half", "done"} :
          s = IF old.client = "waiting" THEN "answered" ELSE old.client
  BY <1>4 DEF ExchangeRec
<1>6. PICK new \in ExchangeRec : new = Over(old, v, s)
  BY <1>4, <1>5, OverTyped
<1>7. new.server = v /\ new.client = s /\ new.tok = old.tok
  BY <1>4, <1>5, <1>6, OverTyped
<1>8. exchange' = [exchange EXCEPT ![i] = new]
  BY <1>1, <1>4, <1>5, <1>6 DEF Over
<1>9. /\ exchange' \in [Exchanges -> ExchangeRec] /\ exchange'[i] = new
      /\ \A x \in Exchanges : x # i => exchange'[x] = exchange[x]
  BY <1>6, <1>8, ExchangeSet DEF AuthInv, CoreTypes
<1>10. old.tok # 0 /\ old.client # "half" /\ old.client # "answered"
  BY <1>1, <1>4 DEF AuthInv, ExchangesInv
<1>11. LockInv' /\ lock' \in Contexts \cup Exchanges \cup {Nobody}
  BY <1>1, <1>4, <1>5, <1>6, <1>7, <1>8, <1>10, LockApart
<1>12. \A x \in Exchanges : Pending(x)' => Pending(x) /\ exchange'[x].tok = exchange[x].tok
  BY <1>4, <1>5, <1>7, <1>9 DEF Pending
<1>13. ExchangesInv'
  <2>1. ASSUME NEW x \in Exchanges
        PROVE  /\ exchange'[x].server \in Before => devices'[x].state = "none" /\ exchange'[x].tok = 0
               /\ exchange'[x].client = "answered" => Pending(x)'
               /\ exchange'[x].client \in {"answered", "half"} => exchange'[x].server \in {"over", "uncapped"}
               /\ exchange'[x].server = "created" => exchange'[x].tok # 0
               /\ Pending(x)' => /\ devices'[x].state # "none" /\ devices'[x].cur = exchange'[x].tok
                                 /\ devices'[x].prev = 0
    <3>1. /\ exchange[x].server \in Before => ~Exists(x) /\ exchange[x].tok = 0
          /\ exchange[x].client = "answered" => Pending(x)
          /\ exchange[x].client \in {"answered", "half"} => exchange[x].server \in {"over", "uncapped"}
          /\ exchange[x].server = "created" => exchange[x].tok # 0
          /\ Pending(x) => Exists(x) /\ devices[x].cur = exchange[x].tok /\ devices[x].prev = 0
      BY DEF AuthInv, ExchangesInv, Before
    <3>2. Pending(x)' => devices'[x].state # "none" /\ devices'[x].cur = exchange'[x].tok /\ devices'[x].prev = 0
      BY <1>3, <1>12, <3>1 DEF Same, Exists
    <3>3. CASE x # i
      BY <1>3, <1>9, <3>1, <3>2, <3>3 DEF Same, Exists, Pending
    <3>4. CASE x = i
      BY <1>7, <1>9, <1>10, <3>2, <3>4 DEF Before, Pending
    <3> QED BY <3>3, <3>4
  <2> QED BY <2>1 DEF ExchangesInv, Before, Exists
<1>14. DevicesCapped'
  <2>1. CASE v = "over"
    <3>1. Live' \subseteq Live \ Excess
      BY <1>3, <2>1 DEF Live
    <3>2. IsFiniteSet(Live \ Excess) /\ Cardinality(Live \ Excess) \in Nat
      BY Finite, FS_Subset, FS_CardinalityType
    <3>3. Cardinality(Live') <= Cardinality(Live \ Excess)
      BY <3>1, <3>2, FS_Subset
    <3>4. Cardinality(Live') <= DeviceCap + Cardinality(Created')
      BY <3>2, <3>3, ExcessBound, FiniteNext, Parameters
    <3> QED BY <3>4 DEF DevicesCapped, Created
  <2>2. CASE v = "uncapped"
    <3>1. \A x \in Exchanges : exchange[x].server \in Counting => exchange'[x].server \in Counting
      BY <1>7, <1>9, <2>2 DEF Counting
    <3> QED BY <1>3, <3>1, CapKept DEF AuthInv
  <2> QED BY <2>1, <2>2
<1> QED BY <1>9, <1>11, <1>12, <1>13, <1>14, ExchangeKeeps

LEMMA RevokeExcessKeeps ==
    ASSUME AuthInv, NEW i \in Exchanges, RevokeExcess(i) \/ RevokeExcessFails(i)
    PROVE  AuthInv'
<1>1. CASE RevokeExcess(i)
  <2>1. /\ UNCHANGED <<minted, requests, stored, lock, refresh, unseen, stolen, dbFailed>>
        /\ exchange[i].server = "created" /\ ExchangeServed(i, "over") /\ Revokes(Excess)
    BY <1>1 DEF RevokeExcess, storage, bounds, Revokes
  <2> QED BY <2>1, ExchangeServedKeeps
<1>2. CASE RevokeExcessFails(i)
  <2>1. /\ UNCHANGED <<devices, minted, requests, stored, lock, refresh, unseen, stolen, dbFailed>>
        /\ exchange[i].server = "created" /\ ExchangeServed(i, "uncapped")
    BY <1>2 DEF RevokeExcessFails, server, storage
  <2>2. Revokes({})
    BY <2>1, RevokesNone DEF AuthInv, CoreTypes
  <2> QED BY <2>1, <2>2, ExchangeServedKeeps
<1> QED BY <1>1, <1>2

-----------------------------------------------------------------------------
(* A device is created *)

NewDevice(t) == [NoDevice EXCEPT !.cur = t, !.recent = TRUE, !.state = "live"]

LEMMA NewDeviceTyped ==
    ASSUME NEW t \in 0..MaxTokens
    PROVE  /\ NewDevice(t) \in DeviceRec /\ NewDevice(t).cur = t /\ NewDevice(t).prev = 0
           /\ NewDevice(t).state = "live"
<1>1. PICK yes \in BOOLEAN : yes = TRUE
  OBVIOUS
<1>0. NoDevice \in DeviceRec /\ NoDevice.prev = 0
  BY Parameters DEF NoDevice, DeviceRec
<1>2. PICK old \in DeviceRec : old = NoDevice
  BY <1>0
<1>3. old.prev = 0
  BY <1>0, <1>2
<1>4. /\ [old EXCEPT !.cur = t, !.recent = yes, !.state = "live"] \in DeviceRec
      /\ [old EXCEPT !.cur = t, !.recent = yes, !.state = "live"].cur = t
      /\ [old EXCEPT !.cur = t, !.recent = yes, !.state = "live"].prev = old.prev
      /\ [old EXCEPT !.cur = t, !.recent = yes, !.state = "live"].state = "live"
  BY <1>1, <1>2 DEF DeviceRec
<1> QED BY <1>1, <1>2, <1>3, <1>4, Zenon DEF NewDevice

CreatedAs(old, t) == [[old EXCEPT !.server = "created"] EXCEPT !.tok = t]

LEMMA CreatedTyped ==
    ASSUME NEW old \in ExchangeRec, NEW t \in 0..MaxTokens
    PROVE  /\ CreatedAs(old, t) \in ExchangeRec /\ CreatedAs(old, t).server = "created"
           /\ CreatedAs(old, t).client = old.client /\ CreatedAs(old, t).tok = t
<1>1. PICK mid \in ExchangeRec : mid = [old EXCEPT !.server = "created"]
  BY DEF ExchangeRec
<1>2. mid.server = "created" /\ mid.client = old.client
  BY <1>1 DEF ExchangeRec
<1>3. /\ [mid EXCEPT !.tok = t] \in ExchangeRec /\ [mid EXCEPT !.tok = t].server = mid.server
      /\ [mid EXCEPT !.tok = t].client = mid.client /\ [mid EXCEPT !.tok = t].tok = t
  BY DEF ExchangeRec
<1> QED BY <1>1, <1>2, <1>3 DEF CreatedAs

LEMMA CreateEffect ==
    ASSUME AuthInv, NEW i \in Exchanges, CreateDevice(i)
    PROVE  /\ minted \in Nat /\ minted' = minted + 1 /\ minted' \in 0..MaxTokens
           /\ UNCHANGED <<requests, stored, lock, refresh, unseen, stolen, dbFailed>>
           /\ devices' \in [Exchanges -> DeviceRec]
           /\ devices'[i].cur = minted + 1 /\ devices'[i].prev = 0 /\ devices'[i].state = "live"
           /\ \A d \in Exchanges : d # i => devices'[d] = devices[d]
           /\ exchange[i].server = "marked" /\ exchange' \in [Exchanges -> ExchangeRec]
           /\ exchange'[i].server = "created" /\ exchange'[i].client = exchange[i].client
           /\ exchange'[i].tok = minted + 1
           /\ \A x \in Exchanges : x # i => exchange'[x] = exchange[x]
<1>1. /\ minted' = minted + 1 /\ minted < MaxTokens /\ exchange[i].server = "marked"
      /\ UNCHANGED <<requests, stored, lock, refresh, unseen, stolen, dbFailed>>
      /\ devices' = [devices EXCEPT ![i] = NewDevice(minted + 1)]
      /\ exchange' = [exchange EXCEPT ![i].server = "created", ![i].tok = minted + 1]
  BY Zenon DEF CreateDevice, storage, bounds, NewDevice
<1>2. minted \in Nat /\ minted + 1 \in 0..MaxTokens
  BY <1>1, Parameters DEF AuthInv, CoreTypes
<1>3. PICK t \in 0..MaxTokens : t = minted + 1
  BY <1>2
<1>4. PICK dev \in DeviceRec : dev = NewDevice(t)
  BY <1>3, NewDeviceTyped
<1>5. dev.cur = t /\ dev.prev = 0 /\ dev.state = "live"
  BY <1>3, <1>4, NewDeviceTyped
<1>6. devices' = [devices EXCEPT ![i] = dev]
  BY <1>1, <1>3, <1>4
<1>7. /\ devices' \in [Exchanges -> DeviceRec] /\ devices'[i] = dev
      /\ \A d \in Exchanges : d # i => devices'[d] = devices[d]
  BY <1>4, <1>6, DeviceSet DEF AuthInv, CoreTypes
<1>8. PICK old \in ExchangeRec : old = exchange[i]
  BY DEF AuthInv, CoreTypes
<1>9. PICK new \in ExchangeRec : new = CreatedAs(old, t)
  BY <1>3, <1>8, CreatedTyped
<1>10. new.server = "created" /\ new.client = old.client /\ new.tok = t
  BY <1>3, <1>8, <1>9, CreatedTyped
<1>11. exchange' = [exchange EXCEPT ![i] = new]
  BY <1>1, <1>3, <1>8, <1>9 DEF CreatedAs
<1>12. /\ exchange' \in [Exchanges -> ExchangeRec] /\ exchange'[i] = new
       /\ \A x \in Exchanges : x # i => exchange'[x] = exchange[x]
  BY <1>9, <1>11, ExchangeSet DEF AuthInv, CoreTypes
<1> QED BY <1>1, <1>2, <1>3, <1>5, <1>7, <1>8, <1>10, <1>12

(* Its token is known to the exchange only, and to a device that no one else refers to. *)
LEMMA CreateKeeps ==
    ASSUME AuthInv, NEW i \in Exchanges, CreateDevice(i)
    PROVE  AuthInv'
<1>1. /\ minted \in Nat /\ minted' = minted + 1 /\ minted' \in 0..MaxTokens
      /\ UNCHANGED <<requests, stored, lock, refresh, unseen, stolen, dbFailed>>
      /\ devices' \in [Exchanges -> DeviceRec]
      /\ devices'[i].cur = minted + 1 /\ devices'[i].prev = 0 /\ devices'[i].state = "live"
      /\ \A d \in Exchanges : d # i => devices'[d] = devices[d]
      /\ exchange[i].server = "marked" /\ exchange' \in [Exchanges -> ExchangeRec]
      /\ exchange'[i].server = "created" /\ exchange'[i].client = exchange[i].client
      /\ exchange'[i].tok = minted + 1
      /\ \A x \in Exchanges : x # i => exchange'[x] = exchange[x]
  BY CreateEffect
<1>2. ~Exists(i) /\ exchange[i].tok = 0 /\ exchange[i].client \notin {"answered", "half"}
  BY <1>1 DEF AuthInv, ExchangesInv, Pending
<1>3. CoreTypes'
  BY <1>1 DEF AuthInv, CoreTypes
<1>4. LockInv'
  BY <1>1 DEF AuthInv, LockInv
<1>5. \A d \in Exchanges : Exists(d) => d # i /\ devices'[d] = devices[d]
  BY <1>1, <1>2
<1>6. \A e \in Exchanges : (Exists(e) => devices[e].cur \in 1..minted /\ devices[e].prev \in 0..minted)
                           /\ (~Exists(e) => devices[e].cur = 0 /\ devices[e].prev = 0)
  BY DEF AuthInv, TokensInv, NoDevice
<1>7. TokensInv'
  <2>1. ASSUME NEW e \in Exchanges
        PROVE  /\ devices'[e].state = "none" => devices'[e] = NoDevice
               /\ devices'[e].state # "none" => devices'[e].cur \in 1..minted' /\ devices'[e].prev \in 0..minted'
                                                /\ devices'[e].prev # devices'[e].cur
    <3>1. CASE e = i
      BY <1>1, <3>1
    <3>2. CASE e # i
      BY <1>1, <3>2 DEF AuthInv, TokensInv, Exists
    <3> QED BY <3>1, <3>2
  <2>2. ASSUME NEW e \in Exchanges, NEW f \in Exchanges, e # f, devices'[e].state # "none"
        PROVE  /\ devices'[e].cur \notin {devices'[f].cur, devices'[f].prev}
               /\ devices'[e].prev # 0 => devices'[e].prev # devices'[f].prev
    <3>1. CASE e = i
      <4>1. devices'[f] = devices[f] /\ devices[f].cur \in 0..minted /\ devices[f].prev \in 0..minted
        BY <1>1, <1>6, <2>2, <3>1
      <4> QED BY <1>1, <3>1, <4>1
    <3>2. CASE f = i
      <4>1. devices'[e] = devices[e] /\ Exists(e)
        BY <1>1, <2>2, <3>2 DEF Exists
      <4>2. devices[e].cur \in 1..minted /\ devices[e].prev \in 0..minted
        BY <1>6, <4>1
      <4> QED BY <1>1, <3>2, <4>1, <4>2
    <3>3. CASE e # i /\ f # i
      BY <1>1, <2>2, <3>3 DEF AuthInv, TokensInv, Exists
    <3> QED BY <3>1, <3>2, <3>3
  <2> QED BY <2>1, <2>2 DEF TokensInv, Exists
<1>8. ExchangesInv'
  <2>1. ASSUME NEW x \in Exchanges
        PROVE  /\ exchange'[x].server \in Before => devices'[x].state = "none" /\ exchange'[x].tok = 0
               /\ exchange'[x].client = "answered" => Pending(x)'
               /\ exchange'[x].client \in {"answered", "half"} => exchange'[x].server \in {"over", "uncapped"}
               /\ exchange'[x].server = "created" => exchange'[x].tok # 0
               /\ Pending(x)' => /\ devices'[x].state # "none" /\ devices'[x].cur = exchange'[x].tok
                                 /\ devices'[x].prev = 0
    <3>1. CASE x = i
      BY <1>1, <1>2, <3>1 DEF Before
    <3>2. CASE x # i
      BY <1>1, <3>2 DEF AuthInv, ExchangesInv, Before, Pending, Exists
    <3> QED BY <3>1, <3>2
  <2> QED BY <2>1 DEF ExchangesInv, Before, Exists
<1>9. RequestsInv'
  <2>1. ASSUME NEW r \in requests
        PROVE  r.tok \in 1..minted'
    <3>1. r.tok \in 1..minted
      BY DEF AuthInv, RequestsInv
    <3> QED BY <1>1, <3>1
  <2> QED BY <1>1, <2>1 DEF AuthInv, RequestsInv
<1>10. stored = Nothing \/ (stored.dev \in Exchanges /\ Exists(stored.dev) /\ stored.tok \in 1..minted)
  BY <1>6 DEF AuthInv, StoredInv
<1>11. stored.dev # i /\ stored.tok # minted + 1
  BY <1>1, <1>2, <1>10, Parameters DEF Nothing
<1>12. \A r \in requests : r.tok # minted + 1 /\ r.tok # 0
  BY <1>1 DEF AuthInv, RequestsInv
<1>13. StoredInv'
  <2>1. stored # Nothing => /\ stored.dev \in Exchanges /\ devices'[stored.dev].state # "none" /\ stored.tok # 0
                            /\ stored.tok \in {devices'[stored.dev].cur, devices'[stored.dev].prev}
    BY <1>5 DEF AuthInv, StoredInv, Exists
  <2>2. ASSUME NEW r \in requests, NEW d \in Exchanges, stored.dev = d, r.tok = devices'[d].cur
        PROVE  stored.tok = r.tok
    BY <1>1, <1>11, <2>2 DEF AuthInv, StoredInv
  <2> QED BY <1>1, <2>1, <2>2 DEF AuthInv, StoredInv, Exists
<1>14. \A x \in Contexts : (Minted(x)' <=> Minted(x)) /\ (Leaving(x)' <=> Leaving(x))
  BY <1>1 DEF Minted, Leaving
<1>15. SecretInv'
  <2>1. ASSUME NEW x \in Contexts, Minted(x)
        PROVE  /\ refresh[x].dev \in Exchanges /\ devices'[refresh[x].dev].state # "none"
               /\ devices'[refresh[x].dev].cur = refresh[x].tok
               /\ \A j \in Exchanges : Pending(j)' => refresh[x].dev # j
    <3>1. /\ refresh[x].dev \in Exchanges /\ Exists(refresh[x].dev)
          /\ devices[refresh[x].dev].cur = refresh[x].tok
          /\ \A j \in Exchanges : Pending(j) => refresh[x].dev # j
      BY <2>1 DEF AuthInv, SecretInv
    <3>2. ASSUME NEW j \in Exchanges, Pending(j)'
          PROVE  refresh[x].dev # j
      <4>1. CASE j = i
        BY <1>2, <3>1, <4>1
      <4>2. CASE j # i
        BY <1>1, <3>1, <3>2, <4>2 DEF Pending
      <4> QED BY <4>1, <4>2
    <3> QED BY <1>5, <3>1, <3>2 DEF Exists
  <2>2. ASSUME NEW j \in Exchanges, Pending(j)'
        PROVE  stored.tok # exchange'[j].tok /\ \A r \in requests : r.tok # exchange'[j].tok
    <3>1. CASE j = i
      BY <1>1, <1>11, <1>12, <3>1
    <3>2. CASE j # i
      BY <1>1, <2>2, <3>2 DEF AuthInv, SecretInv, Pending
    <3> QED BY <3>1, <3>2
  <2> QED BY <1>1, <1>14, <2>1, <2>2 DEF AuthInv, SecretInv, Exists
<1>16. TheftInv'
  <2>1. ASSUME NEW d \in Exchanges, devices'[d].state # "none", devices'[d].prev # 0, stored.tok = devices'[d].prev
        PROVE  d \in unseen \/ \E x \in Contexts : Minted(x) /\ refresh[x].dev = d
    <3>1. d # i
      BY <1>1, <2>1
    <3> QED BY <1>1, <2>1, <3>1 DEF AuthInv, TheftInv, Exists
  <2>2. ASSUME NEW r \in requests, NEW d \in Exchanges, devices'[d].state # "none", r.tok = devices'[d].prev
        PROVE  devices'[d].recent \/ d \in unseen
    <3>1. d # i
      BY <1>1, <1>12, <2>2
    <3> QED BY <1>1, <2>2, <3>1 DEF AuthInv, TheftInv, Exists
  <2> QED BY <1>1, <1>14, <2>1, <2>2 DEF AuthInv, TheftInv, Exists
<1>17. GoneInv'
  <2>1. stored = Nothing \/ devices'[stored.dev] = devices[stored.dev]
    BY <1>5, <1>10
  <2> QED BY <1>1, <1>14, <2>1 DEF AuthInv, GoneInv
<1>18. DevicesCapped'
  <2>1. Live' \subseteq Live \cup {i} /\ Created' = Created \cup {i} /\ i \notin Created
    BY <1>1 DEF Live, Created, Counting
  <2>2. Cardinality(Live \cup {i}) \in Nat /\ Cardinality(Live') <= Cardinality(Live \cup {i})
        /\ Cardinality(Live \cup {i}) <= Cardinality(Live) + 1
    <3>1. IsFiniteSet(Live \cup {i})
      BY Finite, FS_AddElement
    <3>2. Cardinality(Live') <= Cardinality(Live \cup {i})
      BY <2>1, <3>1, FS_Subset
    <3>3. Cardinality(Live \cup {i}) = IF i \in Live THEN Cardinality(Live) ELSE Cardinality(Live) + 1
      BY Finite, FS_AddElement
    <3> QED BY <3>2, <3>3, Finite
  <2>3. Cardinality(Created') = Cardinality(Created) + 1
    BY <2>1, Finite, FS_AddElement
  <2>4. Cardinality(Live) <= DeviceCap + Cardinality(Created)
    BY DEF AuthInv, DevicesCapped, Created
  <2>5. Cardinality(Live') <= DeviceCap + Cardinality(Created')
    BY <2>2, <2>3, <2>4, Finite, FiniteNext, Parameters
  <2> QED BY <2>5 DEF DevicesCapped, Created
<1> QED BY <1>3, <1>4, <1>7, <1>8, <1>9, <1>13, <1>15, <1>16, <1>17, <1>18 DEF AuthInv

-----------------------------------------------------------------------------
(* A token is stored *)

(* The one that is stored is its device's, and no request carries it yet. *)
LEMMA StoreKeeps ==
    ASSUME AuthInv, CoreTypes', LockInv', ExchangesInv', NEW d \in Exchanges, Exists(d),
           stored'.dev = d, stored'.tok = devices[d].cur,
           \A r \in requests : r.tok # devices[d].cur,
           \A x \in Contexts : refresh[x].pc # "posted" /\ refresh'[x].pc # "posted" /\ ~Minted(x)' /\ ~Leaving(x)',
           \A j \in Exchanges : /\ Pending(j)' => Pending(j) /\ exchange'[j].tok = exchange[j].tok /\ j # d
                                /\ exchange'[j].server = exchange[j].server,
           UNCHANGED <<devices, minted, requests, unseen, stolen, dbFailed>>
    PROVE  AuthInv'
<1>1. TokensInv' /\ DevicesCapped'
  BY CapKept DEF AuthInv, TokensInv, Exists
<1>2. \A r \in requests : r.from = Nobody
  BY DEF AuthInv, CoreTypes, RequestRec, RequestsInv
<1>3. RequestsInv'
  BY <1>2 DEF AuthInv, RequestsInv
<1>4. \A e \in Exchanges : Exists(e) => devices[e].cur \in 1..minted /\ devices[e].cur # 0
  BY DEF AuthInv, TokensInv, CoreTypes
<1>5. StoredInv'
  BY <1>4 DEF StoredInv, Exists
<1>6. SecretInv'
  <2>1. ASSUME NEW j \in Exchanges, Pending(j)'
        PROVE  stored'.tok # exchange'[j].tok /\ \A r \in requests : r.tok # exchange'[j].tok
    <3>1. Pending(j) /\ exchange'[j].tok = exchange[j].tok /\ j # d
      BY <2>1
    <3>2. Exists(j) /\ devices[j].cur = exchange[j].tok /\ \A r \in requests : r.tok # exchange[j].tok
      BY <3>1 DEF AuthInv, ExchangesInv, SecretInv
    <3>3. devices[j].cur # devices[d].cur
      BY <3>1, <3>2 DEF AuthInv, TokensInv
    <3> QED BY <3>1, <3>2, <3>3
  <2> QED BY <2>1 DEF SecretInv
<1>7. TheftInv'
  <2>1. ASSUME NEW e \in Exchanges, Exists(e), devices[e].prev # 0
        PROVE  devices[d].cur # devices[e].prev
    BY <2>1 DEF AuthInv, TokensInv
  <2> QED BY <2>1 DEF AuthInv, TheftInv, Exists
<1>8. GoneInv'
  BY DEF GoneInv
<1> QED BY <1>1, <1>3, <1>5, <1>6, <1>7, <1>8 DEF AuthInv

(* persist, in a refresh: the rotated token. *)
LEMMA PersistFirstKeeps ==
    ASSUME AuthInv, NEW c \in Contexts, PersistFirst(c)
    PROVE  AuthInv'
<1>1. /\ Minted(c) /\ UNCHANGED <<devices, minted, requests, lock, exchange, unseen, stolen, dbFailed>>
      /\ stored' = [dev |-> refresh[c].dev, tok |-> refresh[c].tok]
      /\ refresh' = [refresh EXCEPT ![c].pc = "half"]
  BY DEF PersistFirst, Minted, server, bounds, Persist, PersistOrder
<1>2. /\ refresh' \in [Contexts -> RefreshRec] /\ refresh'[c].pc = "half"
      /\ \A x \in Contexts : x # c => refresh'[x] = refresh[x]
  BY <1>1, PcEffect DEF AuthInv, CoreTypes
<1>3. lock = c /\ refresh[c].pc = "served"
  BY <1>1 DEF Minted, AuthInv, LockInv
<1>4. \A x \in Contexts \ {c} : refresh[x].pc \in {"none", "lock"}
  BY <1>3 DEF AuthInv, LockInv
<1>5. PICK d \in Exchanges : d = refresh[c].dev
  BY <1>1 DEF AuthInv, SecretInv
<1>6. /\ Exists(d) /\ devices[d].cur = refresh[c].tok /\ \A r \in requests : r.tok # refresh[c].tok
      /\ \A i \in Exchanges : Pending(i) => d # i
  BY <1>1, <1>5 DEF AuthInv, SecretInv
<1>7. stored'.dev = d /\ stored'.tok = devices[d].cur /\ stored' \in [dev : 0..MaxExchanges, tok : 0..MaxTokens]
  BY <1>1, <1>5, <1>6 DEF AuthInv, CoreTypes, RefreshRec
<1>8. CoreTypes'
  BY <1>1, <1>2, <1>7 DEF AuthInv, CoreTypes
<1>9. LockInv'
  BY <1>1, <1>2, <1>3 DEF AuthInv, LockInv
<1>10. ExchangesInv'
  BY <1>1, <1>8, ExchangesKept, SameDevices
<1>11. \A x \in Contexts : refresh[x].pc # "posted" /\ refresh'[x].pc # "posted" /\ ~Minted(x)' /\ ~Leaving(x)'
  BY <1>2, <1>3, <1>4 DEF Minted, Leaving
<1>12. \A j \in Exchanges : /\ Pending(j)' => Pending(j) /\ exchange'[j].tok = exchange[j].tok /\ j # d
                            /\ exchange'[j].server = exchange[j].server
  BY <1>1, <1>6 DEF Pending
<1> QED BY <1>1, <1>6, <1>7, <1>8, <1>9, <1>10, <1>11, <1>12, StoreKeeps

(* persist, in a handshake: the token of the new device. *)
LEMMA ReplaceKeeps ==
    ASSUME AuthInv, NEW i \in Exchanges, ReplaceDevice(i)
    PROVE  AuthInv'
<1>1. /\ UNCHANGED <<devices, minted, requests, refresh, unseen, stolen, dbFailed>>
      /\ exchange[i].client = "answered" /\ lock = Nobody /\ lock' = i
      /\ stored' = [dev |-> i, tok |-> exchange[i].tok]
      /\ exchange' = [exchange EXCEPT ![i].client = "half"]
  BY DEF ReplaceDevice, server, bounds, Persist, PersistOrder
<1>2. PICK old \in ExchangeRec : old = exchange[i]
  BY DEF AuthInv, CoreTypes
<1>3. PICK one \in ExchangeRec : one = [old EXCEPT !.client = "half"]
  BY <1>2, ExchangeFields
<1>4. one.client = "half" /\ one.server = old.server /\ one.tok = old.tok
  BY <1>2, <1>3, ExchangeFields
<1>5. exchange' = [exchange EXCEPT ![i] = one]
  BY <1>1, <1>2, <1>3
<1>6. /\ exchange' \in [Exchanges -> ExchangeRec] /\ exchange'[i] = one
      /\ \A x \in Exchanges : x # i => exchange'[x] = exchange[x]
  BY <1>3, <1>5, ExchangeSet DEF AuthInv, CoreTypes
<1>7. \A x \in Contexts : refresh[x].pc \in {"none", "lock"}
  BY <1>1, Parameters DEF AuthInv, LockInv
<1>8. \A x \in Exchanges : exchange[x].client # "half"
  BY <1>1, Parameters DEF AuthInv, LockInv
<1>9. LockInv'
  BY <1>1, <1>4, <1>6, <1>7, <1>8, Parameters DEF LockInv
<1>10. Pending(i) /\ Exists(i) /\ devices[i].cur = exchange[i].tok
  BY <1>1 DEF AuthInv, ExchangesInv
<1>11. \A r \in requests : r.tok # devices[i].cur
  BY <1>10 DEF AuthInv, SecretInv
<1>12. stored'.dev = i /\ stored'.tok = devices[i].cur /\ stored' \in [dev : 0..MaxExchanges, tok : 0..MaxTokens]
  BY <1>1, <1>2, <1>10, Parameters DEF ExchangeRec
<1>13. CoreTypes'
  BY <1>1, <1>6, <1>12 DEF AuthInv, CoreTypes
<1>14. ExchangesInv'
  <2>1. \A x \in Exchanges : /\ exchange'[x].server = exchange[x].server /\ exchange'[x].tok = exchange[x].tok
                             /\ exchange'[x].client \in {exchange[x].client, "half", "done"}
                             /\ exchange'[x].client = "half" => exchange[x].client \in {"answered", "half"}
    BY <1>1, <1>2, <1>4, <1>6
  <2> QED BY <1>1, <1>13, <2>1, ExchangesKept, SameDevices
<1>15. \A x \in Contexts : refresh[x].pc # "posted" /\ refresh'[x].pc # "posted" /\ ~Minted(x)' /\ ~Leaving(x)'
  BY <1>1, <1>7 DEF Minted, Leaving
<1>16. \A j \in Exchanges : /\ Pending(j)' => Pending(j) /\ exchange'[j].tok = exchange[j].tok /\ j # i
                            /\ exchange'[j].server = exchange[j].server
  BY <1>2, <1>4, <1>6 DEF Pending
<1> QED BY <1>1, <1>9, <1>10, <1>11, <1>12, <1>13, <1>14, <1>15, <1>16, StoreKeeps

(* The grace period of a device ends while no request carries its old token. *)
LEMMA GraceKeeps ==
    ASSUME AuthInv, NEW d \in Exchanges, GraceLapses(d)
    PROVE  AuthInv'
<1>1. /\ UNCHANGED <<minted, requests, stored, lock, refresh, exchange, unseen, stolen, dbFailed>>
      /\ \A r \in requests : r.tok # devices[d].prev
      /\ devices' = [devices EXCEPT ![d].recent = FALSE]
      /\ devices[d].recent
  BY Zenon DEF GraceLapses, storage, bounds
<1>2. PICK no \in BOOLEAN : no = FALSE
  OBVIOUS
<1>3. PICK old \in DeviceRec : old = devices[d]
  BY DEF AuthInv, CoreTypes
<1>4. PICK new \in DeviceRec : new = [old EXCEPT !.recent = no]
  BY <1>2, <1>3 DEF DeviceRec
<1>5. new.cur = old.cur /\ new.prev = old.prev /\ new.state = old.state
  BY <1>2, <1>3, <1>4 DEF DeviceRec
<1>6. devices' = [devices EXCEPT ![d] = new]
  BY <1>1, <1>2, <1>3, <1>4, Zenon
<1>7. /\ devices' \in [Exchanges -> DeviceRec] /\ devices'[d] = new
      /\ \A x \in Exchanges : x # d => devices'[x] = devices[x]
  BY <1>4, <1>6, DeviceSet DEF AuthInv, CoreTypes
<1>8. Exists(d)
  <2>1. ~Exists(d) => devices[d] = NoDevice
    BY DEF AuthInv, TokensInv
  <2>2. ~NoDevice.recent
    BY DEF NoDevice
  <2> QED BY <1>1, <2>1, <2>2, Zenon
<1>9. \A x \in Exchanges : /\ devices'[x].cur = devices[x].cur /\ devices'[x].prev = devices[x].prev
                           /\ devices'[x].state = devices[x].state
                           /\ devices[x].state = "none" => devices'[x] = devices[x]
  BY <1>3, <1>5, <1>7, <1>8 DEF Exists
<1>10. CoreTypes' /\ LockInv'
  BY <1>1, <1>7 DEF AuthInv, CoreTypes, LockInv
<1>11. TokensInv' /\ ExchangesInv'
  BY <1>1, <1>9 DEF AuthInv, TokensInv, ExchangesInv, Exists, Pending
<1>12. RequestsInv' /\ DevicesCapped'
  BY <1>1, <1>9, CapKept DEF AuthInv, RequestsInv
<1>13. stored = Nothing \/ stored.dev \in Exchanges
  BY DEF AuthInv, StoredInv
<1>14. StoredInv' /\ GoneInv'
  BY <1>1, <1>9, <1>13 DEF AuthInv, StoredInv, GoneInv, Exists, Leaving
<1>15. SecretInv'
  BY <1>1, <1>9 DEF AuthInv, SecretInv, Exists, Pending, Minted
<1>16. TheftInv'
  <2>1. ASSUME NEW r \in requests, NEW x \in Exchanges, Exists(x)', r.tok = devices'[x].prev
        PROVE  devices'[x].recent \/ x \in unseen
    <3>1. x # d
      BY <1>1, <1>9, <2>1
    <3> QED BY <1>7, <2>1, <3>1 DEF AuthInv, TheftInv, Exists
  <2>2. ASSUME NEW x \in Exchanges, Exists(x)', devices'[x].prev # 0, stored.tok = devices'[x].prev
        PROVE  x \in unseen \/ \E c \in Contexts : Minted(c) /\ refresh[c].dev = x
    BY <1>9, <2>2 DEF AuthInv, TheftInv, Exists
  <2> QED BY <1>1, <2>1, <2>2 DEF AuthInv, TheftInv, Exists, Minted
<1> QED BY <1>10, <1>11, <1>12, <1>14, <1>15, <1>16 DEF AuthInv

-----------------------------------------------------------------------------
(* Every step keeps the invariant *)

SideTypes ==
    /\ ext \in [Handshakes -> {"none", "issued", "used"}]
    /\ access \in [tok : 0..MaxTokens, fresh : BOOLEAN]
    /\ connect \in {"none", "connecting", "connected", "error"}
    /\ calls \in [Calls -> [pc : {"idle", "asking", "sent", "again", "resent"}, tok : 0..MaxTokens]]
    /\ retiring \subseteq Exchanges
    /\ signout \in [pc : {"none", "token", "delete", "clear", "cleared"}, dev : 0..MaxExchanges]
    /\ stolen \subseteq Exchanges /\ faults \in 0..MaxFaults

LEMMA TypesSplit == TypeOK <=> CoreTypes /\ LockInv /\ SideTypes
BY Zenon DEF TypeOK, CoreTypes, LockInv, SideTypes, DeviceRec, RequestRec, RefreshRec, ExchangeRec

(* Its refresh ends in the context itself: with a token, rejected, or with what another has stored. *)
LEMMA EndKeeps ==
    ASSUME AuthInv, NEW c \in Contexts, refresh' = [refresh EXCEPT ![c] = NoRefresh],
           lock \in {c, Nobody}, lock' = Nobody, ~Minted(c),
           requests' \subseteq requests, \A q \in requests' : q.from # c,
           stored' = stored \/ stored' = Nothing,
           UNCHANGED <<devices, minted, exchange, unseen, stolen, dbFailed>>
    PROVE  AuthInv'
<1>1. /\ refresh' \in [Contexts -> RefreshRec] /\ refresh'[c] = NoRefresh
      /\ \A x \in Contexts \ {c} : refresh'[x] = refresh[x]
  BY FreeEffect DEF AuthInv, CoreTypes
<1>2. LockInv'
  BY <1>1, Parameters DEF AuthInv, LockInv, NoRefresh
<1>3. Nothing \in [dev : 0..MaxExchanges, tok : 0..MaxTokens]
  BY Parameters DEF Nothing
<1>4. CoreTypes'
  BY <1>1, <1>3 DEF AuthInv, CoreTypes
<1>5. \A q \in requests' : q.from # c /\ \E r \in requests : q.tok = r.tok /\ (q.from # Nobody => q = r)
  OBVIOUS
<1>6. \A i \in Exchanges : /\ exchange'[i].server = exchange[i].server /\ exchange'[i].tok = exchange[i].tok
                           /\ exchange'[i].client \in {exchange[i].client, "done"}
  OBVIOUS
<1>7. unseen \subseteq unseen'
  OBVIOUS
<1> QED BY <1>2, <1>4, <1>5, <1>6, <1>7, FreeKeeps

LEMMA ResolveFrees ==
    ASSUME NEW c, NEW t, Resolve(c, t)
    PROVE  refresh' = [refresh EXCEPT ![c] = NoRefresh] /\ lock' = Nobody
BY DEF Resolve

LEMMA RejectFrees ==
    ASSUME NEW c, Reject(c)
    PROVE  refresh' = [refresh EXCEPT ![c] = NoRefresh] /\ lock' = Nobody
BY DEF Reject

LEMMA NoneFrom ==
    ASSUME AuthInv, NEW c \in Contexts, refresh[c].pc # "posted"
    PROVE  \A q \in requests : q.from # c
BY Parameters DEF AuthInv, RequestsInv

LEMMA WithLockKeeps ==
    ASSUME AuthInv, NEW c \in Contexts, NEW retry \in BOOLEAN, WithLock(c, retry),
           refresh[c].pc \in {"lock", "sleep"}, lock \in {c, Nobody},
           UNCHANGED <<server, storage, exchange, retiring, unseen, stolen, bounds>>
    PROVE  AuthInv'
<1>1. UNCHANGED <<devices, minted, stored, exchange, unseen, stolen, dbFailed>>
  BY DEF server, storage, bounds
<1>2. ~Minted(c) /\ \A q \in requests : q.from # c
  BY NoneFrom DEF Minted
<1>3. CASE Resolve(c, access.tok) /\ UNCHANGED requests
  BY <1>1, <1>2, <1>3, ResolveFrees, EndKeeps
<1>4. CASE Reject(c) /\ UNCHANGED requests
  BY <1>1, <1>2, <1>4, RejectFrees, EndKeeps
<1>5. CASE stored # Nothing /\ Post(c, retry) /\ lock' = c
  BY <1>1, <1>5, PostKeeps
<1> QED BY <1>3, <1>4, <1>5, Zenon DEF WithLock

LEMMA RefreshStepKeeps ==
    ASSUME AuthInv, NEW c \in Contexts, RefreshStep(c)
    PROVE  AuthInv'
<1>0. refresh[c].pc \notin {"none", "lock"} => lock = c
  BY DEF AuthInv, LockInv
<1>1. CASE RefreshLocked(c)
  <2>1. PICK retry \in BOOLEAN : retry = FALSE
    OBVIOUS
  <2>2. /\ refresh[c].pc = "lock" /\ lock = Nobody /\ WithLock(c, retry)
        /\ UNCHANGED <<server, storage, exchange, retiring, unseen, stolen, bounds>>
    BY <1>1, <2>1, Zenon DEF RefreshLocked
  <2> QED BY <2>1, <2>2, WithLockKeeps
<1>2. CASE ReadAgain(c)
  <2>1. PICK retry \in BOOLEAN : retry = TRUE
    OBVIOUS
  <2>2. /\ refresh[c].pc = "sleep" /\ WithLock(c, retry)
        /\ UNCHANGED <<server, storage, exchange, retiring, unseen, stolen, bounds>>
    BY <1>2, <2>1, Zenon DEF ReadAgain
  <2> QED BY <1>0, <2>1, <2>2, WithLockKeeps
<1>3. CASE Rotated(c)
  <2>1. /\ refresh[c].pc = "served" /\ refresh[c].answer = "rotated"
        /\ UNCHANGED <<devices, minted, requests, stored, exchange, unseen, stolen, dbFailed>>
    BY <1>3, Zenon DEF Rotated, server, storage, bounds
  <2>2. CASE refresh' = [refresh EXCEPT ![c].pc = "sleep", ![c].answer = "none"] /\ UNCHANGED lock
    BY <2>1, <2>2, PcKeeps
  <2>3. CASE Reject(c)
    <3>1. ~Minted(c) /\ \A q \in requests : q.from # c
      BY <2>1, NoneFrom DEF Minted
    <3> QED BY <1>0, <2>1, <2>3, <3>1, RejectFrees, EndKeeps
  <2> QED BY <1>3, <2>2, <2>3, Zenon DEF Rotated
<1>4. CASE PersistFirst(c)
  BY <1>4, PersistFirstKeeps
<1>5. CASE PersistSecond(c)
  <2>1. /\ refresh[c].pc = "half" /\ Resolve(c, refresh[c].tok)
        /\ UNCHANGED <<devices, minted, requests, stored, exchange, unseen, stolen, dbFailed>>
    BY <1>5 DEF PersistSecond, server, bounds, Persist, PersistOrder
  <2>2. ~Minted(c) /\ \A q \in requests : q.from # c
    BY <2>1, NoneFrom DEF Minted
  <2> QED BY <1>0, <2>1, <2>2, ResolveFrees, EndKeeps
<1>6. CASE ClearAccess(c)
  <2>1. /\ refresh[c].pc = "served" /\ refresh[c].answer = "gone"
        /\ refresh' = [refresh EXCEPT ![c].pc = "clear"]
        /\ UNCHANGED <<devices, minted, requests, stored, lock, exchange, unseen, stolen, dbFailed>>
    BY <1>6, Zenon DEF ClearAccess, server, bounds
  <2> QED BY <2>1, PcKeeps DEF Leaving
<1>7. CASE ClearDevice(c)
  <2>1. /\ refresh[c].pc = "clear" /\ Reject(c) /\ stored' = Nothing
        /\ UNCHANGED <<devices, minted, requests, exchange, unseen, stolen, dbFailed>>
    BY <1>7, Zenon DEF ClearDevice, server, bounds
  <2>2. ~Minted(c) /\ \A q \in requests : q.from # c
    BY <2>1, NoneFrom DEF Minted
  <2> QED BY <1>0, <2>1, <2>2, RejectFrees, EndKeeps
<1>8. CASE RequestLost(c)
  <2>1. PICK r \in requests : r.from = c /\ requests' = requests \ {r}
    BY <1>8, Zenon DEF RequestLost
  <2>2. Reject(c) /\ UNCHANGED <<devices, minted, stored, exchange, unseen, stolen, dbFailed>>
    BY <1>8, Zenon DEF RequestLost, server, storage, bounds
  <2>3. refresh[c].pc = "posted" /\ \A q \in requests' : q.from # c
    BY <2>1, Parameters DEF AuthInv, RequestsInv
  <2>4. ~Minted(c) /\ requests' \subseteq requests
    BY <2>1, <2>3 DEF Minted
  <2> QED BY <1>0, <2>2, <2>3, <2>4, RejectFrees, EndKeeps
<1> QED BY <1>1, <1>2, <1>3, <1>4, <1>5, <1>6, <1>7, <1>8, Zenon DEF RefreshStep

LEMMA AnswerLostKeeps ==
    ASSUME AuthInv, NEW c \in Contexts, AnswerLost(c)
    PROVE  AuthInv'
<1>1. /\ requests' = Orphans(c) /\ refresh[c].pc \in {"posted", "served"}
      /\ unseen' = IF Minted(c) THEN unseen \cup {refresh[c].dev} ELSE unseen
      /\ Reject(c)
      /\ UNCHANGED <<devices, minted, stored, exchange, stolen, dbFailed>>
  BY DEF AnswerLost, server, storage
<1>2. refresh' = [refresh EXCEPT ![c] = NoRefresh] /\ lock' = Nobody /\ lock = c
  BY <1>1, RejectFrees DEF AuthInv, LockInv
<1>3. /\ refresh' \in [Contexts -> RefreshRec] /\ refresh'[c] = NoRefresh
      /\ \A x \in Contexts \ {c} : refresh'[x] = refresh[x]
  BY <1>2, FreeEffect DEF AuthInv, CoreTypes
<1>4. /\ requests' \subseteq RequestRec
      /\ \A q \in requests' : q.from # c /\ \E r \in requests : q.tok = r.tok /\ (q.from # Nobody => q = r)
  BY <1>1, OrphansEffect DEF AuthInv
<1>5. Minted(c) => refresh[c].dev \in Exchanges
  BY DEF AuthInv, SecretInv
<1>6. CoreTypes'
  BY <1>1, <1>2, <1>3, <1>4, <1>5 DEF AuthInv, CoreTypes
<1>7. LockInv'
  BY <1>1, <1>2, <1>3, Parameters DEF AuthInv, LockInv, NoRefresh
<1>8. \A i \in Exchanges : /\ exchange'[i].server = exchange[i].server /\ exchange'[i].tok = exchange[i].tok
                           /\ exchange'[i].client \in {exchange[i].client, "done"}
  BY <1>1
<1>9. (Minted(c) => refresh[c].dev \in unseen') /\ unseen \subseteq unseen'
  BY <1>1
<1> QED BY <1>1, <1>2, <1>4, <1>6, <1>7, <1>8, <1>9, FreeKeeps

LEMMA DiesKeeps ==
    ASSUME AuthInv, NEW c \in Contexts, Dies(c)
    PROVE  AuthInv'
<1>1. /\ requests' = Orphans(c)
      /\ unseen' = IF Minted(c) THEN unseen \cup {refresh[c].dev} ELSE unseen
      /\ refresh' = [refresh EXCEPT ![c] = NoRefresh]
      /\ lock' = IF lock = c \/ (c = Worker /\ lock \in Exchanges) THEN Nobody ELSE lock
      /\ exchange' = IF c = Worker
                     THEN [i \in Exchanges |->
                              IF exchange[i] = NoExchange THEN NoExchange ELSE [exchange[i] EXCEPT !.client = "done"]]
                     ELSE exchange
      /\ UNCHANGED <<devices, minted, stored, stolen, dbFailed>>
  BY DEF Dies, server, storage
<1>2. /\ refresh' \in [Contexts -> RefreshRec] /\ refresh'[c] = NoRefresh
      /\ \A x \in Contexts \ {c} : refresh'[x] = refresh[x]
  BY <1>1, FreeEffect DEF AuthInv, CoreTypes
<1>3. /\ requests' \subseteq RequestRec
      /\ \A q \in requests' : q.from # c /\ \E r \in requests : q.tok = r.tok /\ (q.from # Nobody => q = r)
  BY <1>1, OrphansEffect DEF AuthInv
<1>4. Minted(c) => refresh[c].dev \in Exchanges
  BY DEF AuthInv, SecretInv
<1>5. /\ exchange' \in [Exchanges -> ExchangeRec]
      /\ \A i \in Exchanges : /\ exchange'[i].server = exchange[i].server /\ exchange'[i].tok = exchange[i].tok
                              /\ exchange'[i].client \in {exchange[i].client, "done"}
                              /\ c = Worker => exchange'[i].client \in {"none", "done"}
  <2>1. CASE c # Worker
    BY <1>1, <2>1 DEF AuthInv, CoreTypes
  <2>2. CASE c = Worker
    <3>1. ASSUME NEW i \in Exchanges
          PROVE  /\ exchange'[i] \in ExchangeRec
                 /\ exchange'[i].server = exchange[i].server /\ exchange'[i].tok = exchange[i].tok
                 /\ exchange'[i].client \in {exchange[i].client, "done"} /\ exchange'[i].client \in {"none", "done"}
      <4>1. PICK old \in ExchangeRec : old = exchange[i]
        BY DEF AuthInv, CoreTypes
      <4>2. CASE old = NoExchange
        <5>1. exchange'[i] = old
          BY <1>1, <2>2, <4>1, <4>2
        <5>2. old.client = "none"
          BY <4>2 DEF NoExchange
        <5> QED BY <4>1, <5>1, <5>2
      <4>3. CASE old # NoExchange
        <5>1. exchange'[i] = [old EXCEPT !.client = "done"]
          BY <1>1, <2>2, <4>1, <4>3
        <5>2. PICK new \in ExchangeRec : new = [old EXCEPT !.client = "done"]
          BY <4>1, ExchangeFields
        <5>3. new.client = "done" /\ new.server = old.server /\ new.tok = old.tok
          BY <4>1, <5>2, ExchangeFields
        <5> QED BY <4>1, <5>1, <5>2, <5>3
      <4> QED BY <4>2, <4>3
    <3>2. exchange' = [i \in Exchanges |-> exchange'[i]]
      BY <1>1, <2>2
    <3> QED BY <3>1, <3>2
  <2> QED BY <2>1, <2>2
<1>6. lock' \in Contexts \cup Exchanges \cup {Nobody}
  BY <1>1 DEF AuthInv, CoreTypes
<1>7. CoreTypes'
  BY <1>1, <1>2, <1>3, <1>4, <1>5, <1>6 DEF AuthInv, CoreTypes
<1>8. LockInv'
  <2>1. \A x \in Contexts : (lock = x) <=> refresh[x].pc \notin {"none", "lock"}
    BY DEF AuthInv, LockInv
  <2>2. \A i \in Exchanges : (lock = i) <=> exchange[i].client = "half"
    BY DEF AuthInv, LockInv
  <2>3. ASSUME NEW x \in Contexts
        PROVE  (lock' = x) <=> refresh'[x].pc \notin {"none", "lock"}
    <3>1. CASE x = c
      BY <1>1, <1>2, <3>1, Parameters DEF NoRefresh
    <3>2. CASE x # c
      BY <1>1, <1>2, <2>1, <3>2, Parameters
    <3> QED BY <3>1, <3>2
  <2>4. ASSUME NEW i \in Exchanges
        PROVE  (lock' = i) <=> exchange'[i].client = "half"
    <3>1. CASE c = Worker
      BY <1>1, <1>5, <3>1, Parameters
    <3>2. CASE c # Worker
      BY <1>1, <2>2, <3>2, Parameters
    <3> QED BY <3>1, <3>2
  <2> QED BY <2>3, <2>4 DEF LockInv
<1>9. (Minted(c) => refresh[c].dev \in unseen') /\ unseen \subseteq unseen'
  BY <1>1
<1> QED BY <1>1, <1>3, <1>5, <1>7, <1>8, <1>9, FreeKeeps

(* A device is revoked, by the worker or from the dashboard, or the request to revoke it is lost. *)
LEMMA RevokeKeeps ==
    ASSUME AuthInv, NEW d, devices' = [devices EXCEPT ![d] = Revoked(devices[d])] \/ devices' = devices,
           UNCHANGED <<minted, requests, stored, lock, refresh, exchange, unseen, stolen, dbFailed>>
    PROVE  AuthInv'
<1>1. PICK S : Revokes(S)
  BY RevokesOne, RevokesNone DEF AuthInv, CoreTypes
<1>2. \A x \in Exchanges :
          /\ Same(x)
          /\ devices'[x].state = IF x \in S /\ devices[x].state = "live" THEN "revoked" ELSE devices[x].state
  BY <1>1, RevokesEffect DEF AuthInv, CoreTypes
<1>3. exchange' \in [Exchanges -> ExchangeRec] /\ LockInv' /\ lock' \in Contexts \cup Exchanges \cup {Nobody}
  BY DEF AuthInv, CoreTypes, LockInv
<1>4. \A i \in Exchanges : Pending(i)' => Pending(i) /\ exchange'[i].tok = exchange[i].tok
  BY DEF Pending
<1>5. ExchangesInv'
  BY <1>2 DEF AuthInv, ExchangesInv, Pending, Same, Exists
<1>6. DevicesCapped'
  BY <1>2, CapKept DEF AuthInv
<1> QED BY <1>1, <1>3, <1>4, <1>5, <1>6, ExchangeKeeps

LEMMA CallStepKeeps ==
    ASSUME AuthInv, SideTypes, NEW k \in Calls, CallStep(k)
    PROVE  AuthInv'
<1>1. Home(k) \in Contexts /\ calls[k].tok \in 0..MaxTokens /\ 0 \in 0..MaxTokens
  BY AuthAssumption, Parameters DEF SideTypes
<1>2. UNCHANGED <<devices, minted, requests, stored, lock, exchange, unseen, stolen, dbFailed>>
  BY Zenon DEF CallStep, GetAccessToken, Rejected401, CallEnds, server, storage, bounds
<1>3. UNCHANGED refresh \/ Join(Home(k), 0) \/ Join(Home(k), calls[k].tok)
  BY Zenon DEF CallStep, GetAccessToken, Rejected401, CallEnds
<1>4. CASE UNCHANGED refresh
  BY <1>2, <1>4, Still DEF core
<1>5. CASE Join(Home(k), 0)
  BY <1>1, <1>2, <1>5, JoinKeeps
<1>6. CASE Join(Home(k), calls[k].tok)
  BY <1>1, <1>2, <1>6, JoinKeeps
<1> QED BY <1>3, <1>4, <1>5, <1>6

LEMMA SignOutKeeps ==
    ASSUME AuthInv, SignOut
    PROVE  AuthInv'
<1>1. Worker \in Contexts /\ 0 \in 0..MaxTokens
  BY Parameters DEF Contexts
<1>2. UNCHANGED <<devices, minted, requests, stored, lock, exchange, unseen, stolen, dbFailed>>
  BY Zenon DEF SignOut, server, storage, bounds
<1>3. UNCHANGED refresh \/ Join(Worker, 0)
  BY Zenon DEF SignOut
<1>4. CASE UNCHANGED refresh
  BY <1>2, <1>4, Still DEF core
<1>5. CASE Join(Worker, 0)
  BY <1>1, <1>2, <1>5, JoinKeeps
<1> QED BY <1>3, <1>4, <1>5

LEMMA SignOutStepKeeps ==
    ASSUME AuthInv, SignOutStep
    PROVE  AuthInv'
<1>1. CASE Disconnect
  <2>1. UNCHANGED <<minted, requests, stored, lock, refresh, exchange, unseen, stolen, dbFailed>>
    BY <1>1, Zenon DEF Disconnect, storage
  <2>2. devices' = [devices EXCEPT ![signout.dev] = Revoked(devices[signout.dev])] \/ devices' = devices
    BY <1>1, Zenon DEF Disconnect
  <2>3. PICK d : d = signout.dev
    OBVIOUS
  <2> QED BY <2>1, <2>2, <2>3, RevokeKeeps
<1>2. CASE ForgetAccess
  <2>1. UNCHANGED core
    BY <1>2, Zenon DEF ForgetAccess, core, server, bounds
  <2> QED BY <2>1, Still
<1>3. CASE ForgetDevice
  <2>1. stored' = Nothing /\ UNCHANGED <<devices, minted, requests, lock, refresh, exchange, unseen, stolen, dbFailed>>
    BY <1>3, Zenon DEF ForgetDevice, server, bounds
  <2>2. CoreTypes' /\ LockInv'
    <3>1. Nothing \in [dev : 0..MaxExchanges, tok : 0..MaxTokens]
      BY Parameters DEF Nothing
    <3> QED BY <2>1, <3>1 DEF AuthInv, CoreTypes, LockInv
  <2>3. \A x \in Contexts : (Minted(x)' <=> Minted(x)) /\ (Leaving(x)' <=> Leaving(x))
    BY <2>1 DEF Minted, Leaving
  <2>4. ExchangesInv' /\ \A i \in Exchanges : Pending(i)' => Pending(i) /\ exchange'[i].tok = exchange[i].tok
    BY <2>1, <2>2, ExchangesKept, SameDevices
  <2>5. RequestsInv' /\ DevicesCapped'
    BY <2>1, CapKept DEF AuthInv, RequestsInv
  <2>6. TokensInv' /\ StoredInv' /\ SecretInv' /\ TheftInv'
    <3>1. unseen \subseteq unseen' /\ stolen' \subseteq unseen' /\ \A q \in requests' : \E r \in requests : r.tok = q.tok
      BY <2>1 DEF AuthInv, TheftInv
    <3> QED BY <2>1, <2>2, <2>3, <2>4, <3>1, SameDevices, Quiet
  <2>7. GoneInv'
    BY <2>1 DEF GoneInv
  <2> QED BY <2>2, <2>4, <2>5, <2>6, <2>7 DEF AuthInv
<1> QED BY <1>1, <1>2, <1>3 DEF SignOutStep

LEMMA ServerStepKeeps ==
    ASSUME AuthInv, NEW r \in requests, ServerStep(r)
    PROVE  AuthInv'
<1>1. CASE LookUp(r)
  BY <1>1, LookUpKeeps
<1>2. CASE Rotate(r)
  <2>1. UNCHANGED <<stored, lock, exchange, stolen, dbFailed>>
    BY <1>2, Zenon DEF Rotate, storage, bounds
  <2>2. ASSUME NEW d \in Exchanges, minted < MaxTokens, minted' = minted + 1, Rotates(d, r),
               devices' = [devices EXCEPT ![d] = [devices[d] EXCEPT !.cur = minted + 1,
                                                      !.prev = devices[d].cur, !.recent = TRUE]],
               Answer(r, "ok", d, minted + 1),
               unseen' = IF r.from = Nobody THEN unseen \cup {d} ELSE unseen
        PROVE  AuthInv'
    BY <2>1, <2>2, RotateKeeps
  <2>3. CASE Answer(r, "rotated", 0, 0) /\ UNCHANGED <<devices, minted, unseen>>
    <3>1. Revokes({})
      BY <2>3, RevokesNone DEF AuthInv, CoreTypes
    <3>2. stolen' \subseteq unseen /\ dbFailed' \in BOOLEAN /\ (dbFailed => dbFailed')
      BY <2>1 DEF AuthInv, TheftInv, CoreTypes
    <3> QED BY <2>1, <2>3, <3>1, <3>2, AnswerKeeps
  <2> QED BY <1>2, <2>2, <2>3, Zenon DEF Rotate
<1> QED BY <1>1, <1>2 DEF ServerStep

LEMMA AuthStep ==
    ASSUME AuthInv, SideTypes, [Next]_vars
    PROVE  AuthInv'
<1>1. ASSUME NEW c \in Contexts, RefreshStep(c) \/ AnswerLost(c) \/ Dies(c)
      PROVE  AuthInv'
  BY <1>1, RefreshStepKeeps, AnswerLostKeeps, DiesKeeps
<1>2. ASSUME NEW r \in requests, ServerStep(r) \/ DbFails(r)
      PROVE  AuthInv'
  BY <1>2, ServerStepKeeps, DbFailsKeeps
<1>3. ASSUME NEW k \in Calls, CallStep(k)
      PROVE  AuthInv'
  BY <1>3, CallStepKeeps
<1>4. ASSUME NEW h \in Handshakes, GenerateExtensionToken(h)
      PROVE  AuthInv'
  <2>1. UNCHANGED core
    BY <1>4, Zenon DEF GenerateExtensionToken, core, storage, bounds
  <2> QED BY <2>1, Still
<1>5. ASSUME NEW i \in Exchanges, NEW h \in Handshakes, ConnectWithHandshake(i, h)
      PROVE  AuthInv'
  BY <1>5, ConnectKeeps
<1>6. ASSUME NEW i \in Exchanges, ExchangeStep(i) \/ ClientStep(i) \/ ExchangeLost(i)
      PROVE  AuthInv'
  BY <1>6, CheckKeeps, MarkKeeps, CreateKeeps, RevokeExcessKeeps, ReplaceKeeps, ConnectedKeeps, LostKeeps
     DEF ExchangeStep, ClientStep
<1>7. ASSUME NEW d \in Exchanges, Retire(d) \/ GraceLapses(d) \/ RevokeFromDashboard(d)
      PROVE  AuthInv'
  <2>1. CASE GraceLapses(d)
    BY <2>1, GraceKeeps
  <2>2. CASE Retire(d) \/ RevokeFromDashboard(d)
    <3>1. /\ UNCHANGED <<minted, requests, stored, lock, refresh, exchange, unseen, stolen, dbFailed>>
          /\ devices' = [devices EXCEPT ![d] = Revoked(devices[d])] \/ devices' = devices
      BY <2>2, Zenon DEF Retire, RevokeFromDashboard, storage, bounds
    <3> QED BY <3>1, RevokeKeeps
  <2> QED BY <1>7, <2>1, <2>2
<1>8. CASE SignOut \/ SignOutStep
  BY <1>8, SignOutKeeps, SignOutStepKeeps
<1>9. CASE AccessExpires \/ UNCHANGED vars
  <2>1. UNCHANGED core
    BY <1>9, Zenon DEF AccessExpires, core, server, storage, bounds, vars
  <2> QED BY <2>1, Still
<1> QED BY <1>1, <1>2, <1>3, <1>4, <1>5, <1>6, <1>7, <1>8, <1>9, Zenon DEF Next

-----------------------------------------------------------------------------
(* The types of what the invariant does not speak of *)

AccessRec  == [tok : 0..MaxTokens, fresh : BOOLEAN]
CallRec    == [pc : {"idle", "asking", "sent", "again", "resent"}, tok : 0..MaxTokens]
SignOutRec == [pc : {"none", "token", "delete", "clear", "cleared"}, dev : 0..MaxExchanges]

LEMMA SideTyped ==
    ASSUME ext \in [Handshakes -> {"none", "issued", "used"}], access \in AccessRec,
           connect \in {"none", "connecting", "connected", "error"}, calls \in [Calls -> CallRec],
           retiring \subseteq Exchanges, signout \in SignOutRec, stolen \subseteq Exchanges, faults \in 0..MaxFaults
    PROVE  SideTypes
BY Zenon DEF SideTypes, AccessRec, CallRec, SignOutRec

LEMMA SideParts ==
    ASSUME SideTypes
    PROVE  /\ ext \in [Handshakes -> {"none", "issued", "used"}] /\ access \in AccessRec
           /\ connect \in {"none", "connecting", "connected", "error"} /\ calls \in [Calls -> CallRec]
           /\ retiring \subseteq Exchanges /\ signout \in SignOutRec /\ stolen \subseteq Exchanges
           /\ faults \in 0..MaxFaults
BY Zenon DEF SideTypes, AccessRec, CallRec, SignOutRec

LEMMA SideNext ==
    ASSUME ext' \in [Handshakes -> {"none", "issued", "used"}], access' \in AccessRec,
           connect' \in {"none", "connecting", "connected", "error"}, calls' \in [Calls -> CallRec],
           retiring' \subseteq Exchanges, signout' \in SignOutRec, stolen' \subseteq Exchanges, faults' \in 0..MaxFaults
    PROVE  SideTypes'
BY Zenon DEF SideTypes, AccessRec, CallRec, SignOutRec

LEMMA AccessTyped ==
    /\ \A a \in AccessRec : a.tok \in 0..MaxTokens
    /\ NoAccess \in AccessRec
    /\ \A t \in 0..MaxTokens : [tok |-> t, fresh |-> TRUE] \in AccessRec
BY Parameters DEF AccessRec, NoAccess

LEMMA ExpiredTyped ==
    ASSUME NEW a \in AccessRec
    PROVE  [a EXCEPT !.fresh = FALSE] \in AccessRec
<1>1. PICK no \in BOOLEAN : no = FALSE
  OBVIOUS
<1>2. [a EXCEPT !.fresh = no] \in AccessRec
  BY <1>1 DEF AccessRec
<1> QED BY <1>1, <1>2, Zenon

LEMMA CallTyped ==
    /\ \A k \in CallRec : k.tok \in 0..MaxTokens
    /\ IdleCall \in CallRec
    /\ \A t \in 0..MaxTokens : /\ [pc |-> "sent", tok |-> t] \in CallRec /\ [pc |-> "resent", tok |-> t] \in CallRec
                               /\ [pc |-> "asking", tok |-> t] \in CallRec
BY Parameters DEF CallRec, IdleCall

LEMMA SignOutTyped ==
    /\ NoSignOut \in SignOutRec
    /\ \A s \in SignOutRec : /\ s.dev \in 0..MaxExchanges
                             /\ \A p \in {"delete", "clear", "cleared"} : [s EXCEPT !.pc = p] \in SignOutRec
    /\ \A d \in 0..MaxExchanges : [pc |-> "delete", dev |-> d] \in SignOutRec /\ [pc |-> "token", dev |-> d] \in SignOutRec
BY Parameters DEF SignOutRec, NoSignOut

LEMMA ResolveTypes ==
    ASSUME calls \in [Calls -> CallRec], signout \in SignOutRec, NEW c, NEW t \in 0..MaxTokens, Resolve(c, t)
    PROVE  calls' \in [Calls -> CallRec] /\ signout' \in SignOutRec
<1>1. ASSUME NEW k \in Calls
      PROVE  [pc |-> IF calls[k].pc = "asking" THEN "sent" ELSE "resent", tok |-> t] \in CallRec
  BY CallTyped
<1>2. calls' = [k \in Calls |-> IF ~Waits(k, c) THEN calls[k]
                                ELSE [pc |-> IF calls[k].pc = "asking" THEN "sent" ELSE "resent", tok |-> t]]
      /\ signout' = IF SignOutWaits(c) THEN [signout EXCEPT !.pc = "delete"] ELSE signout
  BY Zenon DEF Resolve
<1>3. calls' \in [Calls -> CallRec]
  BY <1>1, <1>2
<1>4. signout' \in SignOutRec
  BY <1>2, SignOutTyped
<1> QED BY <1>3, <1>4

LEMMA RejectTypes ==
    ASSUME calls \in [Calls -> CallRec], signout \in SignOutRec, NEW c, Reject(c)
    PROVE  calls' \in [Calls -> CallRec] /\ signout' \in SignOutRec
<1>1. /\ calls' = [k \in Calls |-> IF Waits(k, c) THEN IdleCall ELSE calls[k]]
      /\ signout' = IF SignOutWaits(c) THEN [signout EXCEPT !.pc = "clear"] ELSE signout
  BY Zenon DEF Reject
<1>2. calls' \in [Calls -> CallRec]
  BY <1>1, CallTyped
<1>3. signout' \in SignOutRec
  BY <1>1, SignOutTyped
<1> QED BY <1>2, <1>3

LEMMA FaultTyped ==
    ASSUME faults \in 0..MaxFaults, Fault \/ UNCHANGED faults
    PROVE  faults' \in 0..MaxFaults
BY Parameters DEF Fault

LEMMA RefreshSide ==
    ASSUME AuthInv, SideTypes, NEW c \in Contexts, RefreshStep(c) \/ AnswerLost(c)
    PROVE  SideTypes'
<1>1. /\ ext \in [Handshakes -> {"none", "issued", "used"}] /\ access \in AccessRec
      /\ connect \in {"none", "connecting", "connected", "error"} /\ calls \in [Calls -> CallRec]
      /\ retiring \subseteq Exchanges /\ signout \in SignOutRec /\ stolen \subseteq Exchanges
      /\ faults \in 0..MaxFaults
  BY SideParts
<1>2. access.tok \in 0..MaxTokens /\ refresh[c].tok \in 0..MaxTokens
  BY <1>1, AccessTyped DEF AuthInv, CoreTypes, RefreshRec
<1>3. /\ UNCHANGED <<ext, connect, retiring, stolen>>
      /\ Fault \/ UNCHANGED faults
  BY Zenon DEF RefreshStep, RefreshLocked, Rotated, ReadAgain, PersistFirst, PersistSecond, ClearAccess, ClearDevice,
               RequestLost, AnswerLost, server, storage, bounds
<1>4. (\E t \in 0..MaxTokens : Resolve(c, t)) \/ Reject(c) \/ UNCHANGED <<calls, signout>>
  BY <1>2, Zenon DEF RefreshStep, RefreshLocked, Rotated, ReadAgain, PersistFirst, PersistSecond, ClearAccess, ClearDevice,
                     RequestLost, AnswerLost, WithLock
<1>5. calls' \in [Calls -> CallRec] /\ signout' \in SignOutRec
  BY <1>1, <1>4, ResolveTypes, RejectTypes
<1>6. access' = access \/ access' = NoAccess \/ access' = [tok |-> refresh[c].tok, fresh |-> TRUE]
  BY Zenon DEF RefreshStep, RefreshLocked, Rotated, ReadAgain, PersistFirst, PersistSecond, ClearAccess, ClearDevice,
               RequestLost, AnswerLost, Persist, storage
<1>7. access' \in AccessRec
  BY <1>1, <1>2, <1>6, AccessTyped
<1>8. faults' \in 0..MaxFaults
  BY <1>1, <1>3, FaultTyped
<1> QED BY <1>1, <1>3, <1>5, <1>7, <1>8, SideNext

LEMMA OtherSide ==
    ASSUME AuthInv, SideTypes,
           \/ \E c \in Contexts : Dies(c)
           \/ \E r \in requests : ServerStep(r) \/ DbFails(r)
           \/ \E h \in Handshakes : GenerateExtensionToken(h)
           \/ \E i \in Exchanges, h \in Handshakes : ConnectWithHandshake(i, h)
           \/ \E i \in Exchanges : ExchangeStep(i) \/ ExchangeLost(i)
           \/ \E d \in Exchanges : Retire(d) \/ GraceLapses(d) \/ RevokeFromDashboard(d)
    PROVE  SideTypes'
<1>1. /\ ext \in [Handshakes -> {"none", "issued", "used"}] /\ access \in AccessRec
      /\ connect \in {"none", "connecting", "connected", "error"} /\ calls \in [Calls -> CallRec]
      /\ retiring \subseteq Exchanges /\ signout \in SignOutRec /\ stolen \subseteq Exchanges
      /\ faults \in 0..MaxFaults
  BY SideParts
<1>2. ASSUME NEW c \in Contexts, Dies(c)
      PROVE  SideTypes'
  <2>1. UNCHANGED <<ext, access, connect, stolen>> /\ Fault
        /\ (retiring' = {} \/ retiring' = retiring) /\ (signout' = NoSignOut \/ signout' = signout)
        /\ calls' = [k \in Calls |-> IF Home(k) = c THEN IdleCall ELSE calls[k]]
    BY <1>2, Zenon DEF Dies, server, storage
  <2>2. calls' \in [Calls -> CallRec] /\ signout' \in SignOutRec
    BY <1>1, <2>1, CallTyped, SignOutTyped
  <2> QED BY <1>1, <2>1, <2>2, FaultTyped, SideNext
<1>3. ASSUME NEW r \in requests, ServerStep(r) \/ DbFails(r)
      PROVE  SideTypes'
  <2>1. UNCHANGED <<ext, access, connect, calls, retiring, signout>> /\ (Fault \/ UNCHANGED faults)
    BY <1>3, Zenon DEF ServerStep, LookUp, Rotate, DbFails, server, storage, bounds
  <2>2. stolen' = stolen \/ \E d \in Exchanges : stolen' = stolen \cup {d}
    BY <1>3, Zenon DEF ServerStep, LookUp, Rotate, DbFails
  <2>3. stolen' \subseteq Exchanges
    BY <1>1, <2>2
  <2> QED BY <1>1, <2>1, <2>3, FaultTyped, SideNext
<1>4. ASSUME NEW h \in Handshakes, GenerateExtensionToken(h)
      PROVE  SideTypes'
  <2>1. ext' = [ext EXCEPT ![h] = "issued"] /\ UNCHANGED <<access, connect, calls, retiring, signout, stolen, faults>>
    BY <1>4, Zenon DEF GenerateExtensionToken, storage, bounds
  <2>2. ext' \in [Handshakes -> {"none", "issued", "used"}]
    BY <1>1, <2>1
  <2> QED BY <1>1, <2>1, <2>2, SideNext
<1>5. ASSUME NEW i \in Exchanges, NEW h \in Handshakes, ConnectWithHandshake(i, h)
      PROVE  SideTypes'
  <2>1. connect' = "connecting" /\ UNCHANGED <<ext, access, calls, retiring, signout, stolen, faults>>
    BY <1>5, Zenon DEF ConnectWithHandshake, server, bounds
  <2> QED BY <1>1, <2>1, SideNext
<1>6. ASSUME NEW i \in Exchanges, ExchangeStep(i) \/ ExchangeLost(i)
      PROVE  SideTypes'
  <2>1. UNCHANGED <<access, calls, retiring, signout, stolen>> /\ (Fault \/ UNCHANGED faults)
        /\ (connect' = connect \/ connect' = "error")
        /\ (ext' = ext \/ ext' = [ext EXCEPT ![exchange[i].ext] = "used"])
    BY <1>6, Zenon DEF ExchangeStep, CheckToken, MarkUsed, CreateDevice, RevokeExcess, RevokeExcessFails,
                           ExchangeLost, server, storage, bounds
  <2>2. ext' \in [Handshakes -> {"none", "issued", "used"}] /\ connect' \in {"none", "connecting", "connected", "error"}
    BY <1>1, <2>1
  <2> QED BY <1>1, <2>1, <2>2, FaultTyped, SideNext
<1>7. ASSUME NEW d \in Exchanges, Retire(d) \/ GraceLapses(d) \/ RevokeFromDashboard(d)
      PROVE  SideTypes'
  <2>1. UNCHANGED <<ext, access, connect, calls, signout, stolen>> /\ (Fault \/ UNCHANGED faults)
        /\ (retiring' = retiring \/ retiring' = retiring \ {d})
    BY <1>7, Zenon DEF Retire, GraceLapses, RevokeFromDashboard, server, storage, bounds
  <2>2. retiring' \subseteq Exchanges
    BY <1>1, <2>1
  <2> QED BY <1>1, <2>1, <2>2, FaultTyped, SideNext
<1> QED BY <1>2, <1>3, <1>4, <1>5, <1>6, <1>7, Zenon

LEMMA ClientSide ==
    ASSUME AuthInv, SideTypes,
           \/ \E k \in Calls : CallStep(k)
           \/ \E i \in Exchanges : ClientStep(i)
           \/ SignOut \/ SignOutStep \/ AccessExpires
    PROVE  SideTypes'
<1>1. /\ ext \in [Handshakes -> {"none", "issued", "used"}] /\ access \in AccessRec
      /\ connect \in {"none", "connecting", "connected", "error"} /\ calls \in [Calls -> CallRec]
      /\ retiring \subseteq Exchanges /\ signout \in SignOutRec /\ stolen \subseteq Exchanges
      /\ faults \in 0..MaxFaults
  BY SideParts
<1>2. access.tok \in 0..MaxTokens /\ 0 \in 0..MaxTokens
  BY <1>1, AccessTyped, Parameters
<1>3. ASSUME NEW k \in Calls, CallStep(k)
      PROVE  SideTypes'
  <2>1. UNCHANGED <<ext, access, connect, retiring, signout, stolen, faults>>
    BY <1>3, Zenon DEF CallStep, GetAccessToken, Rejected401, CallEnds, server, storage, bounds
  <2>2. \/ calls' = [calls EXCEPT ![k] = [pc |-> "sent", tok |-> access.tok]]
        \/ calls' = [calls EXCEPT ![k] = [pc |-> "resent", tok |-> access.tok]]
        \/ calls' = [calls EXCEPT ![k] = [pc |-> "asking", tok |-> 0]]
        \/ calls' = [calls EXCEPT ![k].pc = "again"]
        \/ calls' = [calls EXCEPT ![k] = IdleCall]
    BY <1>3, Zenon DEF CallStep, GetAccessToken, Rejected401, CallEnds
  <2>3. PICK old \in CallRec : old = calls[k]
    BY <1>1
  <2>4. PICK again \in CallRec : again = [old EXCEPT !.pc = "again"]
    BY <2>3 DEF CallRec
  <2>5. \E v \in CallRec : calls' = [calls EXCEPT ![k] = v]
    BY <1>2, <2>2, <2>3, <2>4, CallTyped
  <2>6. calls' \in [Calls -> CallRec]
    BY <1>1, <2>5
  <2> QED BY <1>1, <2>1, <2>6, SideNext
<1>4. ASSUME NEW i \in Exchanges, ClientStep(i)
      PROVE  SideTypes'
  <2>1. UNCHANGED <<ext, calls, signout, stolen, faults>> /\ (connect' = connect \/ connect' = "connected")
        /\ (access' = access \/ access' = [tok |-> exchange[i].tok, fresh |-> TRUE])
        /\ \/ retiring' = retiring
           \/ exchange[i].prev \in Exchanges \ {i} /\ retiring' = retiring \cup {exchange[i].prev}
    BY <1>4, Zenon DEF ClientStep, ReplaceDevice, Connected, Persist, server, bounds
  <2>2. exchange[i].tok \in 0..MaxTokens
    BY DEF AuthInv, CoreTypes, ExchangeRec
  <2>3. access' \in AccessRec /\ retiring' \subseteq Exchanges
    BY <1>1, <2>1, <2>2, AccessTyped
  <2> QED BY <1>1, <2>1, <2>3, SideNext
<1>5. ASSUME SignOut
      PROVE  SideTypes'
  <2>1. UNCHANGED <<ext, access, connect, calls, retiring, stolen, faults>>
        /\ \/ signout' = [pc |-> "delete", dev |-> stored.dev]
           \/ signout' = [pc |-> "token", dev |-> stored.dev]
    BY <1>5, Zenon DEF SignOut, server, storage, bounds
  <2>2. stored.dev \in 0..MaxExchanges
    BY DEF AuthInv, CoreTypes
  <2>3. signout' \in SignOutRec
    BY <2>1, <2>2, SignOutTyped
  <2> QED BY <1>1, <2>1, <2>3, SideNext
<1>6. ASSUME SignOutStep
      PROVE  SideTypes'
  <2>1. UNCHANGED <<ext, connect, calls, retiring, stolen>> /\ (Fault \/ UNCHANGED faults)
        /\ (access' = access \/ access' = NoAccess)
        /\ \/ signout' = [signout EXCEPT !.pc = "clear"] \/ signout' = [signout EXCEPT !.pc = "cleared"]
           \/ signout' = NoSignOut
    BY <1>6, Zenon DEF SignOutStep, Disconnect, ForgetAccess, ForgetDevice, server, storage, bounds
  <2>2. access' \in AccessRec /\ signout' \in SignOutRec
    BY <1>1, <2>1, AccessTyped, SignOutTyped
  <2> QED BY <1>1, <2>1, <2>2, FaultTyped, SideNext
<1>7. ASSUME AccessExpires
      PROVE  SideTypes'
  <2>1. access' = [access EXCEPT !.fresh = FALSE] /\ UNCHANGED <<ext, connect, calls, retiring, signout, stolen, faults>>
    BY <1>7, Zenon DEF AccessExpires, server, bounds
  <2>2. access' \in AccessRec
    BY <1>1, <2>1, ExpiredTyped
  <2> QED BY <1>1, <2>1, <2>2, SideNext
<1> QED BY <1>3, <1>4, <1>5, <1>6, <1>7, Zenon

LEMMA SideStep ==
    ASSUME AuthInv, SideTypes, [Next]_vars
    PROVE  SideTypes'
<1>1. CASE UNCHANGED vars
  <2>1. UNCHANGED <<ext, access, connect, calls, retiring, signout, stolen, faults>>
    BY <1>1, Zenon DEF vars, server, storage, bounds
  <2> QED BY <2>1, SideParts, SideNext
<1>2. ASSUME NEW c \in Contexts, RefreshStep(c) \/ AnswerLost(c)
      PROVE  SideTypes'
  BY <1>2, RefreshSide
<1> QED BY <1>1, <1>2, OtherSide, ClientSide, Zenon DEF Next

-----------------------------------------------------------------------------
(* The theorems *)

LEMMA InitAuth ==
    ASSUME Init
    PROVE  AuthInv /\ SideTypes
<1>1. /\ requests = {} /\ lock = Nobody /\ unseen = {} /\ stolen = {} /\ dbFailed = FALSE
      /\ refresh = [c \in Contexts |-> NoRefresh]
  BY Zenon DEF Init
<1>2. \A c \in Contexts : refresh[c] = NoRefresh /\ refresh[c].pc = "none" /\ ~Minted(c) /\ ~Leaving(c)
  BY <1>1 DEF NoRefresh, Minted, Leaving
<1>3. SideTypes
  <2>1. /\ ext = [h \in Handshakes |-> "none"] /\ access = NoAccess /\ connect = "none"
        /\ calls = [k \in Calls |-> IdleCall] /\ retiring = {} /\ signout = NoSignOut /\ stolen = {} /\ faults = 0
    BY Zenon DEF Init
  <2>2. faults \in 0..MaxFaults
    BY <2>1, Parameters
  <2>3. calls \in [Calls -> CallRec] /\ access \in AccessRec /\ signout \in SignOutRec
    BY <2>1, CallTyped, AccessTyped, SignOutTyped
  <2> QED BY <2>1, <2>2, <2>3, SideTyped
<1>4. /\ minted \in {0, 1} /\ 1 \in Exchanges /\ 1 \in 0..MaxTokens /\ 0 \in 0..MaxTokens /\ 0 \in 0..MaxExchanges
      /\ \A d \in Exchanges \ {1} : devices[d] = NoDevice /\ exchange[d] = NoExchange
      /\ \/ minted = 0 /\ devices[1] = NoDevice /\ exchange[1] = NoExchange /\ stored = Nothing
         \/ /\ minted = 1 /\ devices[1] = [NoDevice EXCEPT !.cur = 1, !.state = "live"]
            /\ exchange[1] = [NoExchange EXCEPT !.client = "done", !.server = "over", !.tok = 1]
            /\ stored = [dev |-> 1, tok |-> 1]
      /\ devices = [d \in Exchanges |-> devices[d]] /\ exchange = [i \in Exchanges |-> exchange[i]]
  <2>1. 1 \in Exchanges /\ 1 \in 0..MaxTokens /\ 0 \in 0..MaxTokens /\ 0 \in 0..MaxExchanges
    BY Parameters DEF Exchanges
  <2>2. CASE /\ devices = [d \in Exchanges |-> NoDevice] /\ minted = 0
             /\ stored = Nothing /\ exchange = [i \in Exchanges |-> NoExchange]
    BY <2>1, <2>2, Zenon
  <2>3. CASE /\ devices = [d \in Exchanges |->
                    IF d = 1 THEN [NoDevice EXCEPT !.cur = 1, !.state = "live"] ELSE NoDevice]
             /\ minted = 1 /\ stored = [dev |-> 1, tok |-> 1]
             /\ exchange = [i \in Exchanges |->
                    IF i = 1 THEN [NoExchange EXCEPT !.client = "done", !.server = "over", !.tok = 1] ELSE NoExchange]
    BY <2>1, <2>3, Zenon
  <2> QED BY <2>2, <2>3, Zenon DEF Init
<1>5. PICK one : one = [NoDevice EXCEPT !.cur = 1, !.state = "live"]
  OBVIOUS
<1>6. PICK over : over = [NoExchange EXCEPT !.client = "done", !.server = "over", !.tok = 1]
  OBVIOUS
<1>7. one \in DeviceRec /\ one.cur = 1 /\ one.prev = 0 /\ one.state = "live"
  <2>1. NoDevice \in DeviceRec /\ NoDevice.prev = 0
    BY Parameters DEF NoDevice, DeviceRec
  <2>2. PICK old \in DeviceRec : old = NoDevice /\ old.prev = 0
    BY <2>1
  <2>3. /\ [old EXCEPT !.cur = 1, !.state = "live"] \in DeviceRec /\ [old EXCEPT !.cur = 1, !.state = "live"].cur = 1
        /\ [old EXCEPT !.cur = 1, !.state = "live"].prev = old.prev
        /\ [old EXCEPT !.cur = 1, !.state = "live"].state = "live"
    BY <1>4, <2>2 DEF DeviceRec
  <2> QED BY <1>5, <2>2, <2>3
<1>8. over \in ExchangeRec /\ over.client = "done" /\ over.server = "over" /\ over.tok = 1
  <2>1. PICK old \in ExchangeRec : old = NoExchange
    BY NoExchangeTyped
  <2>2. PICK new : new = [old EXCEPT !.client = "done", !.server = "over", !.tok = 1]
    OBVIOUS
  <2>3. new \in ExchangeRec /\ new.client = "done" /\ new.server = "over" /\ new.tok = 1
    BY <1>4, <2>1, <2>2 DEF ExchangeRec
  <2> QED BY <1>6, <2>1, <2>2, <2>3
<1>9. /\ NoDevice \in DeviceRec /\ NoDevice.cur = 0 /\ NoDevice.prev = 0 /\ NoDevice.state = "none"
      /\ NoExchange.client = "none" /\ NoExchange.server = "none" /\ NoExchange.tok = 0
  BY Parameters DEF NoDevice, NoExchange, DeviceRec
<1>10. stored = Nothing \/ (minted = 1 /\ stored.dev = 1 /\ stored.tok = 1 /\ devices[1] = one /\ exchange[1] = over)
  BY <1>4, <1>5, <1>6
<1>11. CoreTypes
  <2>1. \A d \in Exchanges : devices[d] \in DeviceRec /\ exchange[d] \in ExchangeRec
    BY <1>4, <1>5, <1>6, <1>7, <1>8, <1>9, NoExchangeTyped
  <2>2. devices \in [Exchanges -> DeviceRec] /\ exchange \in [Exchanges -> ExchangeRec]
    BY <1>4, <2>1
  <2>3. stored \in [dev : 0..MaxExchanges, tok : 0..MaxTokens]
    <3>1. 1 \in 0..MaxExchanges
      BY <1>4, Parameters
    <3> QED BY <1>4, <3>1 DEF Nothing
  <2>4. refresh \in [Contexts -> RefreshRec]
    BY <1>1, NoRefreshTyped
  <2>5. minted \in 0..MaxTokens
    BY <1>4
  <2>6. dbFailed \in BOOLEAN
    BY <1>1
  <2> QED BY <1>1, <2>2, <2>3, <2>4, <2>5, <2>6 DEF CoreTypes
<1>12. \A d \in Exchanges : exchange[d].client \in {"none", "done"} /\ exchange[d].server \in {"none", "over"}
                            /\ (exchange[d].server = "none" => devices[d] = NoDevice /\ exchange[d].tok = 0)
  <2>1. \A d \in Exchanges : (devices[d] = NoDevice /\ exchange[d] = NoExchange) \/ exchange[d] = over
    BY <1>4, <1>6
  <2>2. over.server # "none"
    BY <1>8
  <2> QED BY <1>8, <1>9, <2>1, <2>2
<1>13. LockInv
  BY <1>1, <1>2, <1>12, Parameters DEF LockInv
<1>14. TokensInv
  <2>1. \A d \in Exchanges : devices[d] = NoDevice \/ (d = 1 /\ devices[d] = one /\ minted = 1)
    BY <1>4, <1>5
  <2> QED BY <1>4, <1>7, <1>9, <2>1 DEF TokensInv, Exists
<1>15. ExchangesInv /\ \A i \in Exchanges : ~Pending(i)
  BY <1>9, <1>12 DEF ExchangesInv, Pending, Exists
<1>16. RequestsInv /\ SecretInv /\ GoneInv
  BY <1>1, <1>2, <1>15 DEF RequestsInv, SecretInv, GoneInv
<1>17. StoredInv
  BY <1>1, <1>2, <1>4, <1>7, <1>10 DEF StoredInv, Exists
<1>18. TheftInv
  BY <1>1, <1>4, <1>5, <1>7, <1>9 DEF TheftInv
<1>19. DevicesCapped
  <2>1. Live \subseteq {1}
    BY <1>4, <1>9 DEF Live
  <2>2. IsFiniteSet({1}) /\ Cardinality({1}) = 1
    BY FS_Singleton
  <2>3. Cardinality(Live) <= 1
    BY <2>1, <2>2, FS_Subset
  <2>4. Cardinality(Live) <= DeviceCap + Cardinality(Created)
    BY <2>3, Finite, Parameters
  <2> QED BY <2>4 DEF DevicesCapped, Created
<1> QED BY <1>3, <1>11, <1>13, <1>14, <1>15, <1>16, <1>17, <1>18, <1>19 DEF AuthInv

LEMMA Inductive == Spec => [](AuthInv /\ SideTypes)
<1>1. Init => AuthInv /\ SideTypes
  BY InitAuth
<1>2. AuthInv /\ SideTypes /\ [Next]_vars => (AuthInv /\ SideTypes)'
  BY AuthStep, SideStep
<1> QED BY <1>1, <1>2, PTL DEF Spec

(* The state is what the program can hold, and the lock has one holder, that will release it. *)
THEOREM AuthTyped == Spec => []TypeOK
<1>1. AuthInv /\ SideTypes => TypeOK
  BY TypesSplit DEF AuthInv
<1> QED BY <1>1, Inductive, PTL

(* A device is revoked for the reuse of an old token only after a rotation the extension never got *)
(* to store, whatever the two contexts, the lock, the losses and the deaths do.                     *)
THEOREM NoFalseTheft == Spec => []TheftOnlyAfterLoss
<1>1. AuthInv => TheftOnlyAfterLoss
  BY DEF AuthInv, TheftInv, TheftOnlyAfterLoss
<1> QED BY <1>1, Inductive, PTL

(* The live devices stay within the cap, but for those created and not yet counted. *)
THEOREM CapHolds == Spec => []DevicesCapped
<1>1. AuthInv => DevicesCapped
  BY DEF AuthInv
<1> QED BY <1>1, Inductive, PTL

LEMMA ForgetStep ==
    ASSUME AuthInv, [Next]_vars, stored # Nothing, stored' = Nothing
    PROVE  signout.pc = "cleared" \/ devices[stored.dev].state = "revoked" \/ dbFailed
<1>1. CASE stored' = stored
  BY <1>1
<1>2. ASSUME NEW c \in Contexts, PersistFirst(c)
      PROVE  FALSE
  <2>1. Minted(c) /\ stored' = [dev |-> refresh[c].dev, tok |-> refresh[c].tok]
    BY <1>2 DEF PersistFirst, Minted, Persist, PersistOrder
  <2>2. refresh[c].dev \in Exchanges
    BY <2>1 DEF AuthInv, SecretInv
  <2> QED BY <2>1, <2>2, Parameters DEF Nothing
<1>3. ASSUME NEW i \in Exchanges, ReplaceDevice(i)
      PROVE  FALSE
  <2>1. stored' = [dev |-> i, tok |-> exchange[i].tok]
    BY <1>3 DEF ReplaceDevice, Persist, PersistOrder
  <2> QED BY <2>1, Parameters DEF Nothing
<1>4. ASSUME NEW c \in Contexts, ClearDevice(c)
      PROVE  devices[stored.dev].state = "revoked" \/ dbFailed
  <2>1. Leaving(c)
    BY <1>4 DEF ClearDevice, Leaving
  <2> QED BY <2>1 DEF AuthInv, GoneInv
<1>5. CASE ForgetDevice
  BY <1>5 DEF ForgetDevice
<1>6. \/ stored' = stored
      \/ \E c \in Contexts : PersistFirst(c) \/ ClearDevice(c)
      \/ \E i \in Exchanges : ReplaceDevice(i)
      \/ ForgetDevice
  <2>1. ASSUME NEW c \in Contexts, RefreshStep(c) \/ AnswerLost(c) \/ Dies(c)
        PROVE  stored' = stored \/ PersistFirst(c) \/ ClearDevice(c)
    <3>1. CASE PersistSecond(c)
      BY <3>1 DEF PersistSecond, Persist, PersistOrder
    <3> QED BY <2>1, <3>1, Zenon DEF RefreshStep, RefreshLocked, Rotated, ReadAgain, ClearAccess, RequestLost,
                                     AnswerLost, Dies, storage
  <2>2. ASSUME NEW r \in requests, ServerStep(r) \/ DbFails(r)
        PROVE  stored' = stored
    BY <2>2, Zenon DEF ServerStep, LookUp, Rotate, DbFails, storage
  <2>3. ASSUME NEW k \in Calls, CallStep(k)
        PROVE  stored' = stored
    BY <2>3, Zenon DEF CallStep, GetAccessToken, Rejected401, CallEnds, storage
  <2>4. ASSUME NEW h \in Handshakes, GenerateExtensionToken(h) \/ \E i \in Exchanges : ConnectWithHandshake(i, h)
        PROVE  stored' = stored
    BY <2>4, Zenon DEF GenerateExtensionToken, ConnectWithHandshake, storage
  <2>5. ASSUME NEW i \in Exchanges, ExchangeStep(i) \/ ClientStep(i) \/ ExchangeLost(i)
        PROVE  stored' = stored \/ ReplaceDevice(i)
    <3>1. CASE Connected(i)
      BY <3>1 DEF Connected, Persist, PersistOrder
    <3> QED BY <2>5, <3>1, Zenon DEF ExchangeStep, ClientStep, CheckToken, MarkUsed, CreateDevice, RevokeExcess,
                                     RevokeExcessFails, ExchangeLost, storage
  <2>6. ASSUME NEW d \in Exchanges, Retire(d) \/ GraceLapses(d) \/ RevokeFromDashboard(d)
        PROVE  stored' = stored
    BY <2>6, Zenon DEF Retire, GraceLapses, RevokeFromDashboard, storage
  <2>7. CASE SignOut \/ SignOutStep \/ AccessExpires
    BY <2>7, Zenon DEF SignOut, SignOutStep, Disconnect, ForgetAccess, AccessExpires, storage
  <2>8. CASE UNCHANGED vars
    BY <2>8, Zenon DEF vars, storage
  <2> QED BY <2>1, <2>2, <2>3, <2>4, <2>5, <2>6, <2>7, <2>8, Zenon DEF Next
<1> QED BY <1>1, <1>2, <1>3, <1>4, <1>5, <1>6

(* The credential is forgotten on the user's sign-out, or when its device is no longer live or the *)
(* server's database has failed: no race of the contexts loses a device the server would serve.    *)
THEOREM ForgetsDead == Spec => ForgetsOnlyDead
<1>1. AuthInv /\ [Next]_vars =>
          [stored # Nothing /\ stored' = Nothing =>
             signout.pc = "cleared" \/ devices[stored.dev].state = "revoked" \/ dbFailed]_vars
  BY ForgetStep
<1> QED BY <1>1, Inductive, PTL DEF Spec, ForgetsOnlyDead
=============================================================================
