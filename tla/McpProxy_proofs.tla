--------------------------- MODULE McpProxy_proofs ---------------------------
(***************************************************************************)
(* Safety of the MCP proxy, for every finite set of calls, every catalogue *)
(* and every limit of concurrent calls.                                    *)
(***************************************************************************)
EXTENDS McpProxy, FiniteSetTheorems, TLAPS

-----------------------------------------------------------------------------
(* The inductive invariant.                                                *)

(* The session that the proxy calls through is the one that is open; only  *)
(* a catch block that is about to close a transport keeps another.         *)
SessionsExact ==
  /\ client # NoSession => phase # "closing"
  /\ client # NoSession => open = {client}
  /\ client = NoSession => open = {} \/ phase = "closing"

(* A ready catalogue comes from the session in use.                        *)
CatalogueExact ==
  /\ status = "ready" /\ client # NoSession => client = lister
  /\ status = "ready" /\ client = NoSession => phase = "closing"
  /\ status = "ready" => phase # "connecting"

(* Calls in progress are counted, within the limit, and end with the       *)
(* lifetime of the proxy.                                                  *)
CountExact == active = Cardinality(Sent) /\ active <= MaxConcurrent
CallsEnd == life # "open" => Sent = {}

IInv == TypeOK /\ SessionsExact /\ CatalogueExact /\ CountExact /\ CallsEnd /\ ClosedIsQuiet

-----------------------------------------------------------------------------
(* The count of calls in progress.                                         *)

(* The calls in progress are finitely many.                                *)
LEMMA SentFinite == IsFiniteSet(Sent) /\ Cardinality(Sent) \in Nat
BY ProxyAssumption, FS_Subset, FS_CardinalityType DEF Sent

(* A step that leaves the set of calls in progress alone.                  *)
LEMMA CountKept ==
  ASSUME CountExact, CallsEnd, Sent' = Sent, active' = active, life # "open" => life' # "open",
         life' # "open" => life # "open"
  PROVE  CountExact' /\ CallsEnd'
BY DEF CountExact, CallsEnd

(* A finally block gives back the slot of its call, once.                  *)
LEMMA SlotReturned ==
  ASSUME IInv, NEW c \in Call, CallEnds(c)
  PROVE  active' \in Nat /\ CountExact' /\ CallsEnd'
<1>1. Sent' = Sent \ {c} /\ c \in Sent
  BY DEF CallEnds, Answered, Sent, IInv, TypeOK
<1>2. Cardinality(Sent \ {c}) = Cardinality(Sent) - 1
  BY <1>1, SentFinite, FS_RemoveElement
<1>3. active' = active - 1 /\ life' = life
  BY DEF CallEnds, upstream
<1>4. Cardinality(Sent') \in Nat
  BY <1>1, SentFinite, FS_RemoveElement, FS_CardinalityType
<1>. QED  BY <1>1, <1>2, <1>3, <1>4, ProxyAssumption DEF IInv, CountExact, CallsEnd, TypeOK

(* The calls that go through a session all fail with it.                   *)
LEMMA SlotsReturned ==
  ASSUME IInv, FailCalls(Sent)
  PROVE  active' = 0 /\ Sent' = {} /\ CountExact' /\ CallsEnd'
<1>1. Sent' = {}
  BY DEF FailCalls, Sent, IInv, TypeOK
<1>2. active' = 0
  BY SentFinite DEF FailCalls, IInv, CountExact
<1>3. Cardinality(Sent') = 0
  BY <1>1, FS_EmptySet
<1>. QED  BY <1>1, <1>2, <1>3, ProxyAssumption DEF CountExact, CallsEnd

(* Failing calls are well formed.                                          *)
LEMMA FailedCallsType ==
  ASSUME IInv, FailCalls(Sent)
  PROVE  /\ pc' \in [Call -> {"idle", "waiting", "resumed", "calling", "answered"}]
         /\ wanted' \in [Call -> Allowed \cup {NoSession}] /\ aborted' \in [Call -> BOOLEAN]
BY DEF FailCalls, IInv, TypeOK

(* A slot is taken only if one is left.                                    *)
LEMMA SlotTaken ==
  ASSUME IInv, NEW c \in Call, Send(c)
  PROVE  active' \in Nat /\ CountExact' /\ CallsEnd'
<1>1. Sent' = Sent \cup {c} /\ c \notin Sent
  BY DEF Send, Sent, IInv, TypeOK
<1>2. Cardinality(Sent \cup {c}) = Cardinality(Sent) + 1
  BY <1>1, SentFinite, FS_AddElement
<1>3. active' = active + 1 /\ active < MaxConcurrent /\ life = "open" /\ life' = life
  BY DEF Send, MaySend
<1>. QED  BY <1>1, <1>2, <1>3, SentFinite, ProxyAssumption DEF IInv, CountExact, CallsEnd, TypeOK

-----------------------------------------------------------------------------
(* The steps.                                                              *)

(* A discovery connects only when no session is open and the catalogue is  *)
(* not ready.                                                              *)
LEMMA Discovers ==
  ASSUME IInv, NEW force \in BOOLEAN, Discover(force), life' = life, status' = status
  PROVE  /\ client' \in Session \cup {NoSession} /\ open' \subseteq Session
         /\ phase' \in {"none", "connecting", "listing", "closing"}
         /\ page' \in 1 .. LastPage /\ found' \subseteq Allowed
         /\ lister' \in Session \cup {NoSession} /\ unread' \in BOOLEAN
         /\ SessionsExact' /\ CatalogueExact'
         /\ life # "open" => UNCHANGED <<client, open, phase>>
<1>1. CASE UNCHANGED discovery
  BY <1>1 DEF discovery, IInv, TypeOK, SessionsExact, CatalogueExact
<1>2. CASE Starts(force) /\ StartDiscovery
  BY <1>2, ProxyAssumption
  DEF Starts, StartDiscovery, IInv, TypeOK, SessionsExact, CatalogueExact
<1>. QED  BY <1>1, <1>2 DEF Discover

(* The proxy starts without sessions and calls.                            *)
LEMMA InitHolds == Init => IInv
<1>. SUFFICES ASSUME Init PROVE IInv
  OBVIOUS
<1>1. TypeOK
  <2>1. 1 \in 1 .. LastPage /\ 0 \in 0 .. MaxChanges
    BY ProxyAssumption
  <2>2. /\ pc \in [Call -> {"idle", "waiting", "resumed", "calling", "answered"}]
        /\ wanted \in [Call -> Allowed \cup {NoSession}] /\ aborted \in [Call -> BOOLEAN]
    BY DEF Init
  <2>. QED  BY <2>1, <2>2 DEF Init, TypeOK
<1>2. Sent = {}
  BY DEF Init, Sent
<1>3. CountExact /\ CallsEnd
  BY <1>2, FS_EmptySet, ProxyAssumption DEF CountExact, CallsEnd, Init
<1>. QED  BY <1>1, <1>3 DEF Init, IInv, SessionsExact, CatalogueExact, ClosedIsQuiet

(* The steps of a discovery: only the last page makes the catalogue ready, *)
(* with the session in use.                                                *)
LEMMA DiscoveryStepKeeps == IInv /\ DiscoveryStep => IInv'
<1>. SUFFICES ASSUME IInv, DiscoveryStep PROVE IInv'
  OBVIOUS
<1>. USE ProxyAssumption DEF SessionsExact, CatalogueExact, ClosedIsQuiet
<1>1. CASE Connected
  <2>1. CountExact' /\ CallsEnd'
    BY <1>1, CountKept DEF Connected, calls, Sent, IInv
  <2>. QED  BY <1>1, <2>1 DEF Connected, IInv, TypeOK, cache, calls, down, upstream
<1>2. CASE ListPage
  <2>1. UNCHANGED <<client, open, unread, wanted, aborted, active, registered, life>> /\ UNCHANGED upstream
    BY <1>2 DEF ListPage
  <2>2. /\ pc' \in [Call -> {"idle", "waiting", "resumed", "calling", "answered"}]
        /\ refresh' \in {"idle", "waiting", "resumed"}
        /\ \A c \in Call : pc'[c] = "calling" <=> pc[c] = "calling"
    BY <1>2 DEF ListPage, WakeWaiters, IInv, TypeOK
  <2>3. Sent' = Sent
    BY <2>2 DEF Sent
  <2>4. CountExact' /\ CallsEnd'
    BY <2>1, <2>3, CountKept DEF IInv
  <2>5. /\ phase' \in {"none", "listing"} /\ page' \in 1 .. LastPage /\ found' \subseteq Allowed
        /\ status' \in {status, "ready"} /\ tools' \subseteq Allowed /\ fresh' \in BOOLEAN
    <3>. DEFINE got == found \cup {t \in offered \cap Allowed : PageOf[t] = page}
    <3>1. found \subseteq Allowed /\ got \subseteq Allowed
      BY DEF IInv, TypeOK
    <3>2. CASE page < LastPage /\ page' = page + 1 /\ found' = got /\ UNCHANGED <<phase, cache>>
      BY <3>1, <3>2, <1>2 DEF ListPage, IInv, TypeOK, cache
    <3>3. CASE page = LastPage /\ page' = 1 /\ found' = {} /\ phase' = "none"
               /\ tools' = got /\ status' = "ready" /\ fresh' = TRUE
      BY <3>1, <3>3
    <3>. QED  BY <3>2, <3>3, <1>2 DEF ListPage
  <2>6. \/ lister' = lister /\ status' = status /\ phase' = phase
        \/ lister' = client /\ status' = "ready" /\ phase' = "none"
    BY <1>2 DEF ListPage, cache
  <2>7. phase = "listing" /\ client \in open /\ life # "closed"
    BY <1>2 DEF ListPage, IInv
  <2>8. SessionsExact' /\ CatalogueExact' /\ ClosedIsQuiet'
    BY <2>1, <2>5, <2>6, <2>7 DEF IInv, TypeOK
  <2>. QED  BY <2>1, <2>2, <2>4, <2>5, <2>6, <2>7, <2>8 DEF IInv, TypeOK, upstream
<1>3. CASE DiscoveryFails
  <2>1. CountExact' /\ CallsEnd'
    BY <1>3, CountKept DEF DiscoveryFails, calls, Sent, IInv
  <2>. QED  BY <1>3, <2>1 DEF DiscoveryFails, IInv, TypeOK, cache, calls, down, upstream
<1>4. CASE CatchCloses
  <2>1. active' = 0 /\ CountExact' /\ CallsEnd'
    BY <1>4, SlotsReturned DEF CatchCloses
  <2>2. /\ pc' \in [Call -> {"idle", "waiting", "resumed", "calling", "answered"}]
        /\ wanted' \in [Call -> Allowed \cup {NoSession}] /\ aborted' \in [Call -> BOOLEAN]
    BY <1>4, FailedCallsType DEF CatchCloses
  <2>. QED  BY <1>4, <2>1, <2>2 DEF CatchCloses, IInv, TypeOK, cache, down
<1>5. CASE CatchEnds
  <2>1. /\ pc' \in [Call -> {"idle", "waiting", "resumed", "calling", "answered"}]
        /\ refresh' \in {"idle", "waiting", "resumed"}
        /\ \A c \in Call : pc'[c] = "calling" <=> pc[c] = "calling"
    BY <1>5 DEF CatchEnds, WakeWaiters, IInv, TypeOK
  <2>2. CountExact' /\ CallsEnd'
    BY <1>5, <2>1, CountKept DEF CatchEnds, Sent, IInv
  <2>. QED  BY <1>5, <2>1, <2>2 DEF CatchEnds, Unavailable, IInv, TypeOK, upstream
<1>. QED  BY <1>1, <1>2, <1>3, <1>4, <1>5 DEF DiscoveryStep

(* What the upstream does: a lost session takes its calls and the          *)
(* catalogue with it.                                                      *)
LEMMA UpstreamStepKeeps == IInv /\ UpstreamStep => IInv'
<1>. SUFFICES ASSUME IInv, UpstreamStep PROVE IInv'
  OBVIOUS
<1>. USE ProxyAssumption DEF SessionsExact, CatalogueExact, ClosedIsQuiet
<1>1. CASE SessionLost
  <2>1. active' = 0 /\ CountExact' /\ CallsEnd'
    BY <1>1, SlotsReturned DEF SessionLost
  <2>2. /\ pc' \in [Call -> {"idle", "waiting", "resumed", "calling", "answered"}]
        /\ wanted' \in [Call -> Allowed \cup {NoSession}] /\ aborted' \in [Call -> BOOLEAN]
    BY <1>1, FailedCallsType DEF SessionLost
  <2>3. UNCHANGED <<phase, page, found, lister, unread, tools, registered, refresh, offered, changes, life>>
    BY <1>1 DEF SessionLost, down
  <2>4. /\ client' \in Session \cup {NoSession} /\ open' = {} /\ notice' = FALSE
        /\ status' \in {"idle", "ready", "unavailable", "closed"}
    BY <1>1 DEF SessionLost, Unavailable, IInv, TypeOK
  <2>6. fresh' \in BOOLEAN
    BY <1>1, Zenon DEF SessionLost, IInv, TypeOK
  <2>5. TypeOK'
    BY <2>1, <2>2, <2>3, <2>4, <2>6 DEF IInv, TypeOK
  <2>. QED  BY <1>1, <2>1, <2>3, <2>5 DEF SessionLost, Unavailable, IInv
<1>2. CASE OfferChanges
  <2>1. CountExact' /\ CallsEnd'
    BY <1>2, CountKept DEF OfferChanges, calls, Sent, IInv
  <2>. QED  BY <1>2, <2>1 DEF OfferChanges, IInv, TypeOK, discovery, cache, calls, down
<1>3. CASE ListChanged
  <2>1. CountExact' /\ CallsEnd'
    BY <1>3, CountKept DEF ListChanged, calls, Sent, IInv
  <2>2. TypeOK'
    BY <1>3 DEF ListChanged, IInv, TypeOK, calls, down
  <2>. QED  BY <1>3, <2>1, <2>2 DEF ListChanged, IInv, calls
<1>. QED  BY <1>1, <1>2, <1>3 DEF UpstreamStep

(* close(): the calls go first, then the session.                          *)
LEMMA CloseStepKeeps == IInv /\ CloseStep => IInv'
<1>. SUFFICES ASSUME IInv, CloseStep PROVE IInv'
  OBVIOUS
<1>. USE ProxyAssumption DEF SessionsExact, CatalogueExact, ClosedIsQuiet
<1>1. CASE Close
  <2>1. active' = 0 /\ CountExact' /\ CallsEnd'
    BY <1>1, SlotsReturned DEF Close
  <2>. QED  BY <1>1, <2>1 DEF Close, FailCalls, IInv, TypeOK, cache, down, upstream
<1>2. CASE CloseSession
  <2>1. CountExact' /\ CallsEnd'
    BY <1>2, CountKept DEF CloseSession, calls, Sent, IInv
  <2>. QED  BY <1>2, <2>1 DEF CloseSession, IInv, TypeOK, calls, down
<1>3. CASE CloseEnds
  <2>1. CountExact' /\ CallsEnd'
    BY <1>3, CountKept DEF CloseEnds, calls, Sent, IInv
  <2>2. active' = 0
    BY <1>3, FS_EmptySet DEF CloseEnds, calls, IInv, CountExact, CallsEnd
  <2>. QED  BY <1>3, <2>1, <2>2 DEF CloseEnds, IInv, TypeOK, calls, down, upstream, discovery
<1>. QED  BY <1>1, <1>2, <1>3 DEF CloseStep

(* The steps of a call.                                                    *)
LEMMA CallStepKeeps ==
  ASSUME NEW c \in Call, IInv, Invoke(c) \/ Refuse(c) \/ Send(c) \/ CallEnds(c) \/ Abort(c)
  PROVE  IInv'
<1>. USE ProxyAssumption DEF SessionsExact, CatalogueExact, ClosedIsQuiet
<1>1. CASE Invoke(c)
  <2>1. UNCHANGED <<status, tools, fresh, active, registered, refresh, offered, changes, notice, life>>
    BY <1>1 DEF Invoke, cache, down, upstream
  <2>2. UNCHANGED discovery \/ (life = "open" /\ Discover(FALSE))
    BY <1>1 DEF Invoke
  <2>3. /\ client' \in Session \cup {NoSession} /\ open' \subseteq Session
        /\ phase' \in {"none", "connecting", "listing", "closing"}
        /\ page' \in 1 .. LastPage /\ found' \subseteq Allowed
        /\ lister' \in Session \cup {NoSession} /\ unread' \in BOOLEAN
        /\ SessionsExact' /\ CatalogueExact'
        /\ life # "open" => UNCHANGED <<client, open, phase>>
    <3>1. CASE UNCHANGED discovery
      BY <3>1, <2>1 DEF discovery, IInv, TypeOK
    <3>2. CASE Discover(FALSE)
      BY <3>2, <2>1, Discovers
    <3>. QED  BY <2>2, <3>1, <3>2
  <2>4. /\ pc' \in [Call -> {"idle", "waiting", "resumed", "calling", "answered"}]
        /\ wanted' \in [Call -> Allowed \cup {NoSession}] /\ aborted' \in [Call -> BOOLEAN]
        /\ Sent' = Sent
    BY <1>1 DEF Invoke, Answered, IInv, TypeOK, Sent
  <2>5. CountExact' /\ CallsEnd'
    BY <2>1, <2>4, CountKept DEF IInv
  <2>. QED  BY <2>1, <2>3, <2>4, <2>5 DEF IInv, TypeOK
<1>2. CASE Refuse(c)
  <2>1. Sent' = Sent
    BY <1>2 DEF Refuse, Answered, IInv, TypeOK, Sent
  <2>2. CountExact' /\ CallsEnd'
    BY <1>2, <2>1, CountKept DEF Refuse, IInv
  <2>. QED  BY <1>2, <2>2 DEF Refuse, Answered, IInv, TypeOK, discovery, cache, down, upstream
<1>3. CASE Send(c)
  <2>1. active' \in Nat /\ CountExact' /\ CallsEnd'
    BY <1>3, SlotTaken
  <2>. QED  BY <1>3, <2>1 DEF Send, MaySend, IInv, TypeOK, discovery, cache, down, upstream
<1>4. CASE CallEnds(c)
  <2>1. active' \in Nat /\ CountExact' /\ CallsEnd'
    BY <1>4, SlotReturned
  <2>2. life # "closed"
    BY <1>4 DEF CallEnds, IInv, CallsEnd, Sent
  <2>. QED  BY <1>4, <2>1, <2>2 DEF CallEnds, Answered, IInv, TypeOK, discovery, cache, down, upstream
<1>5. CASE Abort(c)
  <2>1. CountExact' /\ CallsEnd'
    BY <1>5, CountKept DEF Abort, Sent, IInv
  <2>. QED  BY <1>5, <2>1 DEF Abort, IInv, TypeOK, discovery, cache, down, upstream
<1>. QED  BY <1>1, <1>2, <1>3, <1>4, <1>5

(* Every step keeps the invariant.                                         *)
LEMMA StepHolds == IInv /\ [Next]_vars => IInv'
<1>. SUFFICES ASSUME IInv, [Next]_vars PROVE IInv'
  OBVIOUS
<1>. USE ProxyAssumption DEF SessionsExact, CatalogueExact, ClosedIsQuiet
<1>1. CASE Expires
  <2>1. CountExact' /\ CallsEnd'
    BY <1>1, CountKept DEF Expires, calls, Sent, IInv
  <2>2. fresh' \in BOOLEAN /\ UNCHANGED <<discovery, status, tools, calls, down, upstream, life>>
    BY <1>1 DEF Expires
  <2>. QED  BY <2>1, <2>2 DEF IInv, TypeOK, discovery, calls, down, upstream
<1>2. CASE Reconcile
  <2>1. CountExact' /\ CallsEnd'
    BY <1>2, CountKept DEF Reconcile, calls, Sent, IInv
  <2>. QED  BY <1>2, <2>1 DEF Reconcile, IInv, TypeOK, discovery, cache, calls, upstream
<1>3. ASSUME NEW force \in BOOLEAN, Tools(force) PROVE IInv'
  <2>1. UNCHANGED <<cache, calls, registered, upstream, life>> /\ refresh' \in {"waiting", "resumed"}
    BY <1>3 DEF Tools
  <2>2. /\ client' \in Session \cup {NoSession} /\ open' \subseteq Session
        /\ phase' \in {"none", "connecting", "listing", "closing"}
        /\ page' \in 1 .. LastPage /\ found' \subseteq Allowed
        /\ lister' \in Session \cup {NoSession} /\ unread' \in BOOLEAN
        /\ SessionsExact' /\ CatalogueExact'
        /\ life # "open" => UNCHANGED <<client, open, phase>>
    BY <1>3, Discovers DEF Tools, cache
  <2>3. CountExact' /\ CallsEnd'
    BY <2>1, CountKept DEF calls, Sent, IInv
  <2>. QED  BY <2>1, <2>2, <2>3 DEF IInv, TypeOK, cache, calls, upstream
<1>4. CASE UNCHANGED vars
  <2>1. CountExact' /\ CallsEnd'
    BY <1>4, CountKept DEF vars, calls, Sent, IInv
  <2>. QED  BY <1>4, <2>1 DEF vars, IInv, TypeOK, discovery, cache, calls, down, upstream
<1>. QED
  BY <1>1, <1>2, <1>3, <1>4, DiscoveryStepKeeps, UpstreamStepKeeps, CloseStepKeeps, CallStepKeeps DEF Next

-----------------------------------------------------------------------------
(* The theorems.                                                           *)

(* IInv holds of every state the proxy can reach.                          *)
THEOREM Invariance == Spec => []IInv
<1>. QED  BY InitHolds, StepHolds, PTL DEF Spec

(* The count that limits concurrent calls is the number of calls in        *)
(* progress, whether they are answered, cancelled or lost with a session   *)
(* (manager.ts, callTool).                                                 *)
THEOREM ActiveAlwaysExact == Spec => []ActiveExact
<1>1. IInv => ActiveExact
  BY DEF IInv, CountExact, ActiveExact
<1>. QED  BY <1>1, Invariance, PTL

(* close() resolves only when no session is open or about to open          *)
(* (manager.ts, closeOnce).                                                *)
THEOREM CloseIsFinal == Spec => []ClosedIsQuiet
<1>1. IInv => ClosedIsQuiet
  BY DEF IInv
<1>. QED  BY <1>1, Invariance, PTL

(* A call is sent only while it is wanted, to the live session whose       *)
(* catalogue offers its tool (manager.ts, callTool after its await).       *)
THEOREM CallsAreSentHonestly == Spec => SentHonest
<1>. DEFINE Honest == \A c \in Call : pc[c] # "calling" /\ pc'[c] = "calling" =>
              /\ ~aborted[c] /\ life = "open"
              /\ client \in open /\ client = lister /\ wanted[c] \in tools
<1>1. IInv /\ [Next]_vars => [Honest]_vars
  <2>. SUFFICES ASSUME IInv, Next, NEW c \in Call, pc[c] # "calling", pc'[c] = "calling"
       PROVE  /\ ~aborted[c] /\ life = "open"
              /\ client \in open /\ client = lister /\ wanted[c] \in tools
    OBVIOUS
  <2>1. Send(c)
    <3>1. ASSUME NEW d \in Call, Invoke(d) \/ Refuse(d) \/ CallEnds(d) \/ Abort(d) PROVE FALSE
      BY <3>1 DEF Invoke, Refuse, CallEnds, Abort, Answered, IInv, TypeOK
    <3>2. ASSUME NEW d \in Call, Send(d) PROVE d = c
      BY <3>2 DEF Send, IInv, TypeOK
    <3>3. ASSUME DiscoveryStep PROVE FALSE
      BY <3>3 DEF DiscoveryStep, Connected, ListPage, DiscoveryFails, CatchCloses, CatchEnds,
                  calls, FailCalls, WakeWaiters, IInv, TypeOK
    <3>4. ASSUME UpstreamStep \/ CloseStep PROVE FALSE
      BY <3>4 DEF UpstreamStep, SessionLost, OfferChanges, ListChanged, CloseStep, Close,
                  CloseSession, CloseEnds, calls, FailCalls, IInv, TypeOK
    <3>5. ASSUME Expires \/ Reconcile \/ \E force \in BOOLEAN : Tools(force) PROVE FALSE
      BY <3>5 DEF Expires, Reconcile, Tools, calls
    <3>. QED  BY <3>1, <3>2, <3>3, <3>4, <3>5 DEF Next
  <2>. QED  BY <2>1 DEF Send, MaySend, IInv, SessionsExact, CatalogueExact
<1>. QED  BY <1>1, Invariance, PTL DEF Spec, SentHonest

=============================================================================
