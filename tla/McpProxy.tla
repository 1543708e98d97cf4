------------------------------ MODULE McpProxy ------------------------------
(***************************************************************************)
(* One upstream server behind the MCP proxy (src/src/proxy/manager.ts):    *)
(* its session, the cached catalogue of its tools, the discovery that      *)
(* renews the catalogue and the calls that go through.  Upstreams share    *)
(* nothing but the lifetime of the proxy.  The names a downstream server   *)
(* has registered (register.ts) lag behind the catalogue.                  *)
(*                                                                         *)
(* JavaScript runs to completion: what waits for a promise continues, as a *)
(* microtask, before the next event is handled (Quiet).                    *)
(***************************************************************************)
EXTENDS Integers, FiniteSets

CONSTANTS
  Call,            \* calls of downstream clients, each made at most once
  Tool,            \* names the upstream may offer
  Allowed,         \* allowTools of the configuration
  PageOf,          \* the page of tools/list that holds a tool
  LastPage,        \* the page without a nextCursor
  Session,         \* identities of Client objects; a forgotten one may be used again
  NoSession,       \* state.client is undefined
  MaxConcurrent,   \* maxConcurrent of the upstream
  MaxChanges       \* bound: changes of what the upstream offers

ASSUME ProxyAssumption ==
  /\ Allowed \subseteq Tool
  /\ LastPage \in Nat \ {0}
  /\ PageOf \in [Tool -> 1 .. LastPage]
  /\ MaxConcurrent \in Nat \ {0}
  /\ MaxChanges \in Nat
  /\ NoSession \notin Session
  /\ IsFiniteSet(Call)

VARIABLES
  client,      \* state.client
  open,        \* sessions whose transport is not closed
  phase,       \* how far the shared discovery (state.pending) is
  page, found, \* the page it asks for, the tools it collected
  status,      \* state.status
  tools,       \* state.tools
  fresh,       \* Date.now() < state.expiresAt
  active,      \* state.active
  life,        \* "open", then "closing" (lifetime aborted), then "closed"
  registered,  \* the tools of the downstream server
  refresh,     \* the tools(force) call whose result it registers
  pc, wanted, aborted,   \* per call
  offered, changes, notice,      \* the upstream: its tools, a notification on the way
  lister, unread  \* history: the session tools came from; a handled
                  \* notification that no later discovery has looked after

discovery == <<client, open, phase, page, found, lister, unread>>
cache     == <<status, tools, fresh>>
calls     == <<pc, wanted, aborted, active>>
down      == <<registered, refresh>>
upstream  == <<offered, changes, notice>>
vars      == <<discovery, cache, calls, down, upstream, life>>

Sent == {c \in Call : pc[c] = "calling"}

TypeOK ==
  /\ client \in Session \cup {NoSession} /\ open \subseteq Session
  /\ phase \in {"none", "connecting", "listing", "closing"}
  /\ page \in 1 .. LastPage /\ found \subseteq Allowed
  /\ status \in {"idle", "ready", "unavailable", "closed"}
  /\ tools \subseteq Allowed /\ fresh \in BOOLEAN /\ active \in Nat
  /\ life \in {"open", "closing", "closed"}
  /\ registered \subseteq Allowed /\ refresh \in {"idle", "waiting", "resumed"}
  /\ pc \in [Call -> {"idle", "waiting", "resumed", "calling", "answered"}]
  /\ wanted \in [Call -> Allowed \cup {NoSession}] /\ aborted \in [Call -> BOOLEAN]
  /\ offered \subseteq Tool /\ changes \in 0 .. MaxChanges /\ notice \in BOOLEAN
  /\ lister \in Session \cup {NoSession} /\ unread \in BOOLEAN

Init ==
  /\ client = NoSession /\ open = {} /\ phase = "none" /\ page = 1 /\ found = {}
  /\ status = "idle" /\ tools = {} /\ fresh = FALSE /\ active = 0
  /\ life = "open" /\ registered = {} /\ refresh = "idle"
  /\ pc = [c \in Call |-> "idle"] /\ wanted = [c \in Call |-> NoSession]
  /\ aborted = [c \in Call |-> FALSE]
  /\ offered \in SUBSET Tool /\ changes = 0 /\ notice = FALSE
  /\ lister = NoSession /\ unread = FALSE

Quiet == refresh # "resumed" /\ \A c \in Call : pc[c] # "resumed"

(***************************************************************************)
(* Discovery.                                                              *)
(***************************************************************************)
\* discover() gives the promise of the running discovery, starts one when
\* forced or when the catalogue has expired, and else has nothing to wait for.
Starts(force) == life = "open" /\ phase = "none" /\ (force \/ ~fresh)
Waits(force)  == life = "open" /\ (phase # "none" \/ force \/ ~fresh)

StartDiscovery ==
  /\ unread' = FALSE /\ UNCHANGED <<page, found, lister>>
  /\ \/ /\ client # NoSession
        /\ phase' = "listing" /\ UNCHANGED <<client, open>>
     \/ /\ client = NoSession
        /\ phase' = "connecting"
        /\ \E s \in Session \ (open \cup {lister}) : client' = s /\ open' = open \cup {s}

Discover(force) == IF Starts(force) THEN StartDiscovery ELSE UNCHANGED discovery

\* Everyone who awaited state.pending continues.
WakeWaiters ==
  /\ pc' = [c \in Call |-> IF pc[c] = "waiting" THEN "resumed" ELSE pc[c]]
  /\ refresh' = IF refresh = "waiting" THEN "resumed" ELSE refresh

Connected ==
  /\ Quiet /\ phase = "connecting" /\ client \in open
  /\ phase' = "listing"
  /\ UNCHANGED <<client, open, page, found, lister, unread, cache, calls, down, upstream, life>>

\* One tools/list request; the last page publishes the catalogue.
ListPage ==
  /\ Quiet /\ phase = "listing" /\ client \in open
  /\ LET got == found \cup {t \in offered \cap Allowed : PageOf[t] = page} IN
     \/ /\ page < LastPage /\ page' = page + 1 /\ found' = got
        /\ UNCHANGED <<phase, lister, cache, pc, refresh>>
     \/ /\ page = LastPage /\ page' = 1 /\ found' = {}
        /\ phase' = "none" /\ lister' = client
        /\ tools' = got /\ status' = "ready" /\ fresh' = TRUE
        /\ WakeWaiters
  /\ UNCHANGED <<client, open, unread, wanted, aborted, active, registered, upstream, life>>

\* connect, a page or a check fails or takes too long: the catch block drops
\* the client at once and then waits for its transport to close.
DiscoveryFails ==
  /\ Quiet /\ phase \in {"connecting", "listing"}
  /\ phase' = "closing" /\ client' = NoSession /\ page' = 1 /\ found' = {}
  /\ UNCHANGED <<open, lister, unread, cache, calls, down, upstream, life>>

\* The calls that go through a session fail when it closes; finally gives
\* back their slots.
FailCallsKeepSlots_Slip(failing) ==
  /\ pc' = [c \in Call |-> IF c \in failing THEN "answered" ELSE pc[c]]
  /\ wanted' = [c \in Call |-> IF c \in failing THEN NoSession ELSE wanted[c]]
  /\ UNCHANGED <<aborted, active>>
FailCalls(failing) ==
  /\ pc' = [c \in Call |-> IF c \in failing THEN "answered" ELSE pc[c]]
  /\ wanted' = [c \in Call |-> IF c \in failing THEN NoSession ELSE wanted[c]]
  /\ active' = active - Cardinality(failing)
  /\ UNCHANGED aborted

Unavailable == IF life = "open" THEN "unavailable" ELSE "closed"

CatchCloses ==
  /\ Quiet /\ phase = "closing" /\ open # {}
  /\ open' = {} /\ FailCalls(Sent) /\ notice' = FALSE
  /\ UNCHANGED <<client, phase, page, found, lister, unread, cache, down, offered, changes, life>>

CatchEnds_Slip ==
  /\ Quiet /\ phase = "closing" /\ open = {}
  /\ phase' = "none" /\ status' = Unavailable /\ fresh' = TRUE
  /\ UNCHANGED <<client, open, page, found, lister, unread, tools, calls, down, upstream, life>>
CatchEnds ==
  /\ Quiet /\ phase = "closing" /\ open = {}
  /\ phase' = "none" /\ status' = Unavailable /\ fresh' = TRUE
  /\ WakeWaiters
  /\ UNCHANGED <<client, open, page, found, lister, unread, tools, wanted, aborted,
                 active, registered, upstream, life>>

Expires ==
  /\ Quiet /\ fresh /\ fresh' = FALSE
  /\ UNCHANGED <<discovery, status, tools, calls, down, upstream, life>>

(***************************************************************************)
(* What the upstream does.                                                 *)
(***************************************************************************)
\* client.onclose.
SessionLost ==
  /\ Quiet /\ open # {}
  /\ open' = {} /\ FailCalls(Sent) /\ notice' = FALSE
  /\ \/ /\ client \in open
        /\ client' = NoSession /\ fresh' = FALSE /\ status' = Unavailable
     \/ /\ client \notin open
        /\ UNCHANGED <<client, fresh, status>>
  /\ UNCHANGED <<phase, page, found, lister, unread, tools, down, offered, changes, life>>

OfferChanges ==
  /\ Quiet /\ changes < MaxChanges
  /\ changes' = changes + 1
  /\ offered' \in SUBSET Tool \ {offered}
  /\ notice' = (open # {})
  /\ UNCHANGED <<discovery, cache, calls, down, life>>

\* The handler of notifications/tools/list_changed.
ListChanged ==
  /\ Quiet /\ notice /\ notice' = FALSE
  /\ fresh' = FALSE /\ unread' = TRUE
  /\ UNCHANGED <<client, open, phase, page, found, lister, status, tools, calls, down, offered,
                 changes, life>>

(***************************************************************************)
(* Downstream.                                                             *)
(***************************************************************************)
\* registerProxyTools lists the tools when a server starts, proxy.refresh
\* forces a discovery.
Tools(force) ==
  /\ Quiet /\ refresh = "idle"
  /\ refresh' = IF Waits(force) THEN "waiting" ELSE "resumed"
  /\ Discover(force)
  /\ UNCHANGED <<cache, calls, registered, upstream, life>>

Reconcile ==
  /\ refresh = "resumed" /\ refresh' = "idle"
  /\ registered' = tools
  /\ UNCHANGED <<discovery, cache, calls, upstream, life>>

\* An answer ends a call; what it said no longer matters.
Answered(c) ==
  /\ pc' = [pc EXCEPT ![c] = "answered"]
  /\ wanted' = [wanted EXCEPT ![c] = NoSession]
  /\ aborted' = [aborted EXCEPT ![c] = FALSE]

\* A call of a registered tool, as far as its first await; its caller may
\* have gone while it queued for admission.
Invoke(c) ==
  /\ Quiet /\ pc[c] = "idle" /\ registered # {}
  /\ \/ Answered(c) /\ UNCHANGED discovery
     \/ /\ life = "open"
        /\ \E t \in registered : wanted' = [wanted EXCEPT ![c] = t]
        /\ pc' = [pc EXCEPT ![c] = IF Waits(FALSE) THEN "waiting" ELSE "resumed"]
        /\ Discover(FALSE) /\ UNCHANGED aborted
  /\ UNCHANGED <<cache, active, down, upstream, life>>

\* The checks after the await: CANCELLED, UNKNOWN_UPSTREAM_TOOL,
\* UPSTREAM_UNAVAILABLE, UPSTREAM_BUSY.  Nothing is awaited between the last
\* of them and the slot it guards.
MaySendUnchecked_Slip(c) ==
  /\ wanted[c] \in tools
  /\ client # NoSession /\ status = "ready"
  /\ active < MaxConcurrent
MaySend(c) ==
  /\ ~aborted[c] /\ life = "open"
  /\ wanted[c] \in tools
  /\ client # NoSession /\ status = "ready"
  /\ active < MaxConcurrent

Refuse(c) ==
  /\ pc[c] = "resumed" /\ ~MaySend(c) /\ Answered(c)
  /\ UNCHANGED <<discovery, cache, active, down, upstream, life>>

Send(c) ==
  /\ pc[c] = "resumed" /\ MaySend(c)
  /\ pc' = [pc EXCEPT ![c] = "calling"]
  /\ active' = active + 1
  /\ UNCHANGED <<discovery, cache, wanted, aborted, down, upstream, life>>

\* The upstream answers, the answer is too long, or the deadline passes; the
\* caller may also abort a call it has sent.
CallEnds(c) ==
  /\ Quiet /\ pc[c] = "calling" /\ Answered(c)
  /\ active' = active - 1
  /\ UNCHANGED <<discovery, cache, down, upstream, life>>

\* An abort while the call waits for a discovery is noticed after it.
Abort(c) ==
  /\ Quiet /\ pc[c] = "waiting" /\ ~aborted[c]
  /\ aborted' = [aborted EXCEPT ![c] = TRUE]
  /\ UNCHANGED <<discovery, cache, pc, wanted, active, down, upstream, life>>

(***************************************************************************)
(* closeOnce: abort the lifetime, which cancels the calls and fails the    *)
(* discovery; close the client; wait for the discovery.                    *)
(***************************************************************************)
Close ==
  /\ Quiet /\ life = "open" /\ life' = "closing"
  /\ FailCalls(Sent)
  /\ \/ /\ phase \in {"connecting", "listing"}
        /\ phase' = "closing" /\ client' = NoSession /\ page' = 1 /\ found' = {}
     \/ /\ phase \notin {"connecting", "listing"}
        /\ UNCHANGED <<phase, client, page, found>>
  /\ UNCHANGED <<open, lister, unread, cache, down, upstream>>

CloseSession ==
  /\ Quiet /\ life = "closing" /\ client \in open
  /\ client' = NoSession /\ open' = open \ {client} /\ notice' = FALSE
  /\ fresh' = FALSE /\ status' = "closed"
  /\ UNCHANGED <<phase, page, found, lister, unread, tools, calls, down, offered, changes, life>>

CloseEnds_Slip ==
  /\ Quiet /\ life = "closing" /\ client = NoSession
  /\ life' = "closed" /\ status' = "closed"
  /\ UNCHANGED <<discovery, tools, fresh, calls, down, upstream>>
CloseEnds ==
  /\ Quiet /\ life = "closing" /\ client = NoSession /\ phase = "none"
  /\ life' = "closed" /\ status' = "closed"
  /\ UNCHANGED <<discovery, tools, fresh, calls, down, upstream>>

DiscoveryStep == Connected \/ ListPage \/ DiscoveryFails \/ CatchCloses \/ CatchEnds
UpstreamStep  == SessionLost \/ OfferChanges \/ ListChanged
CloseStep     == Close \/ CloseSession \/ CloseEnds

Next ==
  \/ DiscoveryStep \/ UpstreamStep \/ CloseStep \/ Expires \/ Reconcile
  \/ \E force \in BOOLEAN : Tools(force)
  \/ \E c \in Call : Invoke(c) \/ Refuse(c) \/ Send(c) \/ CallEnds(c) \/ Abort(c)

Spec == Init /\ [][Next]_vars

(***************************************************************************)
(* Every request of a discovery has a timeout, so has every call; what was *)
(* woken continues.  Fairness is strong because the microtasks of other    *)
(* callers keep these events waiting, over and over but never for good.    *)
(* Nothing else is promised to happen.                                     *)
(***************************************************************************)
Fairness ==
  /\ SF_vars(DiscoveryStep) /\ WF_vars(Reconcile)
  /\ \A c \in Call : WF_vars(Refuse(c) \/ Send(c)) /\ SF_vars(CallEnds(c))

FairSpec == Spec /\ Fairness

(***************************************************************************)
(* Properties.                                                             *)
(***************************************************************************)
\* The count of active calls that limits concurrency and that proxy.status
\* shows is exact: every way a call ends gives its slot back once.
ActiveExact == TypeOK /\ active = Cardinality(Sent) /\ active <= MaxConcurrent

\* What was true before the await is true when the call is sent: it is
\* wanted, the proxy lives, and it goes to a live session, the one whose
\* catalogue offers the tool.
SentHonest ==
  [][\A c \in Call : pc[c] # "calling" /\ pc'[c] = "calling" =>
       /\ ~aborted[c] /\ life = "open"
       /\ client \in open /\ client = lister /\ wanted[c] \in tools]_vars

\* When close() has resolved no session is open and none will be: a discovery
\* that was connecting at that moment is over too.
ClosedIsQuiet ==
  life = "closed" => open = {} /\ phase = "none" /\ active = 0 /\ status = "closed"

\* Every call is answered: whoever awaits the shared discovery is woken by
\* its failure too, and a call the upstream never answers meets its deadline.
EveryCallAnswered ==
  \A c \in Call : pc[c] \in {"waiting", "resumed", "calling"} ~> pc[c] = "answered"

\* docs/MCP-PROXY.md:158 promises that a list-change notification invalidates
\* the cache; one that a discovery in flight has not seen does not (manager.ts:150).
ChangeInvalidates == status = "ready" /\ fresh => ~unread

=============================================================================
