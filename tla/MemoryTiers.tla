---------------------------- MODULE MemoryTiers ----------------------------
(***************************************************************************)
(* The memory package: the session and the store tier of a Manager, kept  *)
(* in one backend (MapStore) under keys that spell the tier, the agent and *)
(* the session, and the two bulk moves between tiers.                      *)
(*                                                                         *)
(* A key and an identifier are sequences of characters, because what      *)
(* keeps one view's entries from another's is a prefix match.  A call on a *)
(* tier holds the tier's mutex, so it is one step; a promotion and an      *)
(* archival list once and write entry by entry, with other calls between.  *)
(***************************************************************************)
EXTENDS Naturals, Sequences, FiniteSets, SequencesExt

CONSTANTS
  View,       \* the [agent, session] identities of the session tier
  LogicalKey, \* keys of the Memory API, sequences of characters
  Datum,      \* values
  MaxEntries  \* bound on the records of the backend

\* Identifiers and keys are strings in the code, sequences of characters here.
ASSUME MemoryAssumption ==
  /\ \A v \in View : v = [agent |-> v.agent, session |-> v.session]
  /\ \A v \in View : v.agent \in Seq(STRING) /\ v.session \in Seq(STRING)
  /\ \A k \in LogicalKey : k \in Seq(STRING)

VARIABLES
  tierEntries,   \* MapStore.entries: physical key -> [val, ttl, expired]
  mover,     \* the bulk move under way, per view
  caller     \* the tier the last step went through

memVars == <<tierEntries, mover, caller>>

Colon == ":"

\* A backend without the encoding: identifiers spelled as they are.
EncodeScopeID_Raw(id) == id

\* base64url never yields the delimiter: one opaque character per identifier.
EncodeScopeID(id) == << <<"b64", id>> >>

KeyPrefix(tier) ==
  <<"mem", Colon, tier.scope, Colon>> \o EncodeScopeID(tier.agent) \o <<Colon>>
    \o EncodeScopeID(tier.session) \o <<Colon>>

PhysicalKey(tier, k) == KeyPrefix(tier) \o k

LogicalOf(tier, p) ==
  IF IsPrefix(KeyPrefix(tier), p)
    THEN SubSeq(p, Len(KeyPrefix(tier)) + 1, Len(p)) ELSE p

\* Manager.ForSession: the shared backend and mutex under another identity.
ForSession(v) == [scope |-> "session", agent |-> v.agent, session |-> v.session]

\* The store tier keeps both identity segments empty.
StoreTier == [scope |-> "store", agent |-> <<>>, session |-> <<>>]

\* Time, and the end of a bulk move: no call on a tier.
NoTier == [scope |-> "none", agent |-> <<>>, session |-> <<>>]

Tier == {ForSession(v) : v \in View} \cup {StoreTier}

---------------------------------------------------------------------------
(* MapStore *)

Live(e) == {p \in DOMAIN e : ~e[p].expired}
Drop(e, ps) == [p \in DOMAIN e \ ps |-> e[p]]

StoreSet(e, p, val, ttl) ==
  [q \in DOMAIN e \cup {p} |->
     IF q = p THEN [val |-> val, ttl |-> ttl, expired |-> FALSE] ELSE e[q]]

Room(ps) == Cardinality(DOMAIN tierEntries \cup ps) <= MaxEntries

\* List drops every expired record it meets, of any prefix.
StoreList(e, prefix) == {p \in Live(e) : IsPrefix(prefix, p)}

\* What a tier shows: logical key and value of every entry under its prefix.
Shown(e, tier) ==
  {[key |-> LogicalOf(tier, p), val |-> e[p].val] : p \in StoreList(e, KeyPrefix(tier))}

---------------------------------------------------------------------------

MemInit ==
  /\ tierEntries = [p \in {} |-> 0]
  /\ mover = [v \in View |-> [op |-> "none", left |-> {}]]
  /\ caller = NoTier

TierSet(tier) ==
  \E k \in LogicalKey, d \in Datum, ttl \in BOOLEAN :
    /\ Room({PhysicalKey(tier, k)})
    /\ tierEntries' = StoreSet(tierEntries, PhysicalKey(tier, k), d, ttl)
    /\ caller' = tier
    /\ UNCHANGED mover

\* One Set per entry on a plain store, one call on a BatchStore: under the
\* mutex the two look the same.
TierBatchSet(tier) ==
  \E d \in Datum :
    LET ps == {PhysicalKey(tier, k) : k \in LogicalKey} IN
    /\ Room(ps)
    /\ tierEntries' = [p \in DOMAIN tierEntries \cup ps |->
                     IF p \in ps THEN [val |-> d, ttl |-> FALSE, expired |-> FALSE]
                                 ELSE tierEntries[p]]
    /\ caller' = tier
    /\ UNCHANGED mover

\* Get removes the record it finds expired.
TierGet(tier) ==
  \E k \in LogicalKey :
    LET p == PhysicalKey(tier, k) IN
    /\ p \in DOMAIN tierEntries /\ tierEntries[p].expired
    /\ tierEntries' = Drop(tierEntries, {p})
    /\ caller' = tier
    /\ UNCHANGED mover

TierDelete(tier) ==
  \E k \in LogicalKey :
    /\ PhysicalKey(tier, k) \in DOMAIN tierEntries
    /\ tierEntries' = Drop(tierEntries, {PhysicalKey(tier, k)})
    /\ caller' = tier
    /\ UNCHANGED mover

\* List the prefix, then delete key by key: a delete that fails leaves the
\* rest, so any subset of the listed keys may go.
TierClear(tier) ==
  \E gone \in SUBSET StoreList(tierEntries, KeyPrefix(tier)) :
    /\ DOMAIN tierEntries # {}
    /\ tierEntries' = [p \in Live(tierEntries) \ gone |-> tierEntries[p]]
    /\ caller' = tier
    /\ UNCHANGED mover

\* A record with a ttl runs out.
Expire ==
  \E p \in DOMAIN tierEntries :
    /\ tierEntries[p].ttl /\ ~tierEntries[p].expired
    /\ tierEntries' = [tierEntries EXCEPT ![p].expired = TRUE]
    /\ caller' = NoTier
    /\ UNCHANGED mover

\* PromoteToSession up to its first write: of the entries a run leaves in its
\* working memory, those the promoter selects.
StartPromote(v) ==
  /\ mover[v].op = "none"
  /\ \E sel \in SUBSET LogicalKey, d \in Datum :
       mover' = [mover EXCEPT ![v] = [op |-> "promote",
                   left |-> {[key |-> k, val |-> d, ttl |-> FALSE] : k \in sel}]]
  /\ caller' = ForSession(v)
  /\ UNCHANGED tierEntries

\* ArchiveToStore up to its first write: what the session tier lists now.
StartArchive(v) ==
  LET listed == {[key |-> LogicalOf(ForSession(v), p), val |-> tierEntries[p].val,
                  ttl |-> tierEntries[p].ttl]
                 : p \in StoreList(tierEntries, KeyPrefix(ForSession(v)))} IN
  /\ mover[v].op = "none" /\ listed # {}
  /\ \E sel \in SUBSET listed :
       mover' = [mover EXCEPT ![v] = [op |-> "archive", left |-> sel]]
  /\ tierEntries' = Drop(tierEntries, DOMAIN tierEntries \ Live(tierEntries))
  /\ caller' = ForSession(v)

\* One write of the loop, in map order.
MoveOne(v) ==
  \E w \in mover[v].left :
    LET tier == IF mover[v].op = "promote" THEN ForSession(v) ELSE StoreTier IN
    /\ Room({PhysicalKey(tier, w.key)})
    /\ tierEntries' = StoreSet(tierEntries, PhysicalKey(tier, w.key), w.val, w.ttl)
    /\ mover' = [mover EXCEPT ![v].left = @ \ {w}]
    /\ caller' = tier

\* The loop is done, or a write failed and the rest is abandoned.
EndMove(v) ==
  /\ mover[v].op # "none"
  /\ mover' = [mover EXCEPT ![v] = [op |-> "none", left |-> {}]]
  /\ caller' = NoTier
  /\ UNCHANGED tierEntries

TierStep(tier) ==
  \/ TierSet(tier) \/ TierBatchSet(tier) \/ TierGet(tier)
  \/ TierDelete(tier) \/ TierClear(tier)

MemStep ==
  \/ \E t \in Tier : TierStep(t)
  \/ \E v \in View : StartPromote(v) \/ StartArchive(v) \/ MoveOne(v) \/ EndMove(v)
  \/ Expire

MemSpec == MemInit /\ [][MemStep]_memVars

---------------------------------------------------------------------------
(* No call through one tier or session view, Clear and the bulk moves      *)
(* included, adds, changes or removes an entry another view still shows    *)
(* (base.go Clear: "sibling scopes ... stay intact"); only time may take   *)
(* an entry from a view that did not act.                                  *)
SiblingsIntact ==
  [][\A t \in Tier :
       \/ t = caller'
       \/ Shown(tierEntries', t) = Shown(tierEntries, t)
       \/ caller' = NoTier /\ Shown(tierEntries', t) \subseteq Shown(tierEntries, t)]_memVars
=============================================================================
