---------------------------- MODULE ClientProofs ----------------------------
(***************************************************************************)
(* The safety of the three parts of a Client that threads share, for any     *)
(* number of them: the DiscoveryCache forgets nothing that a refresh which   *)
(* ran alone has seen (Discovery), the transports of the streams are whole   *)
(* until close() and nothing is open after it (Transports), and a bare agent *)
(* id reaches the paired user's agent (Agents).  And what a call carries:    *)
(* a function receives the arguments that Python would give it (Arguments).  *)
(***************************************************************************)
EXTENDS Discovery, Transports, Agents, Arguments, FiniteSetTheorems, TLAPS

-----------------------------------------------------------------------------
(* Discovery: the invariant                                                 *)

Rows == [ability : Abilities, version : Nat]
Replacing == {"clear", "clear_carriers", "clear_candidates", "fill"}
Calling == {"address", "carrier", "lookup", "remember", "dispatch"}

Operations ==
    [pc : {"idle", "fetch"} \cup Replacing \cup Calling,
     method : {"none", "functions", "list"} \cup CallMethods,
     ability : Abilities \cup {Verb}, pin : Nat, version : Nat,
     carrier : {"unary", "stream"}, rows : Seq(Rows), quiet : BOOLEAN, floor : [Abilities -> Nat]]

DiscoveryTypeOK ==
    /\ {catalogue, issued, descriptors, floor} \subseteq [Abilities -> Nat]
    /\ \A a \in Abilities : catalogue[a] \in {0, issued[a]}
    /\ candidates \in Seq(Rows) /\ cursor \in Nat
    /\ local \in [Threads -> Operations]

\* Rows of the catalogue that are not older than f, and a cache of such rows.
NotBefore(rows, f) == \A i \in 1 .. Len(rows) : rows[i].version >= f[rows[i].ability]
Known(versions, rows, f) ==
    /\ \A a \in Abilities : versions[a] = 0 \/ versions[a] >= f[a]
    /\ NotBefore(rows, f)

\* The daemon has passed every floor, and the cache knows nothing older.
FloorHolds ==
    /\ \A a \in Abilities : floor[a] <= Current[a]
    /\ Known(descriptors, candidates, floor)

\* What a listing carries into the cache.
ListingHolds(l) ==
    l.pc \in Replacing =>
      /\ NotBefore(l.rows, floor) /\ NotBefore(l.rows, l.floor)
      /\ \A a \in Abilities : l.floor[a] <= Current[a]

\* What a call resolved its target to.
CallHolds(l) ==
    l.pc \in Calling =>
      /\ \A a \in Abilities : l.floor[a] <= floor[a]
      /\ l.pc # "address" => l.ability \in Abilities
      /\ l.pc \in {"carrier", "remember", "dispatch"} /\ Pinned(l.method, l.pin) = 0 =>
           \/ l.version >= floor[l.ability]
           \/ l.pc = "carrier" /\ l.version = 0
      /\ l.pc = "carrier" /\ Pinned(l.method, l.pin) # 0 => l.version # 0
      /\ l.pc \in {"lookup", "remember"} => Pinned(l.method, l.pin) = 0

\* While a refresh is alone, the cache is what it makes of it.
AloneHolds(t) ==
    LET l == local[t] IN
    l.quiet =>
      /\ \A u \in Threads \ {t} : At(u, "idle")
      /\ l.pc \in {"clear_carriers", "clear_candidates"} => \A a \in Abilities : descriptors[a] = 0
      /\ l.pc = "fill" /\ l.method = "functions" => Known(descriptors, candidates, l.floor)

IdleHolds(l) == l.pc = "idle" => ~l.quiet

DiscoveryInv ==
    /\ DiscoveryTypeOK
    /\ FloorHolds
    /\ \A t \in Threads :
         ListingHolds(local[t]) /\ CallHolds(local[t]) /\ AloneHolds(t) /\ IdleHolds(local[t])

-----------------------------------------------------------------------------
(* Discovery: the rows of a listing                                         *)

\* The rows of a finite set are members of it.
LEMMA SetToSeqMembers ==
    ASSUME NEW S, IsFiniteSet(S)
    PROVE  SetToSeq(S) \in Seq(S)
<1>1. Cardinality(S) \in Nat /\ ExistsBijection(1 .. Cardinality(S), S)
  BY FS_CardinalityType
<1>2. \E f \in [1 .. Cardinality(S) -> S] : IsInjective(f)
  BY <1>1 DEF ExistsBijection, Bijection, Injection
<1>3. SetToSeq(S) \in [1 .. Cardinality(S) -> S]
  BY <1>2 DEF SetToSeq
<1>. QED  BY <1>1, <1>3

\* What is fetched is the catalogue as it is, without what is not published.
LEMMA FetchedRows ==
    ASSUME DiscoveryTypeOK, NEW found \in SUBSET {a \in Abilities : catalogue[a] # 0}
    PROVE  LET rows == SetToSeq({Row(a) : a \in found})
           IN  /\ rows \in Seq(Rows)
               /\ \A i \in 1 .. Len(rows) : rows[i].version = Current[rows[i].ability]
<1> DEFINE S == {Row(a) : a \in found}
<1> DEFINE f == [a \in found |-> Row(a)]
<1>1. IsFiniteSet(found)
  BY FS_Subset, DiscoveryAssumption
<1>2. f \in Surjection(found, S)
  BY DEF Surjection
<1>3. IsFiniteSet(S)
  <2> HIDE DEF S, f
  <2>. QED  BY <1>1, <1>2, FS_Surjection
<1>4. SetToSeq(S) \in Seq(S)
  <2> HIDE DEF S
  <2>. QED  BY <1>3, SetToSeqMembers
<1>5. \A row \in S : row \in Rows /\ row.version = Current[row.ability]
  <2> SUFFICES ASSUME NEW a \in found PROVE Row(a) \in Rows /\ Row(a).version = Current[Row(a).ability]
    OBVIOUS
  <2>1. a \in Abilities /\ catalogue[a] # 0 /\ catalogue[a] \in Nat
    BY DEF DiscoveryTypeOK
  <2>. QED  BY <2>1 DEF Row, Rows, Current
<1> HIDE DEF S
<1>6. SetToSeq(S) \in Seq(Rows)
  BY <1>4, <1>5
<1>7. \A i \in 1 .. Len(SetToSeq(S)) : SetToSeq(S)[i] \in S
  BY <1>4
<1>. QED  BY <1>5, <1>6, <1>7 DEF S

-----------------------------------------------------------------------------
(* Discovery: the steps                                                     *)

\* The numbers that are compared.
LEMMA Versions ==
    DiscoveryTypeOK =>
      /\ catalogue \in [Abilities -> Nat] /\ issued \in [Abilities -> Nat]
      /\ descriptors \in [Abilities -> Nat] /\ floor \in [Abilities -> Nat]
      /\ \A a \in Abilities : Current[a] \in Nat
BY DEF DiscoveryTypeOK, Current

\* A step of one thread disturbs no other: what another one found is compared with the
\* catalogue and the floor, and none is alone.
LEMMA ThreadKeeps ==
    ASSUME DiscoveryInv, NEW t \in Threads, local[t].pc # "idle",
           NEW next \in Operations, local' = [local EXCEPT ![t] = next],
           UNCHANGED <<catalogue, issued, floor>>,
           descriptors' \in [Abilities -> Nat], candidates' \in Seq(Rows), cursor' \in Nat,
           Known(descriptors', candidates', floor),
           ListingHolds(next), CallHolds(next), IdleHolds(next),
           next.quiet => local[t].quiet,
           next.quiet /\ next.pc \in {"clear_carriers", "clear_candidates"} =>
             \A a \in Abilities : descriptors'[a] = 0,
           next.quiet /\ next.pc = "fill" /\ next.method = "functions" => Known(descriptors', candidates', next.floor)
    PROVE  DiscoveryInv'
<1> USE DEF DiscoveryInv
<1>1. local'[t] = next /\ \A u \in Threads \ {t} : local'[u] = local[u]
  BY DEF DiscoveryTypeOK
<1>2. DiscoveryTypeOK'
  BY DEF DiscoveryTypeOK
<1>3. FloorHolds'
  BY DEF FloorHolds, Current
<1>4. \A u \in Threads \ {t} : ~local[u].quiet
  BY DEF AloneHolds, At
<1>5. ASSUME NEW u \in Threads PROVE ListingHolds(local[u])' /\ CallHolds(local[u])' /\ IdleHolds(local[u])'
  <2>1. ListingHolds(local'[u]) /\ CallHolds(local'[u]) /\ IdleHolds(local'[u])
    BY <1>1
  <2>. QED  BY <2>1 DEF ListingHolds, CallHolds, IdleHolds, NotBefore, Current
<1>6. ASSUME NEW u \in Threads PROVE AloneHolds(u)'
  <2>1. CASE u = t
    BY <1>1, <2>1 DEF AloneHolds, At
  <2>2. CASE u # t
    BY <1>1, <1>4, <2>2 DEF AloneHolds
  <2>. QED  BY <2>1, <2>2
<1>. QED  BY <1>2, <1>3, <1>5, <1>6

\* The catalogue only moves forward.
LEMMA CatalogueMoves ==
    ASSUME DiscoveryInv, NEW b \in Abilities, Publish(b) \/ Withdraw(b)
    PROVE  DiscoveryInv'
<1> USE DEF DiscoveryInv
<1>1. UNCHANGED <<cacheVars, local, historyVars>>
  BY DEF Publish, Withdraw
<1>2. /\ catalogue' \in [Abilities -> Nat] /\ issued' \in [Abilities -> Nat]
      /\ \A a \in Abilities : catalogue'[a] \in {0, issued'[a]}
  <2>1. CASE Publish(b)
    <3>1. issued' = [issued EXCEPT ![b] = @ + 1] /\ catalogue' = [catalogue EXCEPT ![b] = issued'[b]]
      BY <2>1 DEF Publish
    <3>2. issued' \in [Abilities -> Nat] /\ catalogue' \in [Abilities -> Nat]
      BY <3>1, Versions
    <3>3. ASSUME NEW a \in Abilities PROVE catalogue'[a] \in {0, issued'[a]}
      BY <3>1, <3>2, Versions DEF DiscoveryTypeOK
    <3>. QED  BY <3>2, <3>3
  <2>2. CASE Withdraw(b)
    BY <2>2, Versions DEF Withdraw, DiscoveryTypeOK
  <2>. QED  BY <2>1, <2>2
<1>3. ASSUME NEW a \in Abilities
      PROVE  Current[a] \in Nat /\ Current'[a] \in Nat /\ Current[a] <= Current'[a]
  <2>0. Current[a] \in Nat /\ Current'[a] \in Nat
    BY <1>2, Versions DEF Current
  <2>1. CASE Publish(b)
    BY <2>0, <2>1, Versions DEF Publish, Current, DiscoveryTypeOK
  <2>2. CASE Withdraw(b)
    BY <2>0, <2>2, Versions DEF Withdraw, Current, DiscoveryTypeOK
  <2>. QED  BY <2>0, <2>1, <2>2
<1>4. DiscoveryTypeOK'
  BY <1>1, <1>2 DEF DiscoveryTypeOK, cacheVars, historyVars
<1>5. FloorHolds'
  <2>1. ASSUME NEW a \in Abilities PROVE floor[a] <= Current'[a]
    <3>1. floor[a] \in Nat /\ floor[a] <= Current[a]
      BY Versions DEF FloorHolds
    <3>. QED  BY <1>3, <3>1
  <2>. QED  BY <1>1, <2>1 DEF FloorHolds, Known, NotBefore, cacheVars, historyVars
<1>6. ASSUME NEW t \in Threads
      PROVE  ListingHolds(local[t])' /\ CallHolds(local[t])' /\ AloneHolds(t)' /\ IdleHolds(local[t])'
  <2>1. \A a \in Abilities : local[t].floor[a] <= Current[a] => local[t].floor[a] <= Current'[a]
    <3>1. local[t].floor \in [Abilities -> Nat]
      BY DEF DiscoveryTypeOK, Operations
    <3>. QED  BY <1>3, <3>1
  <2>2. ListingHolds(local[t])'
    BY <1>1, <2>1 DEF ListingHolds, NotBefore, historyVars
  <2>. QED  BY <1>1, <2>2 DEF CallHolds, AloneHolds, IdleHolds, At, Known, NotBefore, cacheVars, historyVars
<1>. QED  BY <1>4, <1>5, <1>6

\* An operation begins with nothing found, and ends the quiet of the others.
LEMMA BeginKeepsFloor ==
    ASSUME DiscoveryInv, NEW t \in Threads, NEW start \in Operations, Begin(t, start),
           start.pc \in {"fetch", "address"}
    PROVE  DiscoveryInv'
<1> USE DEF DiscoveryInv
<1> DEFINE next == [start EXCEPT !.quiet = \A v \in Threads : At(v, "idle"), !.floor = floor]
<1>1. /\ local' = [u \in Threads |-> IF u = t THEN next ELSE [local[u] EXCEPT !.quiet = FALSE]]
      /\ UNCHANGED <<daemonVars, cacheVars, floor>> /\ At(t, "idle")
  BY DEF Begin
<1>2. next \in Operations /\ next.pc = start.pc /\ next.floor = floor
      /\ (next.quiet => \A v \in Threads : At(v, "idle"))
  BY Versions DEF Operations
<1> HIDE DEF next
<1>3. /\ local'[t] = next
      /\ \A u \in Threads \ {t} :
           local'[u] = [local[u] EXCEPT !.quiet = FALSE] /\ local'[u] \in Operations
  <2>1. \A u \in Threads : local[u] \in Operations
    BY DEF DiscoveryTypeOK
  <2>2. \A l \in Operations : [l EXCEPT !.quiet = FALSE] \in Operations
    BY DEF Operations
  <2>. QED  BY <1>1, <2>1, <2>2
<1>4. DiscoveryTypeOK'
  <2>1. local' \in [Threads -> Operations]
    BY <1>1, <1>2, <1>3
  <2>. QED  BY <1>1, <2>1 DEF DiscoveryTypeOK, daemonVars, cacheVars
<1>5. FloorHolds'
  BY <1>1 DEF FloorHolds, Known, NotBefore, Current, daemonVars, cacheVars
<1>6. ASSUME NEW u \in Threads \ {t}
      PROVE  ListingHolds(local[u])' /\ CallHolds(local[u])' /\ AloneHolds(u)' /\ IdleHolds(local[u])'
  <2>1. /\ local[u] \in Operations
        /\ ListingHolds(local[u]) /\ CallHolds(local[u]) /\ IdleHolds(local[u])
    BY DEF DiscoveryTypeOK
  <2>2. /\ local'[u].quiet = FALSE /\ local'[u].pc = local[u].pc
        /\ local'[u].rows = local[u].rows /\ local'[u].floor = local[u].floor
        /\ local'[u].ability = local[u].ability /\ local'[u].version = local[u].version
        /\ local'[u].method = local[u].method /\ local'[u].pin = local[u].pin
    <3>1. \A l \in Operations :
            LET m == [l EXCEPT !.quiet = FALSE]
            IN  /\ m.quiet = FALSE /\ m.pc = l.pc /\ m.rows = l.rows /\ m.floor = l.floor
                /\ m.ability = l.ability /\ m.version = l.version
                /\ m.method = l.method /\ m.pin = l.pin
      BY DEF Operations
    <3>2. local'[u] = [local[u] EXCEPT !.quiet = FALSE]
      BY <1>3
    <3> HIDE DEF DiscoveryInv
    <3>. QED  BY <2>1, <3>1, <3>2
  <2>3. ListingHolds(local[u])'
    BY <1>1, <2>1, <2>2 DEF ListingHolds, NotBefore, Current, daemonVars
  <2>4. CallHolds(local[u])'
    BY <1>1, <2>1, <2>2 DEF CallHolds
  <2>. QED  BY <2>2, <2>3, <2>4 DEF AloneHolds, IdleHolds
<1>7. ListingHolds(local[t])' /\ CallHolds(local[t])' /\ IdleHolds(local[t])'
  <2>1. \A a \in Abilities : floor[a] <= floor[a]
    BY Versions
  <2>2. next.pc \in {"fetch", "address"} /\ floor' = floor
    BY <1>1, <1>2
  <2>3. ListingHolds(local[t])' /\ IdleHolds(local[t])'
    BY <1>3, <2>2 DEF ListingHolds, IdleHolds, Replacing
  <2>4. local'[t].floor = floor /\ local'[t].pc \notin {"carrier", "lookup", "remember", "dispatch"}
        /\ (local'[t].pc \in Calling => local'[t].pc = "address")
    BY <1>2, <1>3, <2>2 DEF Calling
  <2>5. CallHolds(local[t])'
    BY <2>1, <2>2, <2>4 DEF CallHolds
  <2>. QED  BY <2>3, <2>5
<1>8. AloneHolds(t)'
  <2> SUFFICES ASSUME next.quiet PROVE \A u \in Threads \ {t} : local'[u].pc = "idle"
    BY <1>2, <1>3 DEF AloneHolds, At
  <2>1. ASSUME NEW u \in Threads \ {t} PROVE local'[u].pc = local[u].pc
    <3>1. \A l \in Operations : [l EXCEPT !.quiet = FALSE].pc = l.pc
      BY DEF Operations
    <3>2. local[u] \in Operations /\ local'[u] = [local[u] EXCEPT !.quiet = FALSE]
      BY <1>3 DEF DiscoveryTypeOK
    <3> HIDE DEF DiscoveryInv
    <3>. QED  BY <3>1, <3>2
  <2>. QED  BY <1>2, <2>1 DEF At
<1>. QED  BY <1>4, <1>5, <1>6, <1>7, <1>8

\* What is fetched is as new as the catalogue, which no floor has passed.
LEMMA FetchKeeps ==
    ASSUME DiscoveryInv, NEW t \in Threads, Fetch(t)
    PROVE  DiscoveryInv'
<1> DEFINE l == local[t]
<1>1. PICK found \in SUBSET {a \in Abilities : catalogue[a] # 0} :
        local' = [local EXCEPT
           ![t].rows = SetToSeq({Row(a) : a \in found}),
           ![t].floor = Current,
           ![t].pc = IF local[t].method = "list" THEN "fill" ELSE "clear"]
  BY DEF Fetch
<1> DEFINE rows == SetToSeq({Row(a) : a \in found})
<1> DEFINE next == [l EXCEPT !.rows = rows, !.floor = Current,
                             !.pc = IF l.method = "list" THEN "fill" ELSE "clear"]
<1>2. l \in Operations /\ l.pc = "fetch" /\ DiscoveryTypeOK
  BY DEF DiscoveryInv, DiscoveryTypeOK, Fetch, At
<1>3. /\ rows \in Seq(Rows)
      /\ \A i \in 1 .. Len(rows) : rows[i].version = Current[rows[i].ability]
  BY <1>2, FetchedRows
<1> HIDE DEF rows
<1>4. local' = [local EXCEPT ![t] = next]
  BY <1>1, <1>2 DEF DiscoveryTypeOK, Operations, rows
<1>5. Current \in [Abilities -> Nat]
  BY <1>2, Versions DEF Current
<1>6. /\ next \in Operations /\ next.quiet = l.quiet /\ next.rows = rows /\ next.floor = Current
      /\ next.pc \in {"fill", "clear"} /\ (next.pc = "fill" => next.method = "list")
  BY <1>2, <1>3, <1>5 DEF Operations, Replacing
<1> HIDE DEF next
<1>7. ListingHolds(next)
  <2>1. ASSUME NEW i \in 1 .. Len(rows)
        PROVE  /\ rows[i].version >= floor[rows[i].ability]
               /\ rows[i].version >= Current[rows[i].ability]
    <3>1. rows[i] \in Rows
      BY <1>3
    <3>2. rows[i].ability \in Abilities
      BY <3>1 DEF Rows
    <3>3. floor[rows[i].ability] \in Nat /\ floor[rows[i].ability] <= Current[rows[i].ability]
      BY <1>2, <3>2, Versions DEF DiscoveryInv, FloorHolds
    <3>. QED  BY <1>3, <1>5, <3>2, <3>3
  <2>2. \A a \in Abilities : Current[a] <= Current[a]
    BY <1>5
  <2>. QED  BY <1>6, <2>1, <2>2 DEF ListingHolds, NotBefore
<1>8. CallHolds(next) /\ IdleHolds(next)
  BY <1>6 DEF CallHolds, IdleHolds, Calling
<1>9. UNCHANGED <<catalogue, issued, floor, descriptors, candidates, cursor>>
  BY DEF Fetch, daemonVars, cacheVars, historyVars
<1>10. /\ descriptors' \in [Abilities -> Nat] /\ candidates' \in Seq(Rows) /\ cursor' \in Nat
       /\ Known(descriptors', candidates', floor)
  BY <1>2, <1>9 DEF DiscoveryTypeOK, DiscoveryInv, FloorHolds, Known, NotBefore
<1>11. next.quiet /\ next.pc = "fill" /\ next.method = "functions" => FALSE
  BY <1>6
<1>. QED  BY <1>2, <1>4, <1>6, <1>7, <1>8, <1>9, <1>10, <1>11, ThreadKeeps

\* The maps are emptied one after the other; an empty map knows nothing old.
LEMMA ClearKeeps ==
    ASSUME DiscoveryInv, NEW t \in Threads, Clear(t)
    PROVE  DiscoveryInv'
<1> DEFINE l == local[t]
<1>1. PICK to \in {"clear_carriers", "clear_candidates", "fill"} :
        /\ Goto(t, to) /\ UNCHANGED <<catalogue, issued, floor>>
        /\ \/ /\ l.pc = "clear" /\ to = "clear_carriers"
              /\ descriptors' = ClearDescriptors(descriptors) /\ UNCHANGED <<candidates, cursor>>
           \/ /\ l.pc = "clear_carriers" /\ to = "clear_candidates"
              /\ UNCHANGED <<descriptors, candidates, cursor>>
           \/ /\ l.pc = "clear_candidates" /\ to = "fill"
              /\ candidates' = <<>> /\ cursor' = 0 /\ UNCHANGED descriptors
  BY DEF Clear, At, daemonVars, historyVars
<1> DEFINE next == [l EXCEPT !.pc = to]
<1>2. l \in Operations /\ DiscoveryTypeOK
  BY DEF DiscoveryInv, DiscoveryTypeOK
<1>3. local' = [local EXCEPT ![t] = next]
  BY <1>1, <1>2 DEF Goto, DiscoveryTypeOK, Operations
<1>4. /\ next \in Operations /\ next.quiet = l.quiet /\ next.rows = l.rows
      /\ next.floor = l.floor /\ next.pc = to /\ next.method = l.method
  BY <1>2 DEF Operations, Replacing
<1> HIDE DEF next
<1>5. l.pc \in Replacing /\ to \in Replacing
  BY <1>1 DEF Replacing
<1>6. ListingHolds(next) /\ CallHolds(next) /\ IdleHolds(next)
  <2>1. ListingHolds(next)
    BY <1>4, <1>5 DEF DiscoveryInv, ListingHolds
  <2>. QED  BY <1>4, <1>5, <2>1 DEF CallHolds, IdleHolds, Calling, Replacing
<1>7. \/ descriptors' = descriptors /\ l.pc \in {"clear_carriers", "clear_candidates"}
      \/ descriptors' = [a \in Abilities |-> 0]
  BY <1>1 DEF ClearDescriptors
<1>8. /\ descriptors' \in [Abilities -> Nat]
      /\ candidates' \in {candidates, <<>>} /\ cursor' \in {cursor, 0}
  <2>1. candidates' \in {candidates, <<>>} /\ cursor' \in {cursor, 0}
    BY <1>1
  <2>2. descriptors' \in [Abilities -> Nat]
    BY <1>2, <1>7, Versions
  <2>. QED  BY <2>1, <2>2
<1>9. Known(descriptors', candidates', floor)
  <2>1. NotBefore(candidates', floor)
    BY <1>8 DEF DiscoveryInv, FloorHolds, Known, NotBefore
  <2>2. \A a \in Abilities : descriptors'[a] = 0 \/ descriptors'[a] >= floor[a]
    BY <1>7 DEF DiscoveryInv, FloorHolds, Known
  <2>. QED  BY <1>1, <2>1, <2>2 DEF Known, NotBefore
<1>10. l.quiet => \A a \in Abilities : descriptors'[a] = 0
  <2>1. l.quiet /\ l.pc \in {"clear_carriers", "clear_candidates"} => \A a \in Abilities : descriptors[a] = 0
    BY DEF DiscoveryInv, AloneHolds
  <2>. QED  BY <1>7, <2>1
<1>11. l.quiet /\ to = "fill" => Known(descriptors', candidates', next.floor)
  <2>1. to = "fill" => candidates' = <<>>
    BY <1>1
  <2>. QED  BY <1>10, <2>1 DEF Known, NotBefore
<1>12. l.pc # "idle"
  BY <1>5 DEF Replacing
<1>13. candidates' \in Seq(Rows) /\ cursor' \in Nat /\ UNCHANGED <<catalogue, issued, floor>>
  <2>1. candidates \in Seq(Rows) /\ <<>> \in Seq(Rows) /\ cursor \in Nat
    BY <1>2 DEF DiscoveryTypeOK
  <2>2. candidates' \in Seq(Rows) /\ cursor' \in Nat
    <3>1. candidates' = candidates \/ candidates' = <<>>
      BY <1>8
    <3>2. cursor' = cursor \/ cursor' = 0
      BY <1>8
    <3>3. candidates' \in Seq(Rows)
      BY <2>1, <3>1
    <3>4. cursor' \in Nat
      BY <2>1, <3>2
    <3>. QED  BY <3>3, <3>4
  <2>. QED  BY <1>1, <2>2
<1> HIDE DEF l
<1>14. next.quiet => l.quiet
  BY <1>4
<1>15. next.quiet /\ next.pc \in {"clear_carriers", "clear_candidates"} =>
         \A a \in Abilities : descriptors'[a] = 0
  BY <1>4, <1>10
<1>16. next.quiet /\ next.pc = "fill" /\ next.method = "functions" => Known(descriptors', candidates', next.floor)
  BY <1>4, <1>11
<1>. QED  BY <1>3, <1>4, <1>6, <1>8, <1>9, <1>12, <1>13, <1>14, <1>15, <1>16, ThreadKeeps DEF l

\* An operation that ends leaves nothing behind.
LEMMA ReturnKeeps ==
    ASSUME DiscoveryInv, NEW t \in Threads, local[t].pc # "idle", Return(t),
           UNCHANGED <<catalogue, issued, descriptors, candidates, cursor, floor>>
    PROVE  DiscoveryInv'
<1>1. /\ Idle \in Operations /\ Idle.pc = "idle" /\ Idle.quiet = FALSE
  BY DEF Idle, None, Operations
<1>2. ListingHolds(Idle) /\ CallHolds(Idle) /\ IdleHolds(Idle)
  BY <1>1 DEF ListingHolds, CallHolds, IdleHolds, Replacing, Calling
<1>3. /\ descriptors' \in [Abilities -> Nat] /\ candidates' \in Seq(Rows) /\ cursor' \in Nat
      /\ Known(descriptors', candidates', floor)
  BY Versions DEF DiscoveryInv, DiscoveryTypeOK, FloorHolds, Known, NotBefore
<1>4. local' = [local EXCEPT ![t] = Idle]
  BY DEF Return
<1>. QED  BY <1>1, <1>2, <1>3, <1>4, ThreadKeeps

\* A refresh that was alone to its end passes its floor on: nobody holds an older one.
LEMMA FloorPassed ==
    ASSUME DiscoveryInv, NEW t \in Threads, Return(t),
           local[t].pc = "fill", local[t].quiet, local[t].method = "functions",
           floor' = local[t].floor, UNCHANGED <<daemonVars, cacheVars>>
    PROVE  DiscoveryInv'
<1> DEFINE l == local[t]
<1>1. DiscoveryTypeOK /\ ListingHolds(l) /\ AloneHolds(t) /\ l \in Operations
  BY DEF DiscoveryInv, DiscoveryTypeOK
<1>2. l.floor \in [Abilities -> Nat]
  BY <1>1 DEF Operations
<1>3. Idle \in Operations /\ Idle.pc = "idle" /\ Idle.quiet = FALSE
  BY DEF Idle, None, Operations
<1>4. local' = [local EXCEPT ![t] = Idle]
  BY DEF Return
<1>5. DiscoveryTypeOK'
  BY <1>1, <1>2, <1>3, <1>4 DEF DiscoveryTypeOK, daemonVars, cacheVars
<1>6. (\A a \in Abilities : l.floor[a] <= Current[a]) /\ Known(descriptors, candidates, l.floor)
  BY <1>1 DEF ListingHolds, AloneHolds, Replacing
<1>7. FloorHolds'
  BY <1>6 DEF FloorHolds, Known, NotBefore, Current, daemonVars, cacheVars
<1>8. ASSUME NEW u \in Threads PROVE local'[u].pc = "idle" /\ ~local'[u].quiet
  <2>1. u # t => local'[u] = local[u] /\ local[u].pc = "idle" /\ ~local[u].quiet
    BY <1>1, <1>4 DEF AloneHolds, At, DiscoveryInv, IdleHolds, DiscoveryTypeOK
  <2>. QED  BY <1>1, <1>3, <1>4, <2>1 DEF DiscoveryTypeOK
<1>. QED  BY <1>5, <1>7, <1>8 DEF DiscoveryInv, ListingHolds, CallHolds, AloneHolds, IdleHolds, Replacing, Calling

\* A row that is new enough is remembered beside rows that are.
LEMMA RowKnown ==
    ASSUME DiscoveryTypeOK, NEW f \in [Abilities -> Nat], NEW row \in Rows,
           row.version >= f[row.ability], Known(descriptors, candidates, f),
           candidates' = Append(candidates, row),
           descriptors' = [descriptors EXCEPT ![row.ability] = row.version]
    PROVE  /\ \A a \in Abilities : descriptors'[a] = 0 \/ descriptors'[a] >= f[a]
           /\ NotBefore(candidates', f)
<1>1. row.ability \in Abilities /\ row.version \in Nat
  BY DEF Rows
<1>2. \A a \in Abilities : descriptors'[a] = IF a = row.ability THEN row.version ELSE descriptors[a]
  BY <1>1, Versions
<1>3. candidates \in Seq(Rows)
  BY DEF DiscoveryTypeOK
<1>4. ASSUME NEW i \in 1 .. Len(candidates') PROVE candidates'[i].version >= f[candidates'[i].ability]
  <2>1. /\ Len(candidates') = Len(candidates) + 1
        /\ candidates'[i] = IF i <= Len(candidates) THEN candidates[i] ELSE row
    BY <1>3, <1>4
  <2>2. i <= Len(candidates) => i \in 1 .. Len(candidates)
    BY <1>3, <1>4
  <2>. QED  BY <2>1, <2>2 DEF Known, NotBefore
<1>. QED  BY <1>2, <1>4 DEF Known, NotBefore

\* A listing remembers row by row what is not older than the floor or than itself.
LEMMA RememberKeeps ==
    ASSUME DiscoveryInv, NEW t \in Threads, Remember(t)
    PROVE  DiscoveryInv'
<1> DEFINE l == local[t]
<1>1. /\ l \in Operations /\ l.pc = "fill" /\ UNCHANGED daemonVars
      /\ DiscoveryTypeOK /\ ListingHolds(l) /\ AloneHolds(t)
  BY DEF DiscoveryInv, DiscoveryTypeOK, Remember, At
<1>2. CASE l.rows = <<>> /\ l.quiet /\ l.method = "functions"
  <2>1. Return(t) /\ floor' = l.floor /\ UNCHANGED cacheVars
    BY <1>2 DEF Remember
  <2>. QED  BY <1>1, <1>2, <2>1, FloorPassed
<1>3. CASE l.rows = <<>> /\ ~(l.quiet /\ l.method = "functions")
  <2>1. Return(t) /\ floor' = floor /\ UNCHANGED cacheVars
    BY <1>3 DEF Remember
  <2>2. UNCHANGED <<catalogue, issued, descriptors, candidates, cursor, floor>>
    BY <1>1, <2>1 DEF daemonVars, cacheVars
  <2>. QED  BY <1>1, <2>1, <2>2, ReturnKeeps
<1>4. CASE l.rows # <<>>
  <2> DEFINE row == Head(l.rows)
  <2> DEFINE next == [l EXCEPT !.rows = Tail(@)]
  <2>1. /\ local' = [local EXCEPT ![t].rows = Tail(@)]
        /\ candidates' = Append(candidates, row)
        /\ descriptors' = [descriptors EXCEPT ![row.ability] = row.version]
        /\ UNCHANGED <<catalogue, issued, cursor, floor>>
    BY <1>1, <1>4 DEF Remember, daemonVars
  <2>2. l.rows \in Seq(Rows) /\ l.rows # <<>> /\ l.floor \in [Abilities -> Nat]
    BY <1>1, <1>4 DEF Operations
  <2>3. /\ row \in Rows /\ row = l.rows[1] /\ Tail(l.rows) \in Seq(Rows) /\ 1 \in 1 .. Len(l.rows)
        /\ \A i \in 1 .. Len(Tail(l.rows)) : i + 1 \in 1 .. Len(l.rows) /\ Tail(l.rows)[i] = l.rows[i + 1]
    BY <2>2
  <2>4. local' = [local EXCEPT ![t] = next]
    BY <1>1, <2>1 DEF DiscoveryTypeOK, Operations
  <2>5. /\ next \in Operations /\ next.quiet = l.quiet /\ next.rows = Tail(l.rows)
        /\ next.floor = l.floor /\ next.pc = "fill" /\ next.method = l.method
    BY <1>1, <2>3 DEF Operations
  <2>6. /\ NotBefore(l.rows, floor) /\ NotBefore(l.rows, l.floor)
        /\ \A a \in Abilities : l.floor[a] <= Current[a]
    BY <1>1 DEF ListingHolds, Replacing
  <2>7. floor \in [Abilities -> Nat] /\ descriptors \in [Abilities -> Nat] /\ Known(descriptors, candidates, floor)
    BY <1>1, Versions DEF DiscoveryInv, FloorHolds
  <2>8. row.version >= floor[row.ability] /\ row.version >= l.floor[row.ability]
    BY <2>3, <2>6 DEF NotBefore
  <2> HIDE DEF row, next
  <2>9. Known(descriptors', candidates', floor)
    BY <1>1, <2>1, <2>3, <2>7, <2>8, RowKnown DEF Known, NotBefore
  <2>10. Known(descriptors, candidates, l.floor) => Known(descriptors', candidates', next.floor)
    <3>1. ASSUME Known(descriptors, candidates, l.floor)
          PROVE  /\ \A a \in Abilities : descriptors'[a] = 0 \/ descriptors'[a] >= l.floor[a]
                 /\ NotBefore(candidates', l.floor)
      BY <1>1, <2>1, <2>2, <2>3, <2>8, <3>1, RowKnown
    <3>. QED  BY <2>5, <3>1 DEF Known, NotBefore
  <2>11. ListingHolds(next)
    <3>1. NotBefore(Tail(l.rows), floor) /\ NotBefore(Tail(l.rows), l.floor)
      BY <2>3, <2>6 DEF NotBefore
    <3>. QED  BY <2>5, <2>6, <3>1 DEF ListingHolds
  <2>12. CallHolds(next) /\ IdleHolds(next)
    BY <2>5 DEF CallHolds, IdleHolds, Calling
  <2>13. l.quiet /\ l.method = "functions" => Known(descriptors, candidates, l.floor)
    BY <1>1 DEF AloneHolds
  <2>14. descriptors' \in [Abilities -> Nat] /\ candidates' \in Seq(Rows) /\ cursor' \in Nat
    <3>1. row.version \in Nat
      BY <2>3 DEF Rows
    <3>2. candidates \in Seq(Rows) /\ cursor \in Nat
      BY <1>1 DEF DiscoveryTypeOK
    <3>3. Append(candidates, row) \in Seq(Rows)
      BY <2>3, <3>2
    <3>. QED  BY <2>1, <2>7, <3>1, <3>2, <3>3
  <2>15. l.pc # "idle" /\ next.pc \notin {"clear_carriers", "clear_candidates"}
    BY <1>1, <2>5
  <2>16. next.quiet /\ next.pc = "fill" /\ next.method = "functions" => Known(descriptors', candidates', next.floor)
    BY <2>5, <2>10, <2>13
  <2>17. next.quiet => l.quiet
    BY <2>5
  <2> HIDE DEF l
  <2>. QED  BY <2>1, <2>4, <2>5, <2>9, <2>11, <2>12, <2>14, <2>15, <2>16, <2>17, ThreadKeeps DEF l
<1>. QED  BY <1>2, <1>3, <1>4

\* A call addresses its target with its pin, or with what the cache knows of it.
LEMMA AddressKeeps ==
    ASSUME DiscoveryInv, NEW t \in Threads, Address(t) \/ Pick(t)
    PROVE  DiscoveryInv'
<1> DEFINE l == local[t]
<1>1. /\ l \in Operations /\ l.pc = "address" /\ DiscoveryTypeOK /\ CallHolds(l)
      /\ UNCHANGED <<catalogue, issued, descriptors, candidates, floor>>
  BY DEF DiscoveryInv, DiscoveryTypeOK, Address, Pick, At, daemonVars, cacheVars, historyVars
<1>2. /\ floor \in [Abilities -> Nat] /\ descriptors \in [Abilities -> Nat]
      /\ Known(descriptors, candidates, floor)
  BY <1>1, Versions DEF DiscoveryInv, FloorHolds
<1>3. \E row \in Rows :
        /\ row.version = 0 \/ row.version >= floor[row.ability]
        /\ local' = [local EXCEPT
             ![t].ability = row.ability,
             ![t].version = IF Pinned(l.method, l.pin) # 0 THEN l.pin ELSE row.version,
             ![t].pc = "carrier"]
  <2>1. \A a \in Abilities : LET row == [ability |-> a, version |-> descriptors[a]]
                            IN  row \in Rows /\ (row.version = 0 \/ row.version >= floor[row.ability])
    BY <1>2 DEF Rows, Known
  <2>2. CASE Address(t)
    <3> DEFINE row == [ability |-> l.ability, version |-> descriptors[l.ability]]
    <3>1. l.ability \in Abilities
      BY <1>1, <2>2 DEF Address, Operations
    <3>2. row \in Rows /\ (row.version = 0 \/ row.version >= floor[row.ability])
      BY <2>1, <3>1
    <3>3. local' = [local EXCEPT
             ![t].ability = l.ability,
             ![t].version = IF Pinned(l.method, l.pin) # 0 THEN l.pin ELSE descriptors[l.ability],
             ![t].pc = "carrier"]
      BY <1>1, <2>2 DEF Address, DiscoveryTypeOK, Operations
    <3>. QED  BY <3>2, <3>3
  <2>3. CASE Pick(t) /\ candidates = <<>>
    BY <2>1, <2>3, DiscoveryAssumption DEF Pick
  <2>4. CASE Pick(t) /\ candidates # <<>>
    <3> DEFINE i == (cursor % Len(candidates)) + 1
    <3>1. candidates \in Seq(Rows) /\ cursor \in Nat /\ Len(candidates) \in Nat \ {0}
      BY <1>1, <2>4 DEF DiscoveryTypeOK
    <3>2. \A n \in Nat, m \in Nat \ {0} : (n % m) + 1 \in 1 .. m
      OBVIOUS
    <3>3. i \in 1 .. Len(candidates)
      BY <3>1, <3>2
    <3>4. candidates[i] \in Rows /\ candidates[i].version >= floor[candidates[i].ability]
      BY <1>2, <3>1, <3>3 DEF Known, NotBefore
    <3>. QED  BY <2>4, <3>4 DEF Pick
  <2>. QED  BY <2>2, <2>3, <2>4
<1>4. PICK row \in Rows :
        /\ row.version = 0 \/ row.version >= floor[row.ability]
        /\ local' = [local EXCEPT
             ![t].ability = row.ability,
             ![t].version = IF Pinned(l.method, l.pin) # 0 THEN l.pin ELSE row.version,
             ![t].pc = "carrier"]
  BY <1>3
<1> DEFINE version == IF Pinned(l.method, l.pin) # 0 THEN l.pin ELSE row.version
<1> DEFINE next == [l EXCEPT !.ability = row.ability, !.version = version, !.pc = "carrier"]
<1>5. local' = [local EXCEPT ![t] = next]
  BY <1>1, <1>4 DEF DiscoveryTypeOK, Operations
<1>6. row.ability \in Abilities /\ row.version \in Nat /\ version \in Nat
  BY <1>1 DEF Rows, Operations
<1> HIDE DEF version
<1>7. /\ next \in Operations /\ next.quiet = l.quiet /\ next.floor = l.floor /\ next.pc = "carrier"
      /\ next.method = l.method /\ next.pin = l.pin
      /\ next.ability = row.ability /\ next.version = version
  BY <1>1, <1>6 DEF Operations, Calling
<1> HIDE DEF next
<1>8. CallHolds(next)
  <2>1. \A a \in Abilities : l.floor[a] <= floor[a]
    BY <1>1 DEF CallHolds, Calling
  <2>2. Pinned(l.method, l.pin) # 0 => version # 0
    BY DEF Pinned, version
  <2>3. Pinned(l.method, l.pin) = 0 => version = 0 \/ version >= floor[row.ability]
    BY <1>4 DEF version
  <2>. QED  BY <1>6, <1>7, <2>1, <2>2, <2>3 DEF CallHolds
<1>9. ListingHolds(next) /\ IdleHolds(next)
  BY <1>7 DEF ListingHolds, IdleHolds, Replacing
<1>10. /\ descriptors' \in [Abilities -> Nat] /\ candidates' \in Seq(Rows) /\ cursor' \in Nat
       /\ Known(descriptors', candidates', floor)
  <2>1. cursor' = cursor \/ cursor' = cursor + 1
    BY DEF Address, Pick, cacheVars
  <2>2. cursor' \in Nat
    BY <1>1, <2>1 DEF DiscoveryTypeOK
  <2>. QED  BY <1>1, <1>2, <2>2 DEF DiscoveryTypeOK
<1>11. /\ l.pc # "idle" /\ (next.quiet => l.quiet)
       /\ next.pc \notin {"clear_carriers", "clear_candidates", "fill"}
  BY <1>1, <1>7
<1> HIDE DEF l
<1>. QED  BY <1>1, <1>5, <1>7, <1>8, <1>9, <1>10, <1>11, ThreadKeeps DEF l

\* Its carrier is what the cache knows of the ability; what has no descriptor is looked up.
LEMMA AddressCarrierKeeps ==
    ASSUME DiscoveryInv, NEW t \in Threads, AddressCarrier(t)
    PROVE  DiscoveryInv'
<1> DEFINE l == local[t]
<1>1. /\ l \in Operations /\ l.pc = "carrier" /\ DiscoveryTypeOK /\ CallHolds(l)
      /\ UNCHANGED <<catalogue, issued, descriptors, candidates, cursor, floor>>
  BY DEF DiscoveryInv, DiscoveryTypeOK, AddressCarrier, At, daemonVars, cacheVars, historyVars
<1>2. PICK carrier \in {"stream", "unary"} :
        local' = [local EXCEPT ![t].carrier = carrier,
                               ![t].pc = IF l.version = 0 THEN "lookup" ELSE "dispatch"]
  BY DEF AddressCarrier
<1> DEFINE next == [l EXCEPT !.carrier = carrier, !.pc = IF l.version = 0 THEN "lookup" ELSE "dispatch"]
<1>3. local' = [local EXCEPT ![t] = next]
  BY <1>1, <1>2 DEF DiscoveryTypeOK, Operations
<1>4. /\ next \in Operations /\ next.quiet = l.quiet /\ next.floor = l.floor
      /\ next.pc = (IF l.version = 0 THEN "lookup" ELSE "dispatch")
      /\ next.method = l.method /\ next.pin = l.pin
      /\ next.ability = l.ability /\ next.version = l.version
  BY <1>1, <1>2 DEF Operations, Calling
<1> HIDE DEF next
<1>5. CallHolds(next)
  BY <1>1, <1>4 DEF CallHolds, Calling
<1>6. ListingHolds(next) /\ IdleHolds(next)
  BY <1>4 DEF ListingHolds, IdleHolds, Replacing
<1>7. /\ descriptors' \in [Abilities -> Nat] /\ candidates' \in Seq(Rows) /\ cursor' \in Nat
      /\ Known(descriptors', candidates', floor)
  BY <1>1, Versions DEF DiscoveryTypeOK, DiscoveryInv, FloorHolds
<1>8. /\ l.pc # "idle" /\ (next.quiet => l.quiet)
      /\ next.pc \notin {"clear_carriers", "clear_candidates", "fill"}
  BY <1>1, <1>4
<1> HIDE DEF l
<1>. QED  BY <1>1, <1>3, <1>4, <1>5, <1>6, <1>7, <1>8, ThreadKeeps DEF l

\* What is looked up is the catalogue's, which no floor has passed.
LEMMA LookupKeeps ==
    ASSUME DiscoveryInv, NEW t \in Threads, Lookup(t)
    PROVE  DiscoveryInv'
<1> DEFINE l == local[t]
<1>1. /\ l \in Operations /\ l.pc = "lookup" /\ DiscoveryTypeOK /\ CallHolds(l)
      /\ UNCHANGED <<catalogue, issued, descriptors, candidates, cursor, floor>>
  BY DEF DiscoveryInv, DiscoveryTypeOK, Lookup, At, daemonVars, cacheVars, historyVars
<1>2. CASE Return(t)
  BY <1>1, <1>2, ReturnKeeps
<1>3. CASE ~Return(t)
  <2> DEFINE next == [l EXCEPT !.version = catalogue[l.ability], !.pc = "remember"]
  <2>1. /\ catalogue[l.ability] # 0
        /\ local' = [local EXCEPT ![t].version = catalogue[l.ability], ![t].pc = "remember"]
    BY <1>3 DEF Lookup
  <2>2. local' = [local EXCEPT ![t] = next]
    BY <1>1, <2>1 DEF DiscoveryTypeOK, Operations
  <2>3. l.ability \in Abilities /\ catalogue[l.ability] \in Nat
    BY <1>1, Versions DEF CallHolds, Calling
  <2>4. /\ next \in Operations /\ next.quiet = l.quiet /\ next.floor = l.floor
        /\ next.pc = "remember" /\ next.method = l.method /\ next.pin = l.pin
        /\ next.ability = l.ability /\ next.version = catalogue[l.ability]
    BY <1>1, <2>3 DEF Operations, Calling
  <2> HIDE DEF next
  <2>5. catalogue[l.ability] >= floor[l.ability]
    <3>1. floor[l.ability] <= Current[l.ability] /\ floor[l.ability] \in Nat
      BY <1>1, <2>3, Versions DEF DiscoveryInv, FloorHolds
    <3>2. Current[l.ability] = catalogue[l.ability]
      BY <2>1, <2>3 DEF Current
    <3>. QED  BY <2>3, <3>1, <3>2
  <2>6. CallHolds(next)
    BY <1>1, <2>3, <2>4, <2>5 DEF CallHolds, Calling
  <2>7. ListingHolds(next) /\ IdleHolds(next)
    BY <2>4 DEF ListingHolds, IdleHolds, Replacing
  <2>8. /\ descriptors' \in [Abilities -> Nat] /\ candidates' \in Seq(Rows) /\ cursor' \in Nat
        /\ Known(descriptors', candidates', floor)
    BY <1>1, Versions DEF DiscoveryTypeOK, DiscoveryInv, FloorHolds
  <2>9. /\ l.pc # "idle" /\ (next.quiet => l.quiet)
        /\ next.pc \notin {"clear_carriers", "clear_candidates", "fill"}
    BY <1>1, <2>4
  <2> HIDE DEF l
  <2>. QED  BY <1>1, <2>2, <2>4, <2>6, <2>7, <2>8, <2>9, ThreadKeeps DEF l
<1>. QED  BY <1>2, <1>3

\* A descriptor that was looked up is remembered: it is not older than the floor.
LEMMA RememberDescriptorKeeps ==
    ASSUME DiscoveryInv, NEW t \in Threads, RememberDescriptor(t)
    PROVE  DiscoveryInv'
<1> DEFINE l == local[t]
<1>1. /\ l \in Operations /\ l.pc = "remember" /\ DiscoveryTypeOK /\ CallHolds(l)
      /\ UNCHANGED <<catalogue, issued, candidates, cursor, floor>> /\ Goto(t, "dispatch")
      /\ descriptors' = [descriptors EXCEPT ![l.ability] = l.version]
  BY DEF DiscoveryInv, DiscoveryTypeOK, RememberDescriptor, At, daemonVars, historyVars
<1> DEFINE next == [l EXCEPT !.pc = "dispatch"]
<1>2. local' = [local EXCEPT ![t] = next]
  BY <1>1 DEF Goto, DiscoveryTypeOK, Operations
<1>3. /\ next \in Operations /\ next.quiet = l.quiet /\ next.floor = l.floor
      /\ next.pc = "dispatch" /\ next.method = l.method /\ next.pin = l.pin
      /\ next.ability = l.ability /\ next.version = l.version
  BY <1>1 DEF Operations, Calling
<1> HIDE DEF next
<1>4. l.ability \in Abilities /\ l.version >= floor[l.ability] /\ l.version \in Nat
  BY <1>1 DEF CallHolds, Calling, Operations
<1>5. CallHolds(next)
  BY <1>1, <1>3, <1>4 DEF CallHolds, Calling
<1>6. ListingHolds(next) /\ IdleHolds(next)
  BY <1>3 DEF ListingHolds, IdleHolds, Replacing
<1>7. /\ descriptors \in [Abilities -> Nat] /\ candidates \in Seq(Rows) /\ cursor \in Nat
      /\ Known(descriptors, candidates, floor)
  BY <1>1, Versions DEF DiscoveryTypeOK, DiscoveryInv, FloorHolds
<1>8. descriptors' \in [Abilities -> Nat] /\ Known(descriptors', candidates', floor)
  BY <1>1, <1>4, <1>7 DEF Known
<1>9. /\ l.pc # "idle" /\ (next.quiet => l.quiet)
      /\ next.pc \notin {"clear_carriers", "clear_candidates", "fill"}
  BY <1>1, <1>3
<1>10. candidates' \in Seq(Rows) /\ cursor' \in Nat
  BY <1>1, <1>7
<1> HIDE DEF l
<1>. QED  BY <1>1, <1>2, <1>3, <1>5, <1>6, <1>8, <1>9, <1>10, ThreadKeeps DEF l

-----------------------------------------------------------------------------
(* Discovery: what every behaviour keeps                                    *)

\* The invariant holds before anything is listed.
LEMMA DiscoveryInitially == DiscoveryInit => DiscoveryInv
<1> SUFFICES ASSUME DiscoveryInit PROVE DiscoveryInv
  OBVIOUS
<1>1. None \in [Abilities -> Nat] /\ \A a \in Abilities : None[a] = 0
  BY DEF None
<1>2. Idle \in Operations /\ Idle.pc = "idle" /\ Idle.quiet = FALSE
  BY <1>1 DEF Idle, Operations
<1>3. DiscoveryTypeOK
  BY <1>1, <1>2 DEF DiscoveryInit, DiscoveryTypeOK
<1>4. FloorHolds
  <2>1. \A a \in Abilities : floor[a] = 0 /\ Current[a] \in Nat
    BY <1>1, <1>3, Versions DEF DiscoveryInit
  <2>2. (\A a \in Abilities : descriptors[a] = 0) /\ candidates = <<>>
    BY <1>1 DEF DiscoveryInit
  <2>. QED  BY <2>1, <2>2 DEF FloorHolds, Known, NotBefore
<1>5. \A t \in Threads : local[t].pc = "idle" /\ ~local[t].quiet
  BY <1>2 DEF DiscoveryInit
<1>. QED  BY <1>3, <1>4, <1>5 DEF DiscoveryInv, ListingHolds, CallHolds, AloneHolds, IdleHolds, Replacing, Calling

\* Every step keeps the invariant.
LEMMA DiscoveryKept == DiscoveryInv /\ [DiscoveryNext]_discoveryVars => DiscoveryInv'
<1> SUFFICES ASSUME DiscoveryInv, [DiscoveryNext]_discoveryVars PROVE DiscoveryInv'
  OBVIOUS
<1>1. CASE UNCHANGED discoveryVars
  <2>1. DiscoveryTypeOK' /\ FloorHolds'
    BY <1>1 DEF DiscoveryInv, DiscoveryTypeOK, FloorHolds, Known, NotBefore, Current,
                discoveryVars, daemonVars, cacheVars, historyVars
  <2>2. ASSUME NEW t \in Threads
        PROVE  /\ ListingHolds(local[t])' /\ CallHolds(local[t])'
               /\ AloneHolds(t)' /\ IdleHolds(local[t])'
    <3>1. ListingHolds(local[t]) /\ CallHolds(local[t]) /\ AloneHolds(t) /\ IdleHolds(local[t])
      BY DEF DiscoveryInv
    <3>. QED  BY <1>1, <3>1 DEF ListingHolds, CallHolds, AloneHolds, IdleHolds, Known, NotBefore, Current,
                                At, discoveryVars, daemonVars, cacheVars, historyVars
  <2>. QED  BY <2>1, <2>2 DEF DiscoveryInv
<1>0. Idle \in Operations
  BY DEF Idle, None, Operations
<1>2. ASSUME NEW a \in Abilities, Publish(a) \/ Withdraw(a) PROVE DiscoveryInv'
  BY <1>2, CatalogueMoves
<1>3. ASSUME NEW t \in Threads, NEW method \in {"functions", "list"}, Discover(t, method)
      PROVE  DiscoveryInv'
  <2> DEFINE start == [Idle EXCEPT !.pc = "fetch", !.method = method]
  <2>1. start \in Operations /\ start.pc = "fetch"
    BY <1>0 DEF Operations
  <2>2. Begin(t, start)
    BY <1>3 DEF Discover
  <2> HIDE DEF start
  <2>. QED  BY <2>1, <2>2, BeginKeepsFloor
<1>4. ASSUME NEW t \in Threads, NEW method \in CallMethods, NEW a \in Abilities \cup {Verb},
             NEW pin \in {0, 1}, Call(t, method, a, pin)
      PROVE  DiscoveryInv'
  <2> DEFINE start == [Idle EXCEPT !.pc = "address", !.method = method, !.ability = a, !.pin = pin]
  <2>1. start \in Operations /\ start.pc = "address"
    <3>1. method \in {"none", "functions", "list"} \cup CallMethods /\ pin \in Nat
      OBVIOUS
    <3>. QED  BY <1>0, <3>1 DEF Operations, Calling
  <2>2. Begin(t, start)
    BY <1>4 DEF Call
  <2> HIDE DEF start
  <2>. QED  BY <2>1, <2>2, BeginKeepsFloor
<1>5. ASSUME NEW t \in Threads, Fails(t) \/ Dispatch(t) PROVE DiscoveryInv'
  <2>1. /\ local[t].pc # "idle" /\ Return(t)
        /\ UNCHANGED <<catalogue, issued, descriptors, candidates, cursor, floor>>
    BY <1>5 DEF Fails, Dispatch, At, daemonVars, cacheVars, historyVars
  <2>. QED  BY <2>1, ReturnKeeps
<1>6. ASSUME NEW t \in Threads,
             \/ Fetch(t) \/ Clear(t) \/ Remember(t) \/ Address(t) \/ Pick(t)
             \/ AddressCarrier(t) \/ Lookup(t) \/ RememberDescriptor(t)
      PROVE  DiscoveryInv'
  BY <1>6, FetchKeeps, ClearKeeps, RememberKeeps, AddressKeeps, AddressCarrierKeeps, LookupKeeps,
     RememberDescriptorKeeps
<1>. QED  BY <1>1, <1>2, <1>3, <1>4, <1>5, <1>6 DEF DiscoveryNext

\* The invariant holds in every state.
THEOREM DiscoveryInvariance == DiscoverySpec => []DiscoveryInv
BY DiscoveryInitially, DiscoveryKept, PTL DEF DiscoverySpec

\* Discovery.RefreshIsSeen for any number of threads, abilities and versions: a
\* functions() that ran alone sets a floor no later call goes below, whichever
\* refreshes, listings and lookups overlap in the DiscoveryCache afterwards.
THEOREM RefreshSeen == DiscoverySpec => []RefreshIsSeen
<1>1. DiscoveryInv => RefreshIsSeen
  <2> SUFFICES ASSUME DiscoveryInv, NEW t \in Threads, At(t, "dispatch"),
                      Pinned(local[t].method, local[t].pin) = 0
               PROVE  local[t].version >= local[t].floor[local[t].ability]
    BY DEF RefreshIsSeen
  <2> DEFINE l == local[t]
  <2>1. l \in Operations /\ CallHolds(l) /\ l.pc = "dispatch" /\ DiscoveryTypeOK
    BY DEF DiscoveryInv, DiscoveryTypeOK, At
  <2>2. /\ l.ability \in Abilities /\ l.version >= floor[l.ability]
        /\ l.floor[l.ability] <= floor[l.ability]
    BY <2>1 DEF CallHolds, Calling
  <2>3. l.version \in Nat /\ floor[l.ability] \in Nat /\ l.floor[l.ability] \in Nat
    BY <2>1, <2>2, Versions DEF Operations
  <2>. QED  BY <2>2, <2>3
<1>. QED  BY <1>1, DiscoveryInvariance, PTL

-----------------------------------------------------------------------------
(* Transports: the invariant                                                *)

Ids == 1 .. MaxTransports

CallerSteps == {"idle", "pool", "unary", "stream", "frames"}
ClosingSteps == {"close_pool", "close_stream", "close_addressing"}

TransportsTypeOK ==
    /\ closed \in BOOLEAN
    /\ pool \in [transport : Ids \cup {0}, closed : BOOLEAN]
    /\ streaming \in Ids \cup {0}
    /\ open \subseteq (Ids \X Parts) \cup {Own}
    /\ at \in [Callers -> CallerSteps \cup ClosingSteps]
    /\ held \in [Callers -> Ids \cup {0}]
    /\ \A c \in Callers : at[c] = "unary" => held[c] # 0

\* Whom a transport is left to: the pool, the streams, or a close() on its way.
OwnedBy(id) ==
    \/ id \in retired \cup orphans \cup {pool.transport, streaming}
    \/ \E c \in Callers : at[c] \in {"close_pool", "close_stream"} /\ held[c] = id

\* Every part that is open is somebody's to close, and what close() has not yet
\* closed is ahead of it.
PartsOwned ==
    /\ \A part \in open \ {Own} : OwnedBy(part[1])
    /\ closed => streaming = 0
    /\ pool.closed => pool.transport = 0
    /\ closed /\ ~pool.closed => \E c \in Callers : at[c] = "close_pool"
    /\ closed /\ Own \in open => \E c \in Callers : at[c] \in ClosingSteps

\* Until close(), the transport of the streams is whole and nobody else's.
StreamingApart ==
    ~closed =>
      /\ \A id \in retired \cup ({pool.transport, streaming} \ {0}) : {id} \X Parts \subseteq open
      /\ streaming # 0 => streaming \notin retired /\ streaming # pool.transport
      /\ pool.transport \notin retired
      /\ streams \subseteq {streaming} \ {0}
      /\ \A c \in Callers : at[c] \notin ClosingSteps /\ (at[c] = "frames" => held[c] = streaming /\ streaming # 0)

TransportsInv == TransportsTypeOK /\ PartsOwned /\ StreamingApart

-----------------------------------------------------------------------------
(* Transports: the steps                                                    *)

\* The invariant speaks of nothing else.
LEMMA TransportsStand ==
    TransportsInv /\ UNCHANGED <<closed, pool, streaming, open, retired, orphans, streams, at, held>>
      => TransportsInv'
BY DEF TransportsInv, TransportsTypeOK, PartsOwned, OwnedBy, StreamingApart

\* A transport that is connected is new: no part of it is open, and it is neither of
\* those that are whole.
LEMMA FreeIsNew ==
    ASSUME TransportsInv, NEW id \in FreeTransports
    PROVE  /\ id \in Ids /\ \A part \in open : part[1] # id
           /\ ~closed => id \notin retired /\ id # pool.transport /\ id # streaming
<1>1. id \in Ids /\ \A part \in open : part[1] # id
  BY DEF FreeTransports, Ids
<1>2. ASSUME NEW k \in retired \cup ({pool.transport, streaming} \ {0}), ~closed PROVE k # id
  <2>1. <<k, "adapter">> \in open
    BY <1>2 DEF TransportsInv, StreamingApart, Parts
  <2>. QED  BY <1>1, <2>1
<1>3. id # 0
  BY <1>1 DEF Ids
<1>. QED  BY <1>1, <1>2, <1>3

\* The beginning of a dispatch leaves everything as it is.
LEMMA BeginKeeps ==
    ASSUME TransportsInv, NEW c \in Callers, UnaryBegin(c) \/ StreamBegin(c)
    PROVE  TransportsInv'
<1>1. /\ UNCHANGED <<closed, pool, streaming, open, retired, orphans, streams, held>>
      /\ at[c] = "idle"
      /\ \E to \in {"pool", "stream"} : at' = [at EXCEPT ![c] = to]
  BY DEF UnaryBegin, StreamBegin, BeginDispatch, Step
<1>2. /\ at' \in [Callers -> CallerSteps \cup ClosingSteps]
      /\ at'[c] \in {"pool", "stream"} /\ \A d \in Callers \ {c} : at'[d] = at[d]
  BY <1>1 DEF TransportsInv, TransportsTypeOK, CallerSteps
<1>3. TransportsTypeOK'
  BY <1>1, <1>2 DEF TransportsInv, TransportsTypeOK
<1>4. PartsOwned'
  BY <1>1, <1>2 DEF TransportsInv, PartsOwned, OwnedBy, ClosingSteps
<1>5. StreamingApart'
  BY <1>1, <1>2 DEF TransportsInv, StreamingApart, ClosingSteps
<1>. QED  BY <1>3, <1>4, <1>5 DEF TransportsInv

\* A connection that fails leaves at most an adapter, which is an orphan's.
LEMMA FailedConnect ==
    ASSUME TransportsInv, ConnectFails
    PROVE  /\ open \subseteq open' /\ open' \subseteq (Ids \X Parts) \cup {Own}
           /\ orphans \subseteq orphans' /\ \A part \in open' \ open : part[1] \in orphans'
           /\ Own \in open' => Own \in open
<1>1. CASE UNCHANGED <<open, orphans>>
  BY <1>1 DEF TransportsInv, TransportsTypeOK
<1>2. ASSUME NEW id \in FreeTransports, open' = open \cup {<<id, "adapter">>},
             orphans' = orphans \cup {id}
      PROVE  /\ open \subseteq open' /\ open' \subseteq (Ids \X Parts) \cup {Own}
             /\ orphans \subseteq orphans' /\ \A part \in open' \ open : part[1] \in orphans'
             /\ Own \in open' => Own \in open
  <2>1. id \in Ids
    BY FreeIsNew
  <2>2. <<id, "adapter">> \in Ids \X Parts /\ <<id, "adapter">> # Own
    BY <2>1 DEF Parts, Own
  <2>. QED  BY <1>2, <2>2 DEF TransportsInv, TransportsTypeOK
<1>. QED  BY <1>1, <1>2 DEF ConnectFails

\* A connection that succeeds opens the parts of one transport.
LEMMA Connected ==
    ASSUME TransportsInv, NEW id \in FreeTransports, Connect(id)
    PROVE  /\ open' = open \cup ({id} \X Parts)
           /\ open' \subseteq (Ids \X Parts) \cup {Own} /\ orphans' = orphans
           /\ \A part \in open' \ open : part[1] = id
           /\ Own \in open' => Own \in open
<1>1. id \in Ids /\ id # MaxTransports + 1
  BY FreeIsNew, TransportsAssumption DEF Ids
<1>2. open' = open \cup ({id} \X Parts) /\ orphans' = orphans
  BY DEF Connect
<1>3. \A p \in Parts : <<id, p>> \in Ids \X Parts /\ <<id, p>> # Own
  BY <1>1 DEF Own
<1>. QED  BY <1>2, <1>3 DEF TransportsInv, TransportsTypeOK

\* The pool hands out its transport, or connects one.
LEMMA PoolKeeps ==
    ASSUME TransportsInv, NEW c \in Callers, PoolTransport(c)
    PROVE  TransportsInv'
<1> USE DEF TransportsInv
<1>0. UNCHANGED <<closed, streaming, retired, streams>> /\ at[c] = "pool"
  BY DEF PoolTransport, Step
<1>1. /\ at' \in [Callers -> CallerSteps \cup ClosingSteps]
      /\ at'[c] \in {"unary", "idle"} /\ \A d \in Callers \ {c} : at'[d] = at[d]
  <2>1. \E to \in {"unary", "idle"} : at' = [at EXCEPT ![c] = to]
    BY DEF PoolTransport, Step
  <2>. QED  BY <2>1 DEF TransportsTypeOK, CallerSteps
<1>2. CASE ~pool.closed /\ pool.transport # 0 /\ held' = [held EXCEPT ![c] = pool.transport]
           /\ UNCHANGED <<pool, open, orphans>>
  <2>1. TransportsTypeOK'
    BY <1>0, <1>1, <1>2 DEF TransportsTypeOK
  <2>2. \A d \in Callers \ {c} : held'[d] = held[d]
    BY <1>2 DEF TransportsTypeOK
  <2>3. PartsOwned'
    BY <1>0, <1>1, <1>2, <2>2 DEF PartsOwned, OwnedBy, ClosingSteps
  <2>4. StreamingApart'
    BY <1>0, <1>1, <1>2, <2>2 DEF StreamingApart, ClosingSteps
  <2>. QED  BY <2>1, <2>3, <2>4
<1>3. ASSUME ~pool.closed, pool.transport = 0, NEW id \in FreeTransports, Connect(id),
             pool' = [pool EXCEPT !.transport = id], held' = [held EXCEPT ![c] = id]
      PROVE  TransportsInv'
  <2>0. pool'.transport = id /\ pool'.closed = pool.closed
    BY <1>3 DEF TransportsTypeOK
  <2>1. id \in Ids /\ id # 0 /\ (~closed => id \notin retired /\ id # streaming)
    BY FreeIsNew DEF Ids
  <2>2. \A d \in Callers \ {c} : held'[d] = held[d]
    BY <1>3 DEF TransportsTypeOK
  <2>3. TransportsTypeOK'
    <3>1. held' \in [Callers -> Ids \cup {0}] /\ held'[c] = id
      BY <1>3, <2>1 DEF TransportsTypeOK
    <3>2. pool' \in [transport : Ids \cup {0}, closed : BOOLEAN]
      BY <1>3, <2>1 DEF TransportsTypeOK
    <3>. QED  BY <1>0, <1>1, <1>3, <2>1, <2>2, <3>1, <3>2, Connected DEF TransportsTypeOK
  <2>4. PartsOwned'
    <3>1. ASSUME NEW part \in open' \ {Own} PROVE OwnedBy(part[1])'
      <4>1. CASE part \notin open
        BY <1>3, <2>0, <4>1, Connected DEF OwnedBy
      <4>2. CASE part \in open
        <5>1. OwnedBy(part[1]) /\ part[1] \in Ids
          BY <3>1, <4>2 DEF PartsOwned, TransportsTypeOK
        <5>. QED  BY <1>0, <1>1, <1>3, <2>2, <5>1, Connected DEF OwnedBy, Ids
      <4>. QED  BY <4>1, <4>2
    <3>. QED  BY <1>0, <1>1, <1>3, <2>0, <3>1, Connected DEF PartsOwned, ClosingSteps
  <2>5. StreamingApart'
    BY <1>0, <1>1, <1>3, <2>0, <2>1, <2>2, Connected DEF StreamingApart, ClosingSteps
  <2>. QED  BY <2>3, <2>4, <2>5
<1>4. CASE ~pool.closed /\ ConnectFails /\ UNCHANGED <<pool, held>> /\ at'[c] = "idle"
  <2>1. TransportsTypeOK'
    BY <1>0, <1>1, <1>4, FailedConnect DEF TransportsTypeOK
  <2>2. PartsOwned'
    <3>1. \A part \in open' \ {Own} : OwnedBy(part[1])'
      BY <1>0, <1>1, <1>4, FailedConnect DEF PartsOwned, OwnedBy
    <3>. QED  BY <1>0, <1>1, <1>4, <3>1, FailedConnect DEF PartsOwned, ClosingSteps
  <2>3. StreamingApart'
    BY <1>0, <1>1, <1>4, FailedConnect DEF StreamingApart, ClosingSteps
  <2>. QED  BY <2>1, <2>2, <2>3
<1>5. CASE UNCHANGED <<pool, open, orphans, held>> /\ at'[c] = "idle"
  <2>1. TransportsTypeOK'
    BY <1>0, <1>1, <1>5 DEF TransportsTypeOK
  <2>2. PartsOwned'
    BY <1>0, <1>1, <1>5 DEF PartsOwned, OwnedBy, ClosingSteps
  <2>3. StreamingApart'
    BY <1>0, <1>1, <1>5 DEF StreamingApart, ClosingSteps
  <2>. QED  BY <2>1, <2>2, <2>3
<1>6. at' = [at EXCEPT ![c] = "idle"] => at'[c] = "idle"
  BY DEF TransportsTypeOK
<1>. QED  BY <1>2, <1>3, <1>4, <1>5, <1>6 DEF PoolTransport, Step

\* A call that comes back may have left its transport to be retired.
LEMMA UnaryKeeps ==
    ASSUME TransportsInv, NEW c \in Callers, UnaryEnd(c)
    PROVE  TransportsInv'
<1> USE DEF TransportsInv
<1>1. /\ UNCHANGED <<closed, streaming, open, orphans, streams>> /\ at[c] = "unary"
      /\ at' = [at EXCEPT ![c] = "idle"] /\ held' = [held EXCEPT ![c] = 0]
      /\ \/ UNCHANGED <<pool, retired>>
         \/ /\ pool.transport = held[c] /\ pool' = [pool EXCEPT !.transport = 0]
            /\ retired' = retired \cup {held[c]}
  BY DEF UnaryEnd, Step
<1>2. /\ at' \in [Callers -> CallerSteps \cup ClosingSteps] /\ held' \in [Callers -> Ids \cup {0}]
      /\ at'[c] = "idle" /\ \A d \in Callers \ {c} : at'[d] = at[d] /\ held'[d] = held[d]
  BY <1>1 DEF TransportsTypeOK, CallerSteps
<1>3. TransportsTypeOK'
  BY <1>1, <1>2 DEF TransportsTypeOK
<1>4. /\ retired' \cup {pool'.transport} \subseteq retired \cup {pool.transport, 0}
      /\ retired \cup {pool.transport} \subseteq retired' \cup {pool'.transport}
      /\ pool'.closed = pool.closed /\ (pool.transport = 0 => pool'.transport = 0)
      /\ retired' \subseteq retired \cup ({pool.transport} \ {0})
      /\ pool'.transport # 0 => pool'.transport = pool.transport /\ retired' = retired
  BY <1>1 DEF TransportsTypeOK
<1>5. PartsOwned'
  <2>1. \A part \in open' \ {Own} : OwnedBy(part[1])'
    BY <1>1, <1>2, <1>4 DEF PartsOwned, OwnedBy
  <2>. QED  BY <1>1, <1>2, <1>4, <2>1 DEF PartsOwned, ClosingSteps
<1>6. StreamingApart'
  <2> SUFFICES ASSUME ~closed
               PROVE  /\ \A id \in retired' \cup ({pool'.transport, streaming} \ {0}) :
                           {id} \X Parts \subseteq open
                      /\ streaming # 0 => streaming \notin retired' /\ streaming # pool'.transport
                      /\ pool'.transport \notin retired'
                      /\ streams \subseteq {streaming} \ {0}
                      /\ \A d \in Callers : at'[d] \notin ClosingSteps /\
                           (at'[d] = "frames" => held'[d] = streaming /\ streaming # 0)
    BY <1>1 DEF StreamingApart
  <2>1. \A d \in Callers : at'[d] \notin ClosingSteps /\
          (at'[d] = "frames" => held'[d] = streaming /\ streaming # 0)
    BY <1>2 DEF StreamingApart, ClosingSteps
  <2>2. \A id \in retired : id # 0
    <3> SUFFICES ASSUME 0 \in retired PROVE FALSE
      OBVIOUS
    <3>1. <<0, "adapter">> \in open
      BY DEF StreamingApart, Parts
    <3>2. <<0, "adapter">> # Own /\ <<0, "adapter">> \notin Ids \X Parts
      BY DEF Own, Ids
    <3>. QED  BY <3>1, <3>2 DEF TransportsTypeOK
  <2>. QED  BY <1>4, <2>1, <2>2 DEF StreamingApart
<1>. QED  BY <1>3, <1>5, <1>6

\* The streams are handed their transport, or it is connected for them.
LEMMA StreamingKeeps ==
    ASSUME TransportsInv, NEW c \in Callers, Streaming(c)
    PROVE  TransportsInv'
<1> USE DEF TransportsInv
<1>0. UNCHANGED <<closed, pool, retired, streams>> /\ at[c] = "stream"
  BY DEF Streaming, Step
<1>1. /\ at' \in [Callers -> CallerSteps \cup ClosingSteps]
      /\ at'[c] \in {"frames", "idle"} /\ \A d \in Callers \ {c} : at'[d] = at[d]
  <2>1. \E to \in {"frames", "idle"} : at' = [at EXCEPT ![c] = to]
    BY DEF Streaming, Step
  <2>. QED  BY <2>1 DEF TransportsTypeOK, CallerSteps
<1>2. CASE ~closed /\ streaming # 0 /\ held' = [held EXCEPT ![c] = streaming]
           /\ UNCHANGED <<streaming, open, orphans>>
  <2>1. TransportsTypeOK'
    BY <1>0, <1>1, <1>2 DEF TransportsTypeOK
  <2>2. held'[c] = streaming /\ \A d \in Callers \ {c} : held'[d] = held[d]
    BY <1>2 DEF TransportsTypeOK
  <2>3. PartsOwned'
    BY <1>0, <1>1, <1>2, <2>2 DEF PartsOwned, OwnedBy, ClosingSteps
  <2>4. StreamingApart'
    BY <1>0, <1>1, <1>2, <2>2 DEF StreamingApart, ClosingSteps
  <2>. QED  BY <2>1, <2>3, <2>4
<1>3. ASSUME ~closed, streaming = 0, NEW id \in FreeTransports, Connect(id),
             streaming' = id, held' = [held EXCEPT ![c] = id]
      PROVE  TransportsInv'
  <2>1. id \in Ids /\ id # 0 /\ id \notin retired /\ id # pool.transport
    BY <1>3, FreeIsNew DEF Ids
  <2>2. held'[c] = id /\ \A d \in Callers \ {c} : held'[d] = held[d]
    BY <1>3 DEF TransportsTypeOK
  <2>3. TransportsTypeOK'
    <3>1. held' \in [Callers -> Ids \cup {0}]
      BY <1>3, <2>1 DEF TransportsTypeOK
    <3>. QED  BY <1>0, <1>1, <1>3, <2>1, <2>2, <3>1, Connected DEF TransportsTypeOK
  <2>4. PartsOwned'
    <3>1. ASSUME NEW part \in open' \ {Own} PROVE OwnedBy(part[1])'
      <4>1. CASE part \notin open
        BY <1>3, <4>1, Connected DEF OwnedBy
      <4>2. CASE part \in open
        <5>1. OwnedBy(part[1]) /\ part[1] \in Ids
          BY <3>1, <4>2 DEF PartsOwned, TransportsTypeOK
        <5>. QED  BY <1>0, <1>1, <1>3, <2>2, <5>1, Connected DEF OwnedBy, Ids
      <4>. QED  BY <4>1, <4>2
    <3>. QED  BY <1>0, <1>3, <3>1 DEF PartsOwned
  <2>5. StreamingApart'
    <3>1. \A d \in Callers : at[d] # "frames" /\ at[d] \notin ClosingSteps
      BY <1>3 DEF StreamingApart
    <3>2. open \subseteq open' /\ {id} \X Parts \subseteq open'
      BY <1>3, Connected
    <3>3. \A k \in retired \cup ({pool.transport} \ {0}) : {k} \X Parts \subseteq open
      BY <1>3 DEF StreamingApart
    <3>4. pool.transport \notin retired /\ streams = {}
      BY <1>3 DEF StreamingApart
    <3>. QED  BY <1>0, <1>1, <1>3, <2>1, <2>2, <3>1, <3>2, <3>3, <3>4 DEF StreamingApart, ClosingSteps
  <2>. QED  BY <2>3, <2>4, <2>5
<1>4. CASE ConnectFails /\ UNCHANGED <<streaming, held>> /\ at'[c] = "idle"
  <2>1. TransportsTypeOK'
    BY <1>0, <1>1, <1>4, FailedConnect DEF TransportsTypeOK
  <2>2. PartsOwned'
    <3>1. \A part \in open' \ {Own} : OwnedBy(part[1])'
      BY <1>0, <1>1, <1>4, FailedConnect DEF PartsOwned, OwnedBy
    <3>. QED  BY <1>0, <1>1, <1>4, <3>1, FailedConnect DEF PartsOwned, ClosingSteps
  <2>3. StreamingApart'
    BY <1>0, <1>1, <1>4, FailedConnect DEF StreamingApart, ClosingSteps
  <2>. QED  BY <2>1, <2>2, <2>3
<1>5. CASE UNCHANGED <<streaming, open, orphans, held>> /\ at'[c] = "idle"
  <2>1. TransportsTypeOK'
    BY <1>0, <1>1, <1>5 DEF TransportsTypeOK
  <2>2. PartsOwned'
    BY <1>0, <1>1, <1>5 DEF PartsOwned, OwnedBy, ClosingSteps
  <2>3. StreamingApart'
    BY <1>0, <1>1, <1>5 DEF StreamingApart, ClosingSteps
  <2>. QED  BY <2>1, <2>2, <2>3
<1>6. at' = [at EXCEPT ![c] = "idle"] => at'[c] = "idle"
  BY DEF TransportsTypeOK
<1>. QED  BY <1>2, <1>3, <1>4, <1>5, <1>6 DEF Streaming, Step, StreamHandle

\* A stream is opened on the transport of the streams, or on none.
LEMMA OpenStreamKeeps ==
    ASSUME TransportsInv, NEW c \in Callers, OpenStream(c)
    PROVE  TransportsInv'
<1> USE DEF TransportsInv
<1>1. /\ UNCHANGED <<closed, pool, streaming, open, retired, orphans>> /\ at[c] = "frames"
      /\ at' = [at EXCEPT ![c] = "idle"] /\ held' = [held EXCEPT ![c] = 0]
      /\ streams' \subseteq streams \cup {held[c]}
  BY DEF OpenStream, Step
<1>2. /\ at' \in [Callers -> CallerSteps \cup ClosingSteps] /\ held' \in [Callers -> Ids \cup {0}]
      /\ at'[c] = "idle" /\ \A d \in Callers \ {c} : at'[d] = at[d] /\ held'[d] = held[d]
  BY <1>1 DEF TransportsTypeOK, CallerSteps
<1>3. TransportsTypeOK'
  BY <1>1, <1>2 DEF TransportsTypeOK
<1>4. PartsOwned'
  BY <1>1, <1>2 DEF PartsOwned, OwnedBy, ClosingSteps
<1>5. StreamingApart'
  BY <1>1, <1>2 DEF StreamingApart, ClosingSteps
<1>. QED  BY <1>3, <1>4, <1>5

\* close() takes the transport of the streams out of the hands of everybody.
LEMMA CloseKeeps ==
    ASSUME TransportsInv, NEW c \in Callers, Close(c)
    PROVE  TransportsInv'
<1> USE DEF TransportsInv
<1>1. /\ UNCHANGED <<pool, open, retired, orphans, streams>> /\ at[c] = "idle"
      /\ at' = [at EXCEPT ![c] = "close_pool"] /\ held' = [held EXCEPT ![c] = streaming]
      /\ closed' = TRUE /\ streaming' = 0
  BY DEF Close, BeginDispatch, Step
<1>2. /\ at' \in [Callers -> CallerSteps \cup ClosingSteps] /\ held' \in [Callers -> Ids \cup {0}]
      /\ at'[c] = "close_pool" /\ held'[c] = streaming
      /\ \A d \in Callers \ {c} : at'[d] = at[d] /\ held'[d] = held[d]
  BY <1>1 DEF TransportsTypeOK, ClosingSteps
<1>3. TransportsTypeOK'
  BY <1>1, <1>2 DEF TransportsTypeOK
<1>4. PartsOwned'
  <2>1. ASSUME NEW part \in open \ {Own} PROVE OwnedBy(part[1])'
    <3>1. OwnedBy(part[1])
      BY <2>1 DEF PartsOwned
    <3>. QED  BY <1>1, <1>2, <3>1 DEF OwnedBy
  <2>. QED  BY <1>1, <1>2, <2>1 DEF PartsOwned, ClosingSteps
<1>5. StreamingApart'
  BY <1>1 DEF StreamingApart
<1>. QED  BY <1>3, <1>4, <1>5

\* What close() leaves open of a transport is an orphan.
LEMMA CloseLeavesOrphans ==
    ASSUME TransportsInv, NEW id, CloseTransport(id)
    PROVE  /\ open' \subseteq open /\ orphans \subseteq orphans'
           /\ \A part \in open \ open' : part[1] = id
           /\ \A part \in open' \ {Own} : part[1] = id => part[1] \in orphans'
<1>1. PICK raising \in SUBSET Parts, broken \in Parts \cup {"none"} :
        /\ open' = open \ Closed(id, raising, broken)
        /\ orphans' = orphans \cup {i \in {id} \ {0} : Behind(broken) # {}}
  BY DEF CloseTransport
<1>2. ASSUME NEW part \in open' \ {Own}, part[1] = id PROVE part[1] \in orphans'
  <2>1. part \in Ids \X Parts
    BY <1>1, <1>2 DEF TransportsInv, TransportsTypeOK
  <2>2. id # 0 /\ part = <<id, part[2]>> /\ part[2] \in Parts
    BY <1>2, <2>1 DEF Ids
  <2>3. part \notin Closed(id, raising, broken)
    BY <1>1, <1>2
  <2>4. part[2] \in Behind(broken)
    BY <2>2, <2>3 DEF Closed
  <2>. QED  BY <1>1, <1>2, <2>2, <2>4
<1>. QED  BY <1>1, <1>2 DEF Closed

\* The steps of close(), and the transport that is closed once its last call is back.
LEMMA ClosingKeeps ==
    ASSUME TransportsInv, NEW c \in Callers, ClosePool(c) \/ CloseStream(c) \/ CloseAddressing(c)
    PROVE  TransportsInv'
<1> USE DEF TransportsInv
<1>1. at[c] \in ClosingSteps /\ closed /\ closed' /\ UNCHANGED streaming
  BY DEF ClosePool, CloseStream, CloseAddressing, Step, StreamingApart, ClosingSteps, TransportsTypeOK
<1>2. StreamingApart'
  BY <1>1 DEF StreamingApart
<1>3. CASE ClosePool(c)
  <2>1. /\ UNCHANGED <<open, held, orphans>> /\ at[c] = "close_pool"
        /\ at' = [at EXCEPT ![c] = "close_stream"] /\ pool' = [transport |-> 0, closed |-> TRUE]
        /\ retired' = retired \cup ({pool.transport} \ {0})
    BY <1>3 DEF ClosePool, Step
  <2>2. /\ at' \in [Callers -> CallerSteps \cup ClosingSteps] /\ at'[c] = "close_stream"
        /\ \A d \in Callers \ {c} : at'[d] = at[d]
    BY <2>1 DEF TransportsTypeOK, ClosingSteps
  <2>3. TransportsTypeOK'
    BY <1>1, <2>1, <2>2 DEF TransportsTypeOK
  <2>4. ASSUME NEW part \in open \ {Own} PROVE OwnedBy(part[1])'
    <3>1. OwnedBy(part[1]) /\ part[1] # 0
      BY <2>4 DEF PartsOwned, TransportsTypeOK, Ids
    <3>. QED  BY <1>1, <2>1, <2>2, <3>1 DEF OwnedBy
  <2>5. PartsOwned'
    BY <1>1, <2>1, <2>2, <2>4 DEF PartsOwned, ClosingSteps
  <2>. QED  BY <1>2, <2>3, <2>5
<1>4. CASE CloseStream(c)
  <2>1. /\ UNCHANGED <<pool, retired>> /\ at[c] = "close_stream"
        /\ at' = [at EXCEPT ![c] = "close_addressing"] /\ held' = [held EXCEPT ![c] = 0]
        /\ open' \subseteq open /\ orphans \subseteq orphans'
        /\ \A part \in open' \ {Own} : part[1] = held[c] => part[1] \in orphans'
    <3>1. CloseTransport(held[c])
      BY <1>4 DEF CloseStream
    <3>2. /\ UNCHANGED <<pool, retired>> /\ at[c] = "close_stream"
          /\ at' = [at EXCEPT ![c] = "close_addressing"] /\ held' = [held EXCEPT ![c] = 0]
      BY <1>4 DEF CloseStream, Step
    <3>. QED  BY <3>1, <3>2, CloseLeavesOrphans
  <2>2. /\ at' \in [Callers -> CallerSteps \cup ClosingSteps] /\ held' \in [Callers -> Ids \cup {0}]
        /\ at'[c] = "close_addressing" /\ \A d \in Callers \ {c} : at'[d] = at[d] /\ held'[d] = held[d]
    BY <2>1 DEF TransportsTypeOK, ClosingSteps
  <2>3. TransportsTypeOK'
    BY <1>1, <2>1, <2>2 DEF TransportsTypeOK
  <2>4. ASSUME NEW part \in open' \ {Own} PROVE OwnedBy(part[1])'
    <3>1. OwnedBy(part[1])
      BY <2>1, <2>4 DEF PartsOwned
    <3>2. part[1] = held[c] => part[1] \in orphans'
      BY <2>1, <2>4
    <3>. QED  BY <1>1, <2>1, <2>2, <3>1, <3>2 DEF OwnedBy
  <2>5. PartsOwned'
    BY <1>1, <2>1, <2>2, <2>4 DEF PartsOwned, ClosingSteps
  <2>. QED  BY <1>2, <2>3, <2>5
<1>5. CASE CloseAddressing(c)
  <2>1. /\ UNCHANGED <<pool, retired, held, orphans>> /\ at[c] = "close_addressing"
        /\ at' = [at EXCEPT ![c] = "idle"] /\ open' = open \ {Own}
    BY <1>5 DEF CloseAddressing, Step
  <2>2. /\ at' \in [Callers -> CallerSteps \cup ClosingSteps]
        /\ at'[c] = "idle" /\ \A d \in Callers \ {c} : at'[d] = at[d]
    BY <2>1 DEF TransportsTypeOK, CallerSteps
  <2>3. TransportsTypeOK'
    BY <1>1, <2>1, <2>2 DEF TransportsTypeOK
  <2>4. PartsOwned'
    BY <1>1, <2>1, <2>2 DEF PartsOwned, OwnedBy, ClosingSteps
  <2>. QED  BY <1>2, <2>3, <2>4
<1>. QED  BY <1>3, <1>4, <1>5

\* A retired transport is closed as a whole.
LEMMA RetiredKeeps ==
    ASSUME TransportsInv, RetiredCloses
    PROVE  TransportsInv'
<1> USE DEF TransportsInv
<1>1. PICK id \in retired :
        /\ retired' = retired \ {id} /\ CloseTransport(id)
        /\ UNCHANGED <<closed, pool, streaming, streams, at, held>>
  BY DEF RetiredCloses
<1>5. /\ open' \subseteq open /\ orphans \subseteq orphans'
      /\ \A part \in open \ open' : part[1] = id
      /\ \A part \in open' \ {Own} : part[1] = id => part[1] \in orphans'
  BY <1>1, CloseLeavesOrphans
<1>2. TransportsTypeOK'
  BY <1>1, <1>5 DEF TransportsTypeOK
<1>3. PartsOwned'
  <2>1. ASSUME NEW part \in open' \ {Own} PROVE OwnedBy(part[1])'
    <3>1. OwnedBy(part[1])
      BY <1>5, <2>1 DEF PartsOwned
    <3>2. part[1] = id => part[1] \in orphans'
      BY <1>5, <2>1
    <3>. QED  BY <1>1, <1>5, <3>1, <3>2 DEF OwnedBy
  <2>. QED  BY <1>1, <1>5, <2>1 DEF PartsOwned
<1>4. StreamingApart'
  <2> SUFFICES ASSUME ~closed, NEW k \in retired' \cup ({pool.transport, streaming} \ {0})
               PROVE  {k} \X Parts \subseteq open'
    BY <1>1 DEF StreamingApart
  <2>1. {k} \X Parts \subseteq open /\ k # id
    BY <1>1 DEF StreamingApart
  <2>. QED  BY <1>5, <2>1
<1>. QED  BY <1>2, <1>3, <1>4

\* The invariant of the transports is inductive.
LEMMA TransportsKept == TransportsInv /\ [TransportsNext]_transportVars => TransportsInv'
<1> SUFFICES ASSUME TransportsInv, [TransportsNext]_transportVars PROVE TransportsInv'
  OBVIOUS
<1>1. CASE UNCHANGED transportVars
  BY <1>1, TransportsStand DEF transportVars
<1>2. CASE \E id \in streams : EndStream(id)
  <2>1. /\ UNCHANGED <<closed, pool, streaming, open, retired, orphans, at, held>>
        /\ streams' \subseteq streams
    BY <1>2 DEF EndStream
  <2>. QED  BY <2>1 DEF TransportsInv, TransportsTypeOK, PartsOwned, OwnedBy, StreamingApart
<1>3. ASSUME NEW c \in Callers,
             \/ UnaryBegin(c) \/ PoolTransport(c) \/ UnaryEnd(c)
             \/ StreamBegin(c) \/ Streaming(c) \/ OpenStream(c)
             \/ Close(c) \/ ClosePool(c) \/ CloseStream(c) \/ CloseAddressing(c)
      PROVE  TransportsInv'
  BY <1>3, BeginKeeps, PoolKeeps, UnaryKeeps, StreamingKeeps, OpenStreamKeeps, CloseKeeps,
     ClosingKeeps
<1>. QED  BY <1>1, <1>2, <1>3, RetiredKeeps DEF TransportsNext

\* Every reachable state of the transports satisfies their inductive invariant.
THEOREM TransportsInvariance == TransportsSpec => []TransportsInv
<1>1. TransportsInit => TransportsInv
  <2> SUFFICES ASSUME TransportsInit PROVE TransportsInv
    OBVIOUS
  <2>1. TransportsTypeOK
    BY DEF TransportsInit, TransportsTypeOK, CallerSteps
  <2>2. PartsOwned /\ StreamingApart
    BY DEF TransportsInit, PartsOwned, StreamingApart, ClosingSteps
  <2>. QED  BY <2>1, <2>2 DEF TransportsInv
<1>. QED  BY <1>1, TransportsKept, PTL DEF TransportsSpec

\* Until close(), the transport of a stream stays whole, whatever the pool retires and
\* closes (StreamsOutlivePool).
THEOREM StreamsSurvive == TransportsSpec => []StreamsOutlivePool
<1>1. TransportsInv => StreamsOutlivePool
  BY DEF TransportsInv, StreamingApart, StreamsOutlivePool
<1>. QED  BY <1>1, TransportsInvariance, PTL

\* Nothing that connect() returned is open once close() is through and no caller is
\* inside the Client (NothingOpenAfterClose).
THEOREM CloseReachesAll == TransportsSpec => []NothingOpenAfterClose
<1>1. TransportsInv => NothingOpenAfterClose
  <2> SUFFICES ASSUME TransportsInv, closed, \A c \in Callers : at[c] = "idle", NEW part \in open
               PROVE  part \in (retired \cup orphans) \X Parts
    BY DEF NothingOpenAfterClose
  <2>1. part # Own /\ pool.transport = 0 /\ streaming = 0
    BY DEF TransportsInv, PartsOwned, ClosingSteps
  <2>2. part \in Ids \X Parts /\ OwnedBy(part[1])
    BY <2>1 DEF TransportsInv, TransportsTypeOK, PartsOwned
  <2>3. part[1] \in retired \cup orphans
    BY <2>1, <2>2 DEF OwnedBy, Ids
  <2>. QED  BY <2>2, <2>3
<1>. QED  BY <1>1, TransportsInvariance, PTL

-----------------------------------------------------------------------------
(* The Agent facade: the invariant                                          *)

Pcs == {"fetch", "clear", "fill", "owner", "preflight", "again", "call", "answered",
        "trace", "returned", "raised", "failed"}

Requests == [pc : Pcs, method : {"functions", "list", "chat"}, rows : SUBSET Users,
             owner : SUBSET Users, sure : BOOLEAN]

AgentsTypeOK ==
    /\ listed \subseteq Users /\ owners \subseteq Users
    /\ request \in [Chatters -> Requests]
    /\ requests \in Nat

\* What a request that is sure of its owner relies on at each of its steps, given the
\* owners that the cache knows and those that are listed.
Grounded(r, known, agents) ==
    /\ r.method = "chat" /\ Me \in agents
    /\ r.pc \in {"owner", "preflight", "fill", "again", "call", "answered", "trace",
                 "returned", "failed"}
    /\ r.pc = "owner" => known = {} \/ Me \in known
    /\ r.pc = "fill" => Me \in known \cup r.rows
    /\ r.pc = "again" => Me \in known
    /\ r.pc = "call" => r.owner = {Me}

AgentsInv ==
    /\ AgentsTypeOK
    /\ \A t \in Chatters : request[t].sure => Grounded(request[t], owners, listed)

-----------------------------------------------------------------------------
\* _cached_agent_owner_ura() finds the paired user's agent among any owners, and no
\* other without it unless it is the only one.
LEMMA PreferredIsMine ==
  ASSUME NEW known, known \subseteq Users
  PROVE  /\ Me \in known => Preferred(known) = {Me}
         /\ Preferred({}) = {}
         /\ Preferred(known) \subseteq Users
  <1>1. IsFiniteSet(known)
    BY FS_Subset, AgentsAssumption
  <1>2. Cardinality(known) = 1 => \E x : known = {x}
    BY <1>1, FS_Singleton
  <1>3. Preferred({}) = {}
    BY FS_EmptySet DEF Preferred
  <1> QED BY <1>2, <1>3, AgentsAssumption DEF Preferred

\* A thread that writes the cache unsettles the others, and need only stay grounded itself.
LEMMA WriteKeeps ==
  ASSUME AgentsInv, NEW t \in Chatters, NEW next \in Requests, Writes(t, next),
         owners' \subseteq Users, UNCHANGED <<listed, requests>>,
         next.sure => Grounded(next, owners', listed)
  PROVE  AgentsInv'
  <1>1. AgentsTypeOK'
    BY DEF AgentsInv, AgentsTypeOK, Writes, Requests
  <1>2. ASSUME NEW u \in Chatters, request'[u].sure
        PROVE  u = t /\ request'[u] = next
    BY <1>2 DEF AgentsInv, AgentsTypeOK, Writes, Requests
  <1> QED BY <1>1, <1>2 DEF AgentsInv, Grounded

\* A thread that leaves the cache alone leaves the others grounded.
LEMMA StepKeeps ==
  ASSUME AgentsInv, NEW t \in Chatters, NEW next \in Requests,
         request' = [request EXCEPT ![t] = next], requests' \in Nat,
         UNCHANGED <<listed, owners>>, next.sure => Grounded(next, owners, listed)
  PROVE  AgentsInv'
  <1>1. AgentsTypeOK'
    BY DEF AgentsInv, AgentsTypeOK
  <1>2. ASSUME NEW u \in Chatters, request'[u].sure
        PROVE  Grounded(request'[u], owners, listed)
    BY <1>2 DEF AgentsInv, AgentsTypeOK
  <1> QED BY <1>1, <1>2 DEF AgentsInv, Grounded

\* The daemon's catalogue changes; a request is no longer sure once the agent it is about
\* is retired.
LEMMA CatalogueKeeps ==
  ASSUME AgentsInv, NEW u \in Users, Enlist(u) \/ Retire(u)
  PROVE  AgentsInv'
  <1> USE DEF AgentsInv, AgentsTypeOK, Requests, Pcs
  <1>1. CASE Enlist(u)
    BY <1>1 DEF Enlist, Grounded
  <1>2. CASE Retire(u)
    <2>1. AgentsTypeOK'
      <3>1. request' \in [Chatters -> Requests]
        <4>1. ASSUME NEW r \in Requests, NEW sure \in BOOLEAN PROVE [r EXCEPT !.sure = sure] \in Requests
          OBVIOUS
        <4>. QED  BY <1>2, <4>1 DEF Retire
      <3>. QED  BY <1>2, <3>1 DEF Retire
    <2>2. ASSUME NEW t \in Chatters, request'[t].sure
          PROVE  Grounded(request'[t], owners, listed')
      <3>1. /\ request[t].sure /\ u # Me
            /\ request'[t] = [request[t] EXCEPT !.sure = TRUE]
        BY <1>2, <2>2 DEF Retire
      <3> QED BY <1>2, <3>1 DEF Retire, Grounded
    <2>3. owners' = owners
      BY <1>2 DEF Retire
    <2> HIDE DEF AgentsTypeOK
    <2> QED BY <2>1, <2>2, <2>3
  <1> QED BY <1>1, <1>2

\* The start of an operation.
LEMMA StartKeeps ==
  ASSUME AgentsInv, NEW t \in Chatters,
         NEW method \in {"functions", "list", "chat"}, NEW pc \in Pcs,
         NEW owner \in SUBSET Users, NEW sure \in BOOLEAN,
         Start(t, method, pc, owner, sure),
         sure => method = "chat" /\ pc = "owner" /\ Sure
  PROVE  AgentsInv'
  <1> DEFINE next == [pc |-> pc, method |-> method, rows |-> {}, owner |-> owner,
                      sure |-> sure]
  <1>1. next \in Requests
    BY DEF Requests
  <1>2. request' = [request EXCEPT ![t] = next] /\ requests' \in Nat
    BY DEF Start, AgentsInv, AgentsTypeOK
  <1>3. next.sure => Grounded(next, owners, listed)
    BY DEF Grounded, Sure
  <1> HIDE DEF next
  <1> QED BY <1>1, <1>2, <1>3, StepKeeps DEF Start

\* The steps of a listing, also of the one that a chat asks for.
LEMMA ListingKeeps ==
  ASSUME AgentsInv, NEW t \in Chatters,
         FetchRows(t) \/ ClearOwners(t) \/ RememberOwner(t) \/ Remembered(t) \/ Preflight(t)
  PROVE  AgentsInv'
  <1> DEFINE r == request[t]
  <1>0. r \in Requests /\ (r.sure => Grounded(r, owners, listed)) /\ AgentsTypeOK
    BY DEF AgentsInv, AgentsTypeOK
  <1>1. CASE FetchRows(t)
    <2> PICK rows \in SUBSET listed : request' = [request EXCEPT
           ![t].rows = rows, ![t].pc = IF r.method = "functions" THEN "clear" ELSE "fill"]
      BY <1>1 DEF FetchRows
    <2> DEFINE next == [r EXCEPT !.rows = rows,
                                 !.pc = IF r.method = "functions" THEN "clear" ELSE "fill"]
    <2>1. request' = [request EXCEPT ![t] = next]
      BY <1>0 DEF AgentsTypeOK, Requests
    <2>2. next \in Requests /\ ~next.sure
      BY <1>0, <1>1 DEF FetchRows, AgentsTypeOK, Requests, Pcs, Grounded
    <2> HIDE DEF next
    <2> QED BY <1>0, <1>1, <2>1, <2>2, StepKeeps DEF FetchRows, AgentsTypeOK
  <1>2. CASE ClearOwners(t)
    <2> DEFINE next == [r EXCEPT !.pc = "fill"]
    <2>1. next \in Requests /\ ~next.sure
      BY <1>0, <1>2 DEF ClearOwners, Requests, Pcs, Grounded
    <2>2. Writes(t, next) /\ owners' \subseteq Users /\ UNCHANGED <<listed, requests>>
      BY <1>2 DEF ClearOwners
    <2> HIDE DEF next
    <2> QED BY <2>1, <2>2, WriteKeeps
  <1>3. CASE RememberOwner(t)
    <2> PICK u \in r.rows : /\ owners' = owners \cup {u}
                            /\ Writes(t, [r EXCEPT !.rows = @ \ {u}])
      BY <1>3 DEF RememberOwner
    <2> DEFINE next == [r EXCEPT !.rows = @ \ {u}]
    <2>1. next \in Requests /\ owners' \subseteq Users
      BY <1>0 DEF AgentsTypeOK, Requests
    <2>2. next.sure => Grounded(next, owners', listed)
      BY <1>0, <1>3 DEF RememberOwner, Grounded, Requests
    <2>3. Writes(t, next) /\ UNCHANGED <<listed, requests>>
      BY <1>3 DEF RememberOwner
    <2> HIDE DEF next
    <2> QED BY <2>1, <2>2, <2>3, WriteKeeps
  <1>4. CASE Remembered(t)
    <2> PICK pc \in {"again", "returned"} : request' = [request EXCEPT ![t].pc = pc]
      BY <1>4 DEF Remembered, Be
    <2> DEFINE next == [r EXCEPT !.pc = pc]
    <2>1. request' = [request EXCEPT ![t] = next]
      BY <1>0 DEF AgentsTypeOK, Requests
    <2>2. next \in Requests /\ (next.sure => Grounded(next, owners, listed))
      BY <1>0, <1>4 DEF Remembered, Requests, Pcs, Grounded
    <2> HIDE DEF next
    <2> QED BY <1>0, <1>4, <2>1, <2>2, StepKeeps DEF Remembered, AgentsTypeOK
  <1>5. CASE Preflight(t)
    <2> DEFINE next == [r EXCEPT !.rows = listed, !.pc = "fill"]
    <2>1. request' = [request EXCEPT ![t] = next]
      BY <1>0, <1>5 DEF Preflight, AgentsTypeOK, Requests
    <2>2. next \in Requests /\ (next.sure => Grounded(next, owners, listed))
      BY <1>0, <1>5 DEF Preflight, AgentsTypeOK, Requests, Pcs, Grounded
    <2> HIDE DEF next
    <2> QED BY <1>0, <1>5, <2>1, <2>2, StepKeeps DEF Preflight, AgentsTypeOK
  <1> QED BY <1>1, <1>2, <1>3, <1>4, <1>5

\* The resolution of the owner and the call.
LEMMA CallKeeps ==
  ASSUME AgentsInv, NEW t \in Chatters,
         ResolveOwner(t) \/ Unreached(t) \/ Invoke(t) \/ Reply(t) \/ ReadTrace(t)
  PROVE  AgentsInv'
  <1> DEFINE r == request[t]
  <1>0. r \in Requests /\ (r.sure => Grounded(r, owners, listed)) /\ AgentsTypeOK
    BY DEF AgentsInv, AgentsTypeOK
  <1>1. CASE ResolveOwner(t)
    <2> DEFINE pc == IF Preferred(owners) # {} THEN "call"
                     ELSE IF owners = {} /\ r.pc = "owner" THEN "preflight" ELSE "raised"
               next == [r EXCEPT !.owner = Preferred(owners), !.pc = pc]
    <2>1. request' = [request EXCEPT ![t] = next]
      BY <1>0, <1>1 DEF ResolveOwner, AgentsTypeOK, Requests
    <2>2. /\ Preferred(owners) \subseteq Users
          /\ Me \in owners => Preferred(owners) = {Me}
          /\ owners = {} => Preferred(owners) = {}
      BY <1>0, PreferredIsMine DEF AgentsTypeOK
    <2>3. next \in Requests
      BY <1>0, <2>2 DEF Requests, Pcs
    <2>4. next.sure => Grounded(next, owners, listed)
      BY <1>0, <1>1, <2>2 DEF ResolveOwner, Requests, Grounded
    <2> HIDE DEF next
    <2> QED BY <1>0, <1>1, <2>1, <2>3, <2>4, StepKeeps DEF ResolveOwner, AgentsTypeOK
  <1>2. CASE Unreached(t)
    <2> DEFINE next == [r EXCEPT !.pc = "raised", !.sure = FALSE]
    <2>1. request' = [request EXCEPT ![t] = next]
      BY <1>0, <1>2 DEF Unreached, AgentsTypeOK, Requests
    <2>2. next \in Requests /\ ~next.sure
      BY <1>0 DEF Requests, Pcs
    <2> HIDE DEF next
    <2> QED BY <1>0, <1>2, <2>1, <2>2, StepKeeps DEF Unreached, AgentsTypeOK
  <1>3. CASE Invoke(t)
    <2> PICK pc \in {"answered", "failed"} :
          \/ Be(t, pc) /\ UNCHANGED owners
          \/ /\ owners' = owners \cup r.owner
             /\ Writes(t, [r EXCEPT !.pc = pc])
      BY <1>3 DEF Invoke
    <2> DEFINE next == [r EXCEPT !.pc = pc]
    <2>1. next \in Requests /\ (next.sure => Grounded(next, owners, listed)
                                             /\ Grounded(next, owners', listed))
      BY <1>0, <1>3 DEF Invoke, Requests, Pcs, Grounded
    <2>2. UNCHANGED <<listed, requests>> /\ requests \in Nat
      BY <1>0, <1>3 DEF Invoke, AgentsTypeOK
    <2>3. CASE Be(t, pc) /\ UNCHANGED owners
      <3>1. request' = [request EXCEPT ![t] = next]
        BY <1>0, <2>3 DEF Be, AgentsTypeOK, Requests
      <3> HIDE DEF next
      <3> QED BY <2>1, <2>2, <2>3, <3>1, StepKeeps
    <2>4. CASE owners' = owners \cup r.owner /\ Writes(t, next)
      <3>1. owners' \subseteq Users
        BY <1>0, <2>4 DEF AgentsTypeOK, Requests
      <3> HIDE DEF next
      <3> QED BY <2>1, <2>2, <2>4, <3>1, WriteKeeps
    <2> QED BY <2>3, <2>4
  <1>4. CASE Reply(t) \/ ReadTrace(t)
    <2> PICK pc \in {"trace", "returned", "failed"} : Be(t, pc)
      BY <1>4 DEF Reply, ReadTrace
    <2> DEFINE next == [r EXCEPT !.pc = pc]
    <2>1. request' = [request EXCEPT ![t] = next]
      BY <1>0 DEF Be, AgentsTypeOK, Requests
    <2>2. next \in Requests /\ (next.sure => Grounded(next, owners, listed))
      BY <1>0, <1>4 DEF Reply, ReadTrace, Requests, Pcs, Grounded
    <2>3. UNCHANGED <<listed, owners, requests>>
      BY <1>4 DEF Reply, ReadTrace
    <2> HIDE DEF next
    <2> QED BY <1>0, <2>1, <2>2, <2>3, StepKeeps DEF AgentsTypeOK
  <1> QED BY <1>1, <1>2, <1>3, <1>4

\* A bare agent id reaches the paired user's agent, whatever other threads list or call,
\* as long as they do not write the cache between the steps of the call.
THEOREM OwnAgentIsCalled == AgentsSpec => []OwnAgentCalled
  <1>1. AgentsInit => AgentsInv
    BY DEF AgentsInit, AgentsInv, AgentsTypeOK, Requests, Pcs
  <1>2. AgentsInv /\ [AgentsNext]_agentVars => AgentsInv'
    <2> SUFFICES ASSUME AgentsInv, [AgentsNext]_agentVars PROVE AgentsInv'
      OBVIOUS
    <2>1. CASE UNCHANGED agentVars
      BY <2>1 DEF agentVars, AgentsInv, AgentsTypeOK, Grounded
    <2>2. ASSUME NEW u \in Users, Enlist(u) \/ Retire(u) PROVE AgentsInv'
      BY <2>2, CatalogueKeeps
    <2>3. ASSUME NEW t \in Chatters, NEW method \in {"functions", "list"},
                 Start(t, method, "fetch", {}, FALSE)
          PROVE  AgentsInv'
      BY <2>3, StartKeeps DEF Pcs
    <2>4. ASSUME NEW t \in Chatters, Chat(t) PROVE AgentsInv'
      <3>1. Sure \in BOOLEAN
        BY DEF Sure
      <3> QED BY <2>4, <3>1, StartKeeps DEF Chat, Pcs
    <2>5. ASSUME NEW t \in Chatters, NEW u \in Users, ChatWith(t, u) PROVE AgentsInv'
      <3>1. {u} \in SUBSET Users
        OBVIOUS
      <3> QED BY <2>5, <3>1, StartKeeps DEF ChatWith, Pcs
    <2>6. ASSUME NEW t \in Chatters,
                 \/ FetchRows(t) \/ ClearOwners(t) \/ RememberOwner(t) \/ Remembered(t)
                 \/ Preflight(t) \/ ResolveOwner(t) \/ Unreached(t)
                 \/ Invoke(t) \/ Reply(t) \/ ReadTrace(t)
          PROVE  AgentsInv'
      BY <2>6, ListingKeeps, CallKeeps
    <2> QED BY <2>1, <2>2, <2>3, <2>4, <2>5, <2>6 DEF AgentsNext
  <1>3. AgentsInv => OwnAgentCalled
    BY DEF AgentsInv, Grounded, OwnAgentCalled
  <1> QED BY <1>1, <1>2, <1>3, PTL DEF AgentsSpec

-----------------------------------------------------------------------------
(* Arguments: signatures                                                    *)

\* When every name is given, all are passed.
LEMMA GivenAll ==
    ASSUME NEW T, NEW names \in Seq(T), NEW p, ToSet(names) \subseteq DOMAIN p
    PROVE  Given(names, p) = names
  <1> DEFINE n == Len(names)
  <1>0. n \in Nat /\ DOMAIN names = 1 .. n /\ names = [i \in 1 .. n |-> names[i]]
    OBVIOUS
  <1> HIDE DEF n
  <1>1. {i \in DOMAIN names : names[i] \in DOMAIN p} = 1 .. n
    BY <1>0 DEF ToSet
  <1>2. Cardinality(1 .. n) = n
    <2>1. n \in Int /\ 1 \in Int /\ (1 > n => n = 0) /\ n - 1 + 1 = n
      BY <1>0
    <2> QED BY <2>1, FS_Interval
  <1>3. ASSUME NEW i \in 1 .. n PROVE Cardinality({j \in 1 .. n : j <= i}) = i
    <2>1. {j \in 1 .. n : j <= i} = 1 .. i
      BY <1>0
    <2>2. i \in Int /\ 1 \in Int /\ ~ 1 > i /\ i - 1 + 1 = i
      BY <1>0
    <2> QED BY <2>1, <2>2, FS_Interval
  <1>4. ASSUME NEW m \in 1 .. n
        PROVE  (CHOOSE i \in 1 .. n : Cardinality({j \in 1 .. n : j <= i}) = m) = m
    BY <1>3
  <1> DEFINE Chosen(given) ==
        [m \in 1 .. Cardinality(given) |-> names[CHOOSE i \in given : Cardinality({j \in given : j <= i}) = m]]
  <1>5. Given(names, p) = Chosen({i \in DOMAIN names : names[i] \in DOMAIN p})
    BY DEF Given
  <1>6. Given(names, p) = Chosen(1 .. n)
    <2> HIDE DEF Chosen
    <2> QED BY <1>1, <1>5
  <1>7. Given(names, p) = [m \in 1 .. n |-> names[CHOOSE i \in 1 .. n : Cardinality({j \in 1 .. n : j <= i}) = m]]
    BY <1>2, <1>6
  <1> QED BY <1>0, <1>4, <1>7

\* When no name is given, none is passed.
LEMMA GivenNone ==
    ASSUME NEW names, NEW p, ToSet(names) \cap DOMAIN p = {}
    PROVE  Given(names, p) = <<>>
  <1>1. {i \in DOMAIN names : names[i] \in DOMAIN p} = {}
    BY DEF ToSet
  <1> DEFINE Chosen(given) ==
        [m \in 1 .. Cardinality(given) |-> names[CHOOSE i \in given : Cardinality({j \in given : j <= i}) = m]]
  <1>2. Given(names, p) = Chosen({i \in DOMAIN names : names[i] \in DOMAIN p})
    BY DEF Given
  <1>3. Given(names, p) = Chosen({})
    <2> HIDE DEF Chosen
    <2> QED BY <1>1, <1>2
  <1>4. Chosen({}) = <<>>
    BY FS_EmptySet
  <1> QED BY <1>3, <1>4

\* The keyword-only parameters in their order.
LEMMA OneKeyword == SetToSeq({}) = <<>> /\ SetToSeq({"k"}) = <<"k">>
  <1>1. Cardinality({}) = 0 /\ Cardinality({"k"}) = 1
    BY FS_EmptySet, FS_Singleton
  <1>2. SetToSeq({}) = <<>>
    BY <1>1 DEF SetToSeq, IsInjective
  <1>3. SetToSeq({"k"}) = <<"k">>
    <2> DEFINE Q(f) == f \in [1 .. 1 -> {"k"}] /\ IsInjective(f)
    <2>1. <<"k">> \in [1 .. 1 -> {"k"}] /\ IsInjective(<<"k">>)
      BY DEF IsInjective
    <2>2. \A f \in [1 .. 1 -> {"k"}] : f = <<"k">>
      OBVIOUS
    <2>3. SetToSeq({"k"}) = CHOOSE f \in [1 .. 1 -> {"k"}] : IsInjective(f)
      BY <1>1 DEF SetToSeq
    <2> QED BY <2>1, <2>2, <2>3
  <1> QED BY <1>2, <1>3

\* What a caller sees of a function: the parameters without the Context, in its order.
LEMMA SignatureShape ==
    ASSUME NEW s \in Signatures
    PROVE  /\ Business(s).positional \in {<<>>, <<"a">>, <<"a", "b">>}
           /\ Business(s).posonly \in 0 .. Len(Business(s).positional)
           /\ Business(s).keyword = s.keyword /\ s.keyword \in {{}, {"k"}}
           /\ Business(s).var = s.var /\ s.var \in BOOLEAN
           /\ Business(s).open = s.open /\ s.open \in BOOLEAN
           /\ Business(s).optional = s.optional /\ s.optional \subseteq {"a", "b", "k"}
           /\ Business(s).hidden = s.hidden /\ s.hidden \subseteq s.optional
           /\ s.optional \subseteq Parameters(Business(s))
  <1>0. /\ s.positional \in {<<>>, <<"a">>, <<"a", "b">>, <<"ctx">>, <<"ctx", "a">>, <<"ctx", "a", "b">>}
        /\ s.posonly \in 0 .. Len(s.positional) /\ s.posonly \in Nat
        /\ s.keyword \in {{}, {"k"}} /\ s.var \in BOOLEAN /\ s.open \in BOOLEAN
        /\ s.optional \subseteq {"a", "b", "k"} /\ s.hidden \subseteq s.optional
        /\ s.optional \subseteq ToSet(s.positional) \cup s.keyword
    BY DEF Signatures
  <1>1. CASE ~TakesContext(s)
    <2>1. Business(s) = s
      BY <1>1 DEF Business
    <2>2. s.positional \in {<<>>, <<"a">>, <<"a", "b">>}
      BY <1>0, <1>1 DEF TakesContext
    <2> QED BY <1>0, <2>1, <2>2 DEF Parameters
  <1>2. CASE TakesContext(s)
    <2>1. Business(s) = [s EXCEPT !.positional = Tail(@), !.posonly = IF @ = 0 THEN 0 ELSE @ - 1]
      BY <1>2 DEF Business
    <2>2. s.positional \in {<<"ctx">>, <<"ctx", "a">>, <<"ctx", "a", "b">>}
      BY <1>0, <1>2 DEF TakesContext
    <2>3. /\ Business(s).positional = Tail(s.positional)
          /\ Business(s).posonly = IF s.posonly = 0 THEN 0 ELSE s.posonly - 1
          /\ Business(s).keyword = s.keyword /\ Business(s).var = s.var /\ Business(s).open = s.open
          /\ Business(s).optional = s.optional /\ Business(s).hidden = s.hidden
      BY <2>1 DEF Signatures
    <2>4. /\ Tail(<<"ctx">>) = <<>> /\ Tail(<<"ctx", "a">>) = <<"a">>
          /\ Tail(<<"ctx", "a", "b">>) = <<"a", "b">>
          /\ Len(<<"ctx">>) = 1 /\ Len(<<"ctx", "a">>) = 2 /\ Len(<<"ctx", "a", "b">>) = 3
      OBVIOUS
    <2>5. s.positional = <<"ctx">> \o Business(s).positional
      BY <2>2, <2>3, <2>4
    <2>6. Business(s).positional \in {<<>>, <<"a">>, <<"a", "b">>}
      BY <2>2, <2>3, <2>4
    <2>7. Business(s).posonly \in 0 .. Len(Business(s).positional)
      BY <1>0, <2>2, <2>3, <2>4
    <2>8. ToSet(s.positional) = {"ctx"} \cup ToSet(Business(s).positional)
      <3>1. /\ ToSet(<<"ctx">>) = {"ctx"} /\ ToSet(<<"ctx", "a">>) = {"ctx", "a"}
            /\ ToSet(<<"ctx", "a", "b">>) = {"ctx", "a", "b"}
            /\ ToSet(<<>>) = {} /\ ToSet(<<"a">>) = {"a"} /\ ToSet(<<"a", "b">>) = {"a", "b"}
        BY DEF ToSet
      <3> QED BY <2>2, <2>3, <2>4, <3>1
    <2>9. s.optional \subseteq Parameters(Business(s))
      BY <1>0, <2>3, <2>8 DEF Parameters
    <2> QED BY <1>0, <2>3, <2>6, <2>7, <2>9
  <1> QED BY <1>1, <1>2

\* The positional ones are a sequence of distinct names.
LEMMA PositionalShape ==
    ASSUME NEW s \in Signatures
    PROVE  LET P == Business(s).positional IN
           /\ P \in Seq({"a", "b"}) /\ Len(P) \in Nat /\ DOMAIN P = 1 .. Len(P)
           /\ \A i, j \in 1 .. Len(P) : P[i] = P[j] => i = j
  <1> DEFINE Injects(q) == \A i, j \in 1 .. Len(q) : q[i] = q[j] => i = j
  <1>1. <<>> \in Seq({"a", "b"}) /\ Injects(<<>>)
    OBVIOUS
  <1>2. <<"a">> \in Seq({"a", "b"}) /\ Injects(<<"a">>)
    OBVIOUS
  <1>3. <<"a", "b">> \in Seq({"a", "b"}) /\ Injects(<<"a", "b">>)
    <2>1. <<"a", "b">> \in Seq({"a", "b"}) /\ Len(<<"a", "b">>) = 2
      OBVIOUS
    <2>2. <<"a", "b">>[1] # <<"a", "b">>[2] /\ \A i \in 1 .. 2 : i = 1 \/ i = 2
      OBVIOUS
    <2> QED BY <2>1, <2>2
  <1> HIDE DEF Injects
  <1>4. Business(s).positional \in Seq({"a", "b"}) /\ Injects(Business(s).positional)
    BY <1>1, <1>2, <1>3, SignatureShape
  <1> QED BY <1>4 DEF Injects

\* The injected Context is the first parameter of the function.
Offset(s) == IF TakesContext(s) THEN 1 ELSE 0

\* The function has the parameters that a caller sees, behind the Context if it takes one.
LEMMA ContextShape ==
    ASSUME NEW s \in Signatures
    PROVE  LET b == Business(s) IN
           /\ Len(s.positional) = Offset(s) + Len(b.positional)
           /\ \A i \in 1 .. Len(b.positional) : s.positional[i + Offset(s)] = b.positional[i]
           /\ TakesContext(s) => s.positional[1] = "ctx"
           /\ \A i \in 1 .. Len(s.positional) : i > Offset(s) \/ s.positional[i] = "ctx"
           /\ Parameters(s) = Parameters(b) \cup (IF TakesContext(s) THEN {"ctx"} ELSE {})
           /\ ByKeyword(s) \in {ByKeyword(b), ByKeyword(b) \cup {"ctx"}}
           /\ ~TakesContext(s) => b = s
  <1> DEFINE b == Business(s)
  <1>1. CASE ~TakesContext(s)
    <2>1. b = s /\ Offset(s) = 0
      BY <1>1 DEF Business, Offset
    <2>4. s.positional \in {<<>>, <<"a">>, <<"a", "b">>}
      BY <2>1, SignatureShape
    <2>5. Len(s.positional) \in Nat
      BY <2>4
    <2>2. \A i \in 1 .. Len(s.positional) : i + 0 = i /\ i > 0
      BY <2>5
    <2>3. 0 + Len(s.positional) = Len(s.positional)
      BY <2>5
    <2> HIDE DEF b
    <2>6. \A i \in 1 .. Len(b.positional) : s.positional[i + Offset(s)] = b.positional[i]
      BY <2>1, <2>2
    <2>7. \A i \in 1 .. Len(s.positional) : i > Offset(s)
      BY <2>1, <2>2
    <2>8. Parameters(s) = Parameters(b) \cup {} /\ ByKeyword(s) = ByKeyword(b)
      BY <2>1
    <2> QED BY <1>1, <2>1, <2>3, <2>6, <2>7, <2>8 DEF b
  <1>2. CASE TakesContext(s)
    <2>1. /\ b.positional = Tail(s.positional)
          /\ b.posonly = IF s.posonly = 0 THEN 0 ELSE s.posonly - 1
          /\ b.keyword = s.keyword
      BY <1>2 DEF Business, Signatures
    <2>2. s.positional \in {<<"ctx">>, <<"ctx", "a">>, <<"ctx", "a", "b">>}
      BY <1>2 DEF TakesContext, Signatures
    <2>3. s.posonly \in Nat /\ s.posonly <= Len(s.positional)
      BY DEF Signatures
    <2> DEFINE P == b.positional
               Shown(lo) == {s.positional[i] : i \in lo .. Len(s.positional)}
               After(lo) == {P[i] : i \in lo .. Len(P)}
    <2>4. /\ Len(s.positional) = 1 + Len(P) /\ Len(P) \in Nat
          /\ \A i \in 1 .. Len(P) : s.positional[i + 1] = P[i]
          /\ s.positional[1] = "ctx"
      <3>1. /\ <<"ctx">> \in Seq({"a", "b", "ctx"}) /\ <<"ctx">>[1] = "ctx"
            /\ <<"ctx", "a">> \in Seq({"a", "b", "ctx"}) /\ <<"ctx", "a">>[1] = "ctx"
            /\ <<"ctx", "a", "b">> \in Seq({"a", "b", "ctx"}) /\ <<"ctx", "a", "b">>[1] = "ctx"
            /\ Len(<<"ctx">>) = 1 /\ Len(<<"ctx", "a">>) = 2 /\ Len(<<"ctx", "a", "b">>) = 3
        OBVIOUS
      <3>2. \A q \in Seq({"a", "b", "ctx"}) : Len(q) >= 1 => /\ Len(q) = 1 + Len(Tail(q)) /\ Len(Tail(q)) \in Nat
                                               /\ \A i \in 1 .. Len(Tail(q)) : q[i + 1] = Tail(q)[i]
        OBVIOUS
      <3> QED BY <2>1, <2>2, <3>1, <3>2
    <2> HIDE DEF P
    <2>5. ASSUME NEW lo \in Nat, lo >= 1 PROVE Shown(lo + 1) = After(lo)
      <3>1. Shown(lo + 1) \subseteq After(lo)
        <4> SUFFICES ASSUME NEW i \in lo + 1 .. Len(s.positional) PROVE s.positional[i] \in After(lo)
          OBVIOUS
        <4>1. i - 1 \in lo .. Len(P) /\ i - 1 \in 1 .. Len(P) /\ i - 1 + 1 = i
          BY <2>4, <2>5
        <4> QED BY <2>4, <4>1
      <3>2. After(lo) \subseteq Shown(lo + 1)
        <4> SUFFICES ASSUME NEW i \in lo .. Len(P) PROVE P[i] \in Shown(lo + 1)
          OBVIOUS
        <4>1. i + 1 \in lo + 1 .. Len(s.positional) /\ i \in 1 .. Len(P)
          BY <2>4, <2>5
        <4> QED BY <2>4, <4>1
      <3> QED BY <3>1, <3>2
    <2>6. Shown(1) = {"ctx"} \cup Shown(2)
      BY <2>4
    <2>7. Shown(1) = {"ctx"} \cup After(1)
      <3>1. 1 \in Nat /\ 1 >= 1 /\ 1 + 1 = 2
        OBVIOUS
      <3>2. Shown(2) = After(1)
        <4> HIDE DEF At, After
        <4> QED BY <2>5, <3>1
      <3> QED BY <2>6, <3>2
    <2>8. Parameters(s) = Shown(1) \cup s.keyword /\ Parameters(b) = After(1) \cup s.keyword
      <3>1. DOMAIN s.positional = 1 .. Len(s.positional) /\ DOMAIN P = 1 .. Len(P)
        BY <2>2, SignatureShape DEF P
      <3>2. ToSet(s.positional) = Shown(1) /\ ToSet(P) = After(1)
        BY <3>1 DEF ToSet
      <3> QED BY <2>1, <3>2 DEF Parameters, P
    <2>9. Parameters(s) = Parameters(b) \cup {"ctx"}
      BY <2>7, <2>8
    <2>10. ByKeyword(s) = Shown(s.posonly + 1) \cup s.keyword /\ ByKeyword(b) = After(b.posonly + 1) \cup s.keyword
      BY <2>1 DEF ByKeyword, P
    <2>11. CASE s.posonly = 0
      <3>1. b.posonly + 1 = 1 /\ s.posonly + 1 = 1
        BY <2>1, <2>11
      <3>2. ByKeyword(s) = ByKeyword(b) \cup {"ctx"}
        BY <2>7, <2>10, <3>1
      <3> QED BY <1>2, <2>4, <2>9, <3>2 DEF Offset, P
    <2>12. CASE s.posonly # 0
      <3>1. b.posonly + 1 = s.posonly /\ s.posonly >= 1
        BY <2>1, <2>3, <2>12
      <3>2. ByKeyword(s) = ByKeyword(b)
        BY <2>3, <2>5, <2>10, <3>1
      <3> QED BY <1>2, <2>4, <2>9, <3>2 DEF Offset, P
    <2> QED BY <2>11, <2>12
  <1> QED BY <1>1, <1>2

-----------------------------------------------------------------------------
(* Arguments: the host                                                      *)

\* The positional-only parameters that a caller sees, and the name of a variadic.
First(s) == ToSet(SubSeq(Business(s).positional, 1, Business(s).posonly))
Variadic(s) == IF s.var THEN {"items"} ELSE {}

\* What Python binds, as a value.
Bindings(s) ==
    [params : [Parameters(Business(s)) -> Int], tail : Seq(Int),
     extra : {Only(Keyword, names) : names \in SUBSET DOMAIN Keyword}]

\* The payload says what Python would bind.
Carries(s, p, python) ==
    /\ python \in Bindings(s)
    /\ \A n \in Parameters(Business(s)) :
         IF n \in DOMAIN p THEN p[n] = python.params[n]
         ELSE n \in s.optional /\ python.params[n] = DefaultOf[n]
    /\ python.tail = IF Spreads(s, p) THEN p["items"] ELSE <<>>
    /\ python.extra = Only(p, DOMAIN p \ (Parameters(Business(s)) \cup Variadic(s)))
    /\ s.open \/ DOMAIN p \subseteq Parameters(Business(s)) \cup Variadic(s)
    /\ "ctx" \notin DOMAIN p
    /\ TakesContext(s) => First(s) \subseteq DOMAIN p \/ First(s) \cap DOMAIN p = {}

\* The parameters that the host passes by position are the first ones, and no later
\* positional-only one is given.
LEMMA LeadingIsPrefix ==
    ASSUME NEW s \in Signatures, NEW p, NEW python, Carries(s, p, python)
    PROVE  LET b == Business(s) IN
           \E m \in 0 .. Len(b.positional) :
             /\ Len(Leading(s, p)) = m /\ DOMAIN Leading(s, p) = 1 .. m
             /\ \A i \in 1 .. m : Leading(s, p)[i] = b.positional[i]
             /\ Spreads(s, p) => m = Len(b.positional)
             /\ \A i \in m + 1 .. b.posonly : b.positional[i] \notin DOMAIN p
             /\ Spreads(s, p) \/ m <= b.posonly
  <1> DEFINE b == Business(s)
             P == b.positional
             first == SubSeq(P, 1, b.posonly)
             Prefix(m) ==
               /\ Len(Leading(s, p)) = m /\ DOMAIN Leading(s, p) = 1 .. m
               /\ \A i \in 1 .. m : Leading(s, p)[i] = P[i]
               /\ Spreads(s, p) => m = Len(P)
               /\ \A i \in m + 1 .. b.posonly : P[i] \notin DOMAIN p
               /\ Spreads(s, p) \/ m <= b.posonly
  <1>0. SUFFICES \E m \in 0 .. Len(P) : Prefix(m)
    OBVIOUS
  <1>1. P \in Seq({"a", "b"}) /\ Len(P) \in Nat /\ b.posonly \in 0 .. Len(P)
    BY SignatureShape, PositionalShape
  <1> HIDE DEF b
  <1>2. /\ first \in Seq({"a", "b"}) /\ Len(first) = b.posonly /\ DOMAIN first = 1 .. b.posonly
        /\ \A i \in 1 .. b.posonly : first[i] = P[i]
    BY <1>1
  <1>3. /\ DOMAIN P = 1 .. Len(P)
        /\ \A i \in Len(P) + 1 .. b.posonly : FALSE
        /\ \A i \in b.posonly + 1 .. b.posonly : FALSE
    BY <1>1
  <1>4. CASE Spreads(s, p)
    <2>1. Leading(s, p) = P
      BY <1>4 DEF Leading, b
    <2>2. Prefix(Len(P))
      BY <1>1, <1>3, <1>4, <2>1
    <2> QED BY <1>1, <2>2
  <1>5. CASE ~Spreads(s, p) /\ Leading(s, p) = first
    <2>1. Prefix(b.posonly)
      BY <1>1, <1>2, <1>3, <1>5
    <2> QED BY <1>1, <2>1
  <1>6. CASE ~Spreads(s, p) /\ Leading(s, p) # first
    <2>1. TakesContext(s) /\ Leading(s, p) = Given(first, p)
      BY <1>6 DEF Leading, b
    <2>2. First(s) = ToSet(first)
      BY DEF First, b
    <2>3. ToSet(first) \cap DOMAIN p = {}
      <3>1. ToSet(first) \subseteq DOMAIN p => Given(first, p) = first
        BY <1>2, GivenAll
      <3> QED BY <1>6, <2>1, <2>2, <3>1 DEF Carries
    <2>4. Leading(s, p) = <<>>
      BY <2>1, <2>3, GivenNone
    <2>5. \A i \in 0 + 1 .. b.posonly : P[i] \notin DOMAIN p
      BY <1>2, <2>3 DEF ToSet
    <2>6. Prefix(0)
      BY <1>1, <1>6, <2>4, <2>5
    <2> QED BY <1>1, <2>6
  <1> QED BY <1>4, <1>5, <1>6

\* A first argument of at most one, then x, then y.
LEMMA Joined ==
    ASSUME NEW w \in {<<>>, <<Ctx>>}, NEW x \in Seq(Int), NEW y \in Seq(Int)
    PROVE  LET A == w \o x \o y IN
           /\ A \in Seq(Int) /\ Len(A) = Len(w) + Len(x) + Len(y)
           /\ \A i \in 1 .. Len(x) : A[Len(w) + i] = x[i]
           /\ SubSeq(A, Len(w) + Len(x) + 1, Len(A)) = y
  <1>0. w \in Seq(Int)
    <2>1. <<>> \in Seq(Int) /\ <<0>> \in Seq(Int)
      OBVIOUS
    <2> QED BY <2>1 DEF Ctx
  <1>1. \A q, r \in Seq(Int) : /\ q \o r \in Seq(Int) /\ Len(q \o r) = Len(q) + Len(r)
                               /\ \A i \in 1 .. Len(q) : (q \o r)[i] = q[i]
                               /\ \A i \in 1 .. Len(r) : (q \o r)[Len(q) + i] = r[i]
    OBVIOUS
  <1> DEFINE A == w \o x \o y
             k == Len(w) + Len(x)
  <1>2. /\ w \o x \in Seq(Int) /\ Len(w \o x) = k
        /\ \A i \in 1 .. Len(x) : (w \o x)[Len(w) + i] = x[i]
    BY <1>0, <1>1
  <1>3. Len(w) \in Nat /\ Len(x) \in Nat /\ Len(y) \in Nat /\ k \in Nat
    BY <1>0
  <1>4. /\ A \in Seq(Int) /\ Len(A) = k + Len(y)
        /\ \A i \in 1 .. k : A[i] = (w \o x)[i]
        /\ \A i \in 1 .. Len(y) : A[k + i] = y[i]
    <2> DEFINE q == w \o x
    <2>1. q \in Seq(Int) /\ y \in Seq(Int) /\ Len(q) = k
      BY <1>2
    <2> HIDE DEF q, k
    <2>2. /\ q \o y \in Seq(Int) /\ Len(q \o y) = Len(q) + Len(y)
          /\ \A i \in 1 .. Len(q) : (q \o y)[i] = q[i]
          /\ \A i \in 1 .. Len(y) : (q \o y)[Len(q) + i] = y[i]
      BY <1>1, <2>1
    <2> QED BY <2>1, <2>2 DEF q
  <1>5. \A i \in 1 .. Len(x) : A[Len(w) + i] = x[i]
    <2> SUFFICES ASSUME NEW i \in 1 .. Len(x) PROVE A[Len(w) + i] = x[i]
      OBVIOUS
    <2>1. Len(w) + i \in 1 .. k
      BY <1>3
    <2> HIDE DEF A, k
    <2> QED BY <1>2, <1>4, <2>1
  <1>6. SubSeq(A, k + 1, Len(A)) = y
    <2> HIDE DEF A, k
    <2>1. SubSeq(A, k + 1, Len(A)) \in Seq(Int) /\ Len(SubSeq(A, k + 1, Len(A))) = Len(y)
      BY <1>3, <1>4
    <2>2. \A i \in 1 .. Len(y) : SubSeq(A, k + 1, Len(A))[i] = A[k + i]
      BY <1>3, <1>4
    <2> QED BY <1>3, <1>4, <2>1, <2>2
  <1> HIDE DEF A
  <1>7. Len(A) = Len(w) + Len(x) + Len(y)
    BY <1>4
  <1> QED BY <1>4, <1>5, <1>6, <1>7 DEF A

\* What the host passes by position: the Context, the first parameters as Python
\* binds them, and the variadic.
LEMMA PositionalArguments ==
    ASSUME NEW s \in Signatures, NEW p, NEW python, Carries(s, p, python)
    PROVE  LET b == Business(s)
               A == Positional(s, p)
               m == Len(Leading(s, p))
           IN  /\ A \in Seq(Int) /\ Len(A) = Offset(s) + m + Len(python.tail)
               /\ \A i \in 1 .. m : A[Offset(s) + i] = python.params[b.positional[i]]
               /\ SubSeq(A, Offset(s) + m + 1, Len(A)) = python.tail
  <1> DEFINE P == Business(s).positional
             L == Leading(s, p)
             w == IF TakesContext(s) THEN <<Ctx>> ELSE <<>>
             x == [i \in DOMAIN L |-> LET n == L[i] IN IF n \in DOMAIN p THEN p[n] ELSE DefaultOf[n]]
  <1>1. PICK m \in 0 .. Len(P) : Len(L) = m /\ DOMAIN L = 1 .. m /\ \A i \in 1 .. m : L[i] = P[i]
    BY LeadingIsPrefix
  <1>2. \A i \in 1 .. m : P[i] \in Parameters(Business(s))
    BY <1>1, PositionalShape DEF Parameters, ToSet
  <1>3. \A n \in Parameters(Business(s)) :
          (IF n \in DOMAIN p THEN p[n] ELSE DefaultOf[n]) = python.params[n] /\ python.params[n] \in Int
    BY DEF Carries, Bindings
  <1>4. x = [i \in 1 .. m |-> python.params[P[i]]]
    BY <1>1, <1>2, <1>3
  <1>5. x \in Seq(Int) /\ Len(x) = m /\ \A i \in 1 .. m : x[i] = python.params[P[i]]
    <2>1. \A i \in 1 .. m : python.params[P[i]] \in Int
      BY <1>2, <1>3
    <2>2. m \in Nat
      BY <1>1, PositionalShape
    <2> HIDE DEF x, P
    <2>3. x \in [1 .. m -> Int]
      BY <1>4, <2>1
    <2>4. x \in Seq(Int) /\ Len(x) = m
      BY <2>2, <2>3
    <2> QED BY <1>4, <2>4
  <1>6. python.tail \in Seq(Int) /\ python.tail = IF Spreads(s, p) THEN p["items"] ELSE <<>>
    BY DEF Carries, Bindings
  <1>7. Positional(s, p) = w \o x \o python.tail
    BY <1>6 DEF Positional
  <1>8. w \in {<<>>, <<Ctx>>} /\ Len(w) = Offset(s)
    BY DEF Offset
  <1> HIDE DEF w, x, L, P
  <1>9. LET A == w \o x \o python.tail IN
           /\ A \in Seq(Int) /\ Len(A) = Len(w) + Len(x) + Len(python.tail)
           /\ \A i \in 1 .. Len(x) : A[Len(w) + i] = x[i]
           /\ SubSeq(A, Len(w) + Len(x) + 1, Len(A)) = python.tail
    BY <1>5, <1>6, <1>8, Joined
  <1> QED BY <1>1, <1>5, <1>7, <1>8, <1>9 DEF L, P

\* No parameter that a caller sees is called ctx or items.
LEMMA ParameterNames ==
    ASSUME NEW s \in Signatures
    PROVE  /\ Parameters(Business(s)) \subseteq {"a", "b", "k"}
           /\ ByKeyword(Business(s)) \subseteq Parameters(Business(s))
           /\ ToSet(Business(s).positional) \subseteq Parameters(Business(s))
           /\ ToSet(Order(s)) = Parameters(Business(s)) \cup Variadic(s)
  <1> DEFINE b == Business(s)
             P == b.positional
  <1>1. ToSet(P) \subseteq {"a", "b"} /\ b.keyword \subseteq {"k"} /\ b.keyword = s.keyword
    BY PositionalShape, SignatureShape DEF ToSet
  <1>2. ByKeyword(b) \subseteq ToSet(P) \cup b.keyword
    <2>1. \A i \in (b.posonly + 1) .. Len(P) : i \in 1 .. Len(P)
      BY SignatureShape, PositionalShape
    <2> QED BY <2>1, PositionalShape DEF ByKeyword, ToSet
  <1>3. ToSet(Order(s)) = ToSet(P) \cup Variadic(s) \cup s.keyword
    <2> DEFINE V == IF s.var THEN <<"items">> ELSE <<>>
               Q == SetToSeq(s.keyword)
    <2>1. V \in Seq({"items"}) /\ ToSet(V) = Variadic(s)
      <3>1. <<>> \in Seq({"items"}) /\ ToSet(<<>>) = {}
        BY DEF ToSet
      <3>2. <<"items">> \in Seq({"items"}) /\ ToSet(<<"items">>) = {"items"}
        BY DEF ToSet
      <3> QED BY <3>1, <3>2 DEF Variadic
    <2>2. Q \in Seq({"k"}) /\ ToSet(Q) = s.keyword
      <3>1. <<>> \in Seq({"k"}) /\ ToSet(<<>>) = {}
        BY DEF ToSet
      <3>2. <<"k">> \in Seq({"k"}) /\ ToSet(<<"k">>) = {"k"}
        BY DEF ToSet
      <3> QED BY <3>1, <3>2, OneKeyword, SignatureShape
    <2>3. P \in Seq({"a", "b"})
      BY PositionalShape
    <2>4. Order(s) = P \o V \o Q
      BY DEF Order
    <2> HIDE DEF P, V, Q
    <2> DEFINE N == {"a", "b", "items", "k"}
    <2>5. P \in Seq(N) /\ V \in Seq(N) /\ Q \in Seq(N)
      BY <2>1, <2>2, <2>3
    <2> HIDE DEF N
    <2>6. ASSUME NEW q \in Seq(N), NEW r \in Seq(N) PROVE ToSet(q \o r) = ToSet(q) \cup ToSet(r)
      <3>1. /\ q \o r \in Seq(N) /\ Len(q \o r) = Len(q) + Len(r)
            /\ \A i \in 1 .. Len(q) : (q \o r)[i] = q[i]
            /\ \A i \in 1 .. Len(r) : (q \o r)[Len(q) + i] = r[i]
        OBVIOUS
      <3>2. \A i \in 1 .. Len(q) + Len(r) : i \in 1 .. Len(q) \/ (i - Len(q) \in 1 .. Len(r) /\ Len(q) + (i - Len(q)) = i)
        OBVIOUS
      <3>3. \A i \in 1 .. Len(r) : Len(q) + i \in 1 .. Len(q) + Len(r)
        OBVIOUS
      <3>4. \A i \in 1 .. Len(q) : i \in 1 .. Len(q) + Len(r)
        OBVIOUS
      <3>5. DOMAIN q = 1 .. Len(q) /\ DOMAIN r = 1 .. Len(r) /\ DOMAIN (q \o r) = 1 .. Len(q) + Len(r)
        BY <3>1
      <3>6. ToSet(q \o r) \subseteq ToSet(q) \cup ToSet(r)
        BY <3>1, <3>2, <3>5 DEF ToSet
      <3>7. ToSet(q) \subseteq ToSet(q \o r)
        BY <3>1, <3>4, <3>5 DEF ToSet
      <3>8. ToSet(r) \subseteq ToSet(q \o r)
        BY <3>1, <3>3, <3>5 DEF ToSet
      <3> QED BY <3>6, <3>7, <3>8
    <2>7. P \o V \in Seq(N)
      BY <2>5
    <2>8. ToSet(P \o V) = ToSet(P) \cup ToSet(V)
      BY <2>5, <2>6
    <2>9. ToSet((P \o V) \o Q) = ToSet(P \o V) \cup ToSet(Q)
      BY <2>5, <2>6, <2>7
    <2> QED BY <2>1, <2>2, <2>4, <2>8, <2>9 DEF P
  <1> QED BY <1>1, <1>2, <1>3 DEF Parameters

\* The parameters that the host passes by position are the Context and the first ones;
\* of the others, those that are given may be given by keyword.
LEMMA HostTakes ==
    ASSUME NEW s \in Signatures, NEW p, NEW python, Carries(s, p, python)
    PROVE  LET b == Business(s)
               L == ToSet(Leading(s, p))
           IN  /\ Taken(s, Positional(s, p)) = L \cup (IF TakesContext(s) THEN {"ctx"} ELSE {})
               /\ L \subseteq ToSet(b.positional)
               /\ \A n \in Parameters(b) \cap DOMAIN p : n \in L \cup ByKeyword(b)
               /\ Spreads(s, p) => L = ToSet(b.positional)
  <1> DEFINE b == Business(s)
             P == b.positional
             A == Positional(s, p)
             L == ToSet(Leading(s, p))
             c == Offset(s)
  <1>1. PICK m \in 0 .. Len(P) :
             /\ Len(Leading(s, p)) = m /\ DOMAIN Leading(s, p) = 1 .. m
             /\ \A i \in 1 .. m : Leading(s, p)[i] = P[i]
             /\ Spreads(s, p) => m = Len(P)
             /\ \A i \in m + 1 .. b.posonly : P[i] \notin DOMAIN p
             /\ Spreads(s, p) \/ m <= b.posonly
    BY LeadingIsPrefix
  <1>2. Len(P) \in Nat /\ m \in Nat /\ m <= Len(P) /\ DOMAIN P = 1 .. Len(P) /\ c \in {0, 1} /\ b.posonly \in 0 .. Len(P)
    BY <1>1, PositionalShape, SignatureShape DEF Offset
  <1>3. L = {P[i] : i \in 1 .. m}
    BY <1>1 DEF ToSet
  <1>4. L \subseteq ToSet(P)
    <2>1. \A i \in 1 .. m : i \in 1 .. Len(P)
      BY <1>1, <1>2
    <2> HIDE DEF P
    <2> QED BY <1>2, <1>3, <2>1 DEF ToSet
  <1>5. ASSUME NEW n \in Parameters(b), n \in DOMAIN p PROVE n \in L \cup ByKeyword(b)
    <2>1. CASE n \in b.keyword
      BY <2>1 DEF ByKeyword
    <2>2. ASSUME NEW i \in 1 .. Len(P), n = P[i] PROVE n \in L \cup ByKeyword(b)
      <3>1. i \in 1 .. m \/ i \in m + 1 .. b.posonly \/ i \in (b.posonly + 1) .. Len(P)
        BY <1>2
      <3> QED BY <1>1, <1>3, <1>5, <2>2, <3>1 DEF ByKeyword
    <2> QED BY <1>2, <1>5, <2>1, <2>2 DEF Parameters, ToSet
  <1>6. Taken(s, A) = {s.positional[i] : i \in 1 .. c + m}
    <2>1. /\ A \in Seq(Int) /\ Len(A) = c + m + Len(python.tail)
          /\ Len(python.tail) \in Nat /\ (Len(python.tail) # 0 => Spreads(s, p))
      <3>1. python.tail \in Seq(Int) /\ (python.tail # <<>> => Spreads(s, p))
        BY DEF Carries, Bindings
      <3>2. Len(python.tail) \in Nat /\ (Len(python.tail) # 0 => python.tail # <<>>)
        BY <3>1
      <3>3. A \in Seq(Int) /\ Len(A) = c + m + Len(python.tail)
        BY <1>1, PositionalArguments
      <3> QED BY <3>1, <3>2, <3>3
    <2>2. DOMAIN A = 1 .. c + m + Len(python.tail)
      BY <2>1
    <2>3. DOMAIN s.positional = 1 .. c + Len(P)
      <3>1. Len(s.positional) = c + Len(P)
        BY ContextShape
      <3>2. DOMAIN s.positional = 1 .. Len(s.positional)
        <4>1. s.positional \in {<<>>, <<"a">>, <<"a", "b">>, <<"ctx">>, <<"ctx", "a">>, <<"ctx", "a", "b">>}
          BY DEF Signatures
        <4> QED BY <4>1
      <3> QED BY <3>1, <3>2
    <2>4. DOMAIN s.positional \cap DOMAIN A = 1 .. c + m
      <3>1. \A t \in Nat : (t # 0 => m = Len(P)) => (1 .. c + Len(P)) \cap (1 .. c + m + t) = 1 .. c + m
        BY <1>1, <1>2
      <3> QED BY <1>1, <2>1, <2>2, <2>3, <3>1
    <2> QED BY <2>4 DEF Taken
  <1>7. /\ \A i \in 1 .. m : s.positional[i + c] = P[i] /\ i + c \in 1 .. c + m
        /\ \A i \in 1 .. c + m : i > c \/ s.positional[i] = "ctx"
        /\ TakesContext(s) => s.positional[1] = "ctx" /\ c = 1 /\ 1 \in 1 .. c + m
        /\ ~TakesContext(s) => c = 0
    <2>1. /\ Len(s.positional) = c + Len(P)
          /\ \A i \in 1 .. Len(P) : s.positional[i + c] = P[i]
          /\ TakesContext(s) => s.positional[1] = "ctx"
          /\ \A i \in 1 .. Len(s.positional) : i > c \/ s.positional[i] = "ctx"
      BY ContextShape
    <2>2. (TakesContext(s) => c = 1) /\ (~TakesContext(s) => c = 0)
      BY DEF Offset
    <2> HIDE DEF c, P
    <2>3. \A i \in 1 .. m : i \in 1 .. Len(P) /\ i + c \in 1 .. c + m
      <3>1. \A k, n \in Nat, d \in {0, 1} : k <= n => \A i \in 1 .. k : i \in 1 .. n /\ i + d \in 1 .. d + k
        OBVIOUS
      <3> QED BY <1>2, <3>1
    <2>4. \A i \in 1 .. c + m : i \in 1 .. Len(s.positional)
      <3>1. \A k, n \in Nat, d \in {0, 1} : k <= n => \A i \in 1 .. d + k : i \in 1 .. d + n
        OBVIOUS
      <3> QED BY <1>2, <2>1, <3>1
    <2>5. c = 1 => 1 \in 1 .. c + m
      BY <1>2
    <2> QED BY <2>1, <2>2, <2>3, <2>4, <2>5
  <1>8. \A i \in 1 .. c + m : i > c => i - c \in 1 .. m /\ i - c + c = i
    BY <1>2
  <1>9. \A i \in 1 .. c + m : i > c \/ TakesContext(s)
    BY <1>2, <1>7
  <1>10. Taken(s, A) = L \cup (IF TakesContext(s) THEN {"ctx"} ELSE {})
    <2> HIDE DEF c, P, L, A, b
    <2>1. Taken(s, A) \subseteq L \cup (IF TakesContext(s) THEN {"ctx"} ELSE {})
      <3> SUFFICES ASSUME NEW i \in 1 .. c + m
                   PROVE  s.positional[i] \in L \cup (IF TakesContext(s) THEN {"ctx"} ELSE {})
        BY <1>6
      <3>1. CASE i > c
        <4>1. i - c \in 1 .. m /\ i - c + c = i
          BY <1>8, <3>1
        <4>2. s.positional[i] = P[i - c]
          BY <1>7, <4>1
        <4> QED BY <1>3, <4>1, <4>2
      <3>2. CASE ~ i > c
        BY <1>7, <1>9, <3>2
      <3> QED BY <3>1, <3>2
    <2>2. L \subseteq Taken(s, A)
      BY <1>3, <1>6, <1>7
    <2>3. TakesContext(s) => "ctx" \in Taken(s, A)
      BY <1>6, <1>7
    <2> QED BY <2>1, <2>2, <2>3
  <1>11. Spreads(s, p) => L = ToSet(P)
    BY <1>1, <1>2, <1>3 DEF ToSet
  <1> QED BY <1>4, <1>5, <1>10, <1>11

\* A parameter that is passed by position receives what Python binds to it.
LEMMA HostPlaces ==
    ASSUME NEW s \in Signatures, NEW p, NEW python, Carries(s, p, python),
           NEW n \in ToSet(Leading(s, p))
    PROVE  Positional(s, p)[Place(s, n)] = python.params[n]
  <1> DEFINE P == Business(s).positional
             A == Positional(s, p)
             c == Offset(s)
  <1>1. PICK m \in 0 .. Len(P) :
             /\ Len(Leading(s, p)) = m /\ DOMAIN Leading(s, p) = 1 .. m
             /\ \A i \in 1 .. m : Leading(s, p)[i] = P[i]
    BY LeadingIsPrefix
  <1>2. PICK i \in 1 .. m : n = P[i]
    BY <1>1 DEF ToSet
  <1>3. /\ Len(P) \in Nat /\ c \in {0, 1} /\ i \in 1 .. Len(P)
        /\ \A j, k \in 1 .. Len(P) : P[j] = P[k] => j = k
        /\ P[i] # "ctx"
    BY <1>1, PositionalShape DEF Offset
  <1>4. /\ Len(s.positional) = c + Len(P)
        /\ \A j \in 1 .. Len(P) : s.positional[j + c] = P[j]
        /\ \A j \in 1 .. Len(s.positional) : j > c \/ s.positional[j] = "ctx"
    BY ContextShape
  <1>5. DOMAIN s.positional = 1 .. c + Len(P)
    <2>1. s.positional \in {<<>>, <<"a">>, <<"a", "b">>, <<"ctx">>, <<"ctx", "a">>, <<"ctx", "a", "b">>}
      BY DEF Signatures
    <2>2. DOMAIN s.positional = 1 .. Len(s.positional)
      BY <2>1
    <2> QED BY <1>4, <2>2
  <1>6. \A j \in Len(P) + 1 .. Len(P) : FALSE
    BY <1>3
  <1> HIDE DEF P, A, c
  <1>7. i + c \in 1 .. c + Len(P)
    BY <1>3
  <1>8. ASSUME NEW j \in 1 .. c + Len(P), s.positional[j] = n PROVE j = i + c
    <2>1. j > c
      BY <1>2, <1>3, <1>4, <1>8
    <2>2. j - c \in 1 .. Len(P) /\ j - c + c = j
      BY <1>3, <2>1
    <2>3. s.positional[j - c + c] = P[j - c]
      BY <1>4, <2>2
    <2>4. P[j - c] = P[i]
      BY <1>2, <1>8, <2>2, <2>3
    <2>5. j - c = i
      BY <1>3, <2>2, <2>4
    <2> QED BY <1>3, <2>2, <2>5
  <1>9. s.positional[i + c] = n
    BY <1>2, <1>3, <1>4
  <1>10. Place(s, n) = i + c
    BY <1>5, <1>7, <1>8, <1>9 DEF Place
  <1>11. A[c + i] = python.params[P[i]]
    BY <1>1, PositionalArguments DEF A, P, c
  <1>12. c + i = i + c
    BY <1>3
  <1> QED BY <1>2, <1>10, <1>11, <1>12 DEF A

\* The host executes a payload that says what Python would bind, and the function
\* receives just that.
LEMMA HostAgrees ==
    ASSUME NEW s \in Signatures, NEW p, NEW python, Carries(s, p, python)
    PROVE  /\ Executes(s, p)
           /\ LET received == Bound(s, Positional(s, p), Rest(s, p)) IN
              /\ Only(received.params, {"a", "b", "k"}) = python.params
              /\ received.tail = python.tail /\ received.extra = python.extra
  <1> DEFINE b == Business(s)
             P == b.positional
             A == Positional(s, p)
             K == Rest(s, p)
             L == ToSet(Leading(s, p))
             V == Variadic(s)
             ctx == IF TakesContext(s) THEN {"ctx"} ELSE {}
  <1>1. /\ Taken(s, A) = L \cup ctx
        /\ L \subseteq ToSet(P)
        /\ \A n \in Parameters(b) \cap DOMAIN p : n \in L \cup ByKeyword(b)
        /\ Spreads(s, p) => L = ToSet(P)
    BY HostTakes
  <1>2. /\ Parameters(b) \subseteq {"a", "b", "k"} /\ ByKeyword(b) \subseteq Parameters(b)
        /\ ToSet(P) \subseteq Parameters(b) /\ ToSet(Order(s)) = Parameters(b) \cup V
    BY ParameterNames
  <1>3. /\ Parameters(s) = Parameters(b) \cup ctx
        /\ ByKeyword(s) \in {ByKeyword(b), ByKeyword(b) \cup {"ctx"}}
    BY ContextShape
  <1>4. /\ "ctx" \notin DOMAIN p /\ V \subseteq {"items"} /\ ctx \subseteq {"ctx"}
        /\ s.open \/ DOMAIN p \subseteq Parameters(b) \cup V
        /\ \A n \in Parameters(b) :
              IF n \in DOMAIN p THEN p[n] = python.params[n] ELSE n \in s.optional /\ python.params[n] = DefaultOf[n]
        /\ python.extra = Only(p, DOMAIN p \ (Parameters(b) \cup V))
        /\ python \in Bindings(s)
    BY DEF Carries, Variadic
  <1>5. K = Only(p, DOMAIN p \ (L \cup V))
    BY DEF Rest, Variadic
  <1>6. DOMAIN K = DOMAIN p \ (L \cup V) /\ \A n \in DOMAIN K : K[n] = p[n]
    BY <1>5 DEF Only
  <1>7. Admits(s, p)
    <2>1. Required(s) \subseteq DOMAIN p
      BY <1>4 DEF Required
    <2> QED BY <1>2, <1>4, <2>1 DEF Admits
  <1>8. Splits(s, p)
    BY <1>1, <1>2, <1>4 DEF Splits
  <1>9. s.var \/ Len(A) <= Len(s.positional)
    <2> SUFFICES ASSUME ~s.var PROVE Len(A) <= Len(s.positional)
      OBVIOUS
    <2>1. PICK m \in 0 .. Len(P) : Len(Leading(s, p)) = m
      BY LeadingIsPrefix
    <2>2. python.tail = <<>>
      BY DEF Carries, Spreads
    <2>3. Len(A) = Offset(s) + m + 0
      BY <2>1, <2>2, PositionalArguments
    <2>4. Len(s.positional) = Offset(s) + Len(P) /\ Len(P) \in Nat /\ Offset(s) \in {0, 1}
      BY ContextShape, PositionalShape DEF Offset
    <2> QED BY <2>1, <2>3, <2>4
  <1> HIDE DEF b, P, A, K, L, V, ctx
  <1>10. s.open \/ DOMAIN K \subseteq ByKeyword(s)
    BY <1>1, <1>3, <1>4, <1>6
  <1>11. Taken(s, A) \cap ByKeyword(s) \cap DOMAIN K = {}
    BY <1>1, <1>4, <1>6
  <1>12. Parameters(s) \subseteq Taken(s, A) \cup s.optional \cup (ByKeyword(s) \cap DOMAIN K)
    BY <1>1, <1>2, <1>3, <1>4, <1>6
  <1>13. Binds(s, A, K)
    BY <1>9, <1>10, <1>11, <1>12 DEF Binds
  <1>14. Executes(s, p)
    BY <1>7, <1>8, <1>13 DEF Executes, A, K
  <1> DEFINE received == Bound(s, A, K)
             value(n) == IF n \in Taken(s, A) THEN A[Place(s, n)]
                         ELSE IF n \in ByKeyword(s) \cap DOMAIN K THEN K[n] ELSE DefaultOf[n]
  <1>15. /\ received.params = [n \in Parameters(s) |-> value(n)]
         /\ received.tail = SubSeq(A, Len(s.positional) + 1, Len(A))
         /\ received.extra = Only(K, DOMAIN K \ ByKeyword(s))
    BY DEF Bound
  <1>16. ASSUME NEW n \in Parameters(b) PROVE value(n) = python.params[n]
    <2>1. CASE n \in L
      <3>1. A[Place(s, n)] = python.params[n]
        BY <2>1, HostPlaces DEF A, L
      <3> QED BY <1>1, <2>1, <3>1
    <2>2. CASE n \notin L
      <3>1. n \notin Taken(s, A)
        BY <1>1, <1>2, <1>4, <2>2
      <3>2. n \in DOMAIN p <=> n \in ByKeyword(s) \cap DOMAIN K
        BY <1>1, <1>2, <1>3, <1>4, <1>6, <2>2
      <3> QED BY <1>4, <1>6, <3>1, <3>2
    <2> QED BY <2>1, <2>2
  <1> HIDE DEF value, received
  <1>17. Only(received.params, {"a", "b", "k"}) = python.params
    <2>1. DOMAIN received.params \cap {"a", "b", "k"} = Parameters(b)
      BY <1>2, <1>3, <1>4, <1>15
    <2>2. \A n \in Parameters(b) : received.params[n] = python.params[n]
      BY <1>3, <1>15, <1>16
    <2>3. python.params \in [Parameters(b) -> Int]
      BY <1>4 DEF Bindings, b
    <2> QED BY <2>1, <2>2, <2>3 DEF Only
  <1>18. received.tail = python.tail
    <2>1. PICK m \in 0 .. Len(P) : Len(Leading(s, p)) = m /\ (Spreads(s, p) => m = Len(P))
      BY LeadingIsPrefix DEF P, b
    <2>2. /\ A \in Seq(Int) /\ Len(A) = Offset(s) + m + Len(python.tail)
          /\ SubSeq(A, Offset(s) + m + 1, Len(A)) = python.tail
      BY <2>1, PositionalArguments DEF A
    <2>3. Len(s.positional) = Offset(s) + Len(P) /\ Len(P) \in Nat /\ Offset(s) \in {0, 1}
      BY ContextShape, PositionalShape DEF Offset, P, b
    <2>4. CASE m = Len(P)
      BY <1>15, <2>2, <2>3, <2>4
    <2>5. CASE m # Len(P)
      <3>1. python.tail = <<>>
        BY <2>1, <2>5 DEF Carries
      <3>2. Len(A) < Len(s.positional) + 1 /\ Len(s.positional) + 1 \in Nat
        BY <2>1, <2>2, <2>3, <2>5, <3>1
      <3>3. \A q \in Seq(Int), i \in Nat : Len(q) < i => SubSeq(q, i, Len(q)) = <<>>
        OBVIOUS
      <3> QED BY <1>15, <2>2, <3>1, <3>2, <3>3
    <2> QED BY <2>4, <2>5
  <1>19. received.extra = python.extra
    <2>1. DOMAIN K \ ByKeyword(s) = DOMAIN p \ (Parameters(b) \cup V)
      BY <1>1, <1>2, <1>3, <1>4, <1>6
    <2> QED BY <1>4, <1>6, <1>15, <2>1 DEF Only
  <1> QED BY <1>14, <1>17, <1>18, <1>19 DEF received, A, K

-----------------------------------------------------------------------------
(* Arguments: the caller                                                    *)

\* A call that Python accepts of the function, no keyword of which names a
\* positional-only parameter.
Plain(s, args, kw) ==
    /\ \E n \in Nat : args = [i \in 1 .. n |-> i]
    /\ \E names \in SUBSET DOMAIN Keyword : kw = Only(Keyword, names)
    /\ Binds(Business(s), args, kw)
    /\ DOMAIN kw \cap First(s) = {}

\* Python binds such a call parameter by parameter.
BindsPlainly(s, args, kw) ==
    LET b == Business(s)
        T == Taken(b, args)
        python == Bound(b, args, kw)
    IN  /\ args \in Seq(Int) /\ DOMAIN kw \subseteq {"a", "b", "k", "x"}
        /\ python \in Bindings(s)
        /\ \A n \in Parameters(b) :
             python.params[n] = IF n \in T THEN args[Place(b, n)]
                                ELSE IF n \in DOMAIN kw THEN kw[n] ELSE DefaultOf[n]
        /\ T \subseteq ToSet(b.positional) /\ T \cap DOMAIN kw = {}
        /\ Parameters(b) \subseteq T \cup s.optional \cup DOMAIN kw
        /\ python.tail = SubSeq(args, Len(b.positional) + 1, Len(args))
        /\ s.var \/ (python.tail = <<>> /\ Len(args) <= Len(b.positional))
        /\ python.extra = Only(kw, DOMAIN kw \ Parameters(b))
        /\ s.open \/ DOMAIN kw \subseteq Parameters(b)
        /\ \A n \in T \cup DOMAIN kw : n \in Parameters(b) => python.params[n] > 0
        /\ First(s) \subseteq Parameters(b)

\* So Python does.
LEMMA PythonBinds ==
    ASSUME NEW s \in Signatures, NEW args, NEW kw, Plain(s, args, kw)
    PROVE  BindsPlainly(s, args, kw)
  <1> DEFINE b == Business(s)
             P == b.positional
             T == Taken(b, args)
             python == Bound(b, args, kw)
  <1>1. PICK k \in Nat : args = [i \in 1 .. k |-> i]
    BY DEF Plain
  <1>2. /\ args \in Seq(Int) /\ Len(args) = k /\ DOMAIN args = 1 .. k
        /\ \A i \in 1 .. k : args[i] = i
    BY <1>1
  <1>3. /\ DOMAIN kw \subseteq {"a", "b", "k", "x"}
        /\ \A n \in DOMAIN kw : kw[n] \in Int /\ kw[n] > 0
        /\ kw = Only(Keyword, DOMAIN kw)
    <2>1. PICK names \in SUBSET DOMAIN Keyword : kw = Only(Keyword, names)
      BY DEF Plain
    <2>2. DOMAIN kw = names /\ \A n \in names : kw[n] = Keyword[n]
      BY <2>1 DEF Only, Keyword
    <2>3. \A n \in DOMAIN Keyword : n \in {"a", "b", "k", "x"} /\ Keyword[n] \in Int /\ Keyword[n] > 0
      BY DEF Keyword
    <2> QED BY <2>1, <2>2, <2>3
  <1>4. /\ P \in Seq({"a", "b"}) /\ Len(P) \in Nat /\ DOMAIN P = 1 .. Len(P)
        /\ \A i, j \in 1 .. Len(P) : P[i] = P[j] => i = j
    BY PositionalShape
  <1>5. /\ b.posonly \in 0 .. Len(P) /\ b.keyword = s.keyword /\ b.var = s.var /\ b.open = s.open
        /\ b.optional = s.optional /\ s.optional \subseteq {"a", "b", "k"}
    BY SignatureShape
  <1>6. /\ Parameters(b) \subseteq {"a", "b", "k"} /\ ByKeyword(b) \subseteq Parameters(b)
        /\ ToSet(P) \subseteq Parameters(b)
    BY ParameterNames
  <1>7. /\ First(s) \subseteq ToSet(P)
        /\ Parameters(b) \subseteq First(s) \cup ByKeyword(b)
    <2>1. First(s) = {P[i] : i \in 1 .. b.posonly}
      <3> DEFINE first == SubSeq(P, 1, b.posonly)
      <3>1. DOMAIN first = 1 .. b.posonly /\ \A i \in 1 .. b.posonly : first[i] = P[i]
        BY <1>4, <1>5
      <3> QED BY <3>1 DEF First, ToSet
    <2>2. \A i \in 1 .. b.posonly : i \in 1 .. Len(P)
      BY <1>4, <1>5
    <2>3. \A i \in 1 .. Len(P) : i \in 1 .. b.posonly \/ i \in (b.posonly + 1) .. Len(P)
      BY <1>4, <1>5
    <2>4. ToSet(P) \subseteq First(s) \cup {P[i] : i \in (b.posonly + 1) .. Len(P)}
      BY <1>4, <2>1, <2>3 DEF ToSet
    <2> QED BY <1>4, <2>1, <2>2, <2>4 DEF ToSet, Parameters, ByKeyword
  <1>8. /\ s.var \/ Len(args) <= Len(P)
        /\ s.open \/ DOMAIN kw \subseteq ByKeyword(b)
        /\ T \cap ByKeyword(b) \cap DOMAIN kw = {}
        /\ Parameters(b) \subseteq T \cup s.optional \cup (ByKeyword(b) \cap DOMAIN kw)
        /\ DOMAIN kw \cap First(s) = {}
    BY <1>5 DEF Plain, Binds
  <1>9. T \subseteq ToSet(P)
    BY DEF Taken, ToSet
  <1>10. ASSUME NEW n \in T PROVE args[Place(b, n)] \in Int /\ args[Place(b, n)] > 0
    <2>1. PICK i \in DOMAIN P \cap DOMAIN args : n = P[i]
      BY DEF Taken
    <2>2. Place(b, n) = i
      BY <1>4, <2>1 DEF Place
    <2> QED BY <1>2, <2>1, <2>2
  <1>11. /\ python.params = [n \in Parameters(b) |->
              IF n \in T THEN args[Place(b, n)]
              ELSE IF n \in ByKeyword(b) \cap DOMAIN kw THEN kw[n] ELSE DefaultOf[n]]
         /\ python.tail = SubSeq(args, Len(P) + 1, Len(args))
         /\ python.extra = Only(kw, DOMAIN kw \ ByKeyword(b))
         /\ python = [params |-> python.params, tail |-> python.tail, extra |-> python.extra]
    BY DEF Bound
  <1> HIDE DEF b, P, T, python
  <1>12. DOMAIN kw \cap Parameters(b) = DOMAIN kw \cap ByKeyword(b)
    BY <1>6, <1>7, <1>8
  <1>13. \A n \in Parameters(b) :
            python.params[n] = IF n \in T THEN args[Place(b, n)]
                               ELSE IF n \in DOMAIN kw THEN kw[n] ELSE DefaultOf[n]
    BY <1>11, <1>12
  <1>14. T \cap DOMAIN kw = {}
    BY <1>6, <1>8, <1>9, <1>12
  <1>15. python.tail \in Seq(Int) /\ (Len(args) <= Len(P) => python.tail = <<>>)
    <2>1. \A q \in Seq(Int), i \in Nat : SubSeq(q, i + 1, Len(q)) \in Seq(Int)
      OBVIOUS
    <2>2. \A q \in Seq(Int), i \in Nat : Len(q) <= i => SubSeq(q, i + 1, Len(q)) = <<>>
      OBVIOUS
    <2> QED BY <1>2, <1>4, <1>11, <2>1, <2>2
  <1>16. python.extra = Only(kw, DOMAIN kw \ Parameters(b))
    <2>1. DOMAIN kw \ ByKeyword(b) = DOMAIN kw \ Parameters(b)
      BY <1>6, <1>12
    <2> QED BY <1>11, <2>1
  <1>17. \A n \in T \cup DOMAIN kw : n \in Parameters(b) => python.params[n] > 0
    BY <1>3, <1>10, <1>13
  <1>18. python.params \in [Parameters(b) -> Int]
    <2>1. \A n \in {"a", "b", "k"} : DefaultOf[n] \in Int
      BY DEF DefaultOf
    <2>2. \A n \in Parameters(b) : python.params[n] \in Int
      BY <1>3, <1>6, <1>10, <1>13, <2>1
    <2> QED BY <1>11, <2>2
  <1>19. python.extra \in {Only(Keyword, names) : names \in SUBSET DOMAIN Keyword}
    <2> DEFINE names == DOMAIN kw \ Parameters(b)
    <2>1. DOMAIN Keyword = {"a", "b", "k", "x"}
      BY DEF Keyword
    <2>2. Only(kw, names) = Only(Keyword, names)
      <3>1. DOMAIN kw \cap names = DOMAIN Keyword \cap names
        BY <1>3, <2>1
      <3>2. \A n \in DOMAIN kw : kw[n] = Keyword[n]
        BY <1>3 DEF Only
      <3> QED BY <3>1, <3>2 DEF Only
    <2>3. names \in SUBSET DOMAIN Keyword
      BY <1>3, <2>1
    <2> QED BY <1>16, <2>2, <2>3
  <1>20. python \in Bindings(s)
    BY <1>11, <1>15, <1>18, <1>19 DEF Bindings, b
  <1>21. s.open \/ DOMAIN kw \subseteq Parameters(b)
    BY <1>6, <1>8
  <1>22. Parameters(b) \subseteq T \cup s.optional \cup DOMAIN kw /\ First(s) \subseteq Parameters(b)
    BY <1>6, <1>7, <1>8
  <1>23. s.var \/ (python.tail = <<>> /\ Len(args) <= Len(P))
    BY <1>8, <1>15
  <1> QED BY <1>2, <1>3, <1>9, <1>11, <1>13, <1>14, <1>16, <1>17, <1>20, <1>21, <1>22, <1>23
       DEF BindsPlainly, b, P, T, python

\* Without *items, the parameters of the schema are the positional ones, then k.
LEMMA OrderShape ==
    ASSUME NEW s \in Signatures, ~s.var
    PROVE  LET P == Business(s).positional
               O == Order(s)
           IN  /\ DOMAIN O = 1 .. Len(O) /\ Len(O) \in Nat /\ Len(P) <= Len(O)
               /\ \A i \in 1 .. Len(P) : O[i] = P[i]
               /\ \A i, j \in 1 .. Len(O) : O[i] = O[j] => i = j
  <1> DEFINE P == Business(s).positional
             Q == SetToSeq(s.keyword)
  <1>1. P \in Seq({"a", "b"}) /\ Len(P) \in Nat /\ \A i, j \in 1 .. Len(P) : P[i] = P[j] => i = j
    BY PositionalShape
  <1>2. Q \in Seq({"k"}) /\ Len(Q) \in {0, 1}
    <2>1. <<>> \in Seq({"k"}) /\ <<"k">> \in Seq({"k"}) /\ Len(<<>>) = 0 /\ Len(<<"k">>) = 1
      OBVIOUS
    <2> QED BY <2>1, OneKeyword, SignatureShape
  <1>3. Order(s) = P \o Q
    <2>1. P \o <<>> = P
      BY <1>1
    <2>2. Order(s) = P \o <<>> \o Q
      BY DEF Order
    <2> QED BY <2>1, <2>2
  <1> HIDE DEF P, Q
  <1> DEFINE N == {"a", "b", "k"}
             O == P \o Q
  <1>4. P \in Seq(N) /\ Q \in Seq(N)
    BY <1>1, <1>2
  <1>5. /\ O \in Seq(N) /\ Len(O) = Len(P) + Len(Q) /\ DOMAIN O = 1 .. Len(O)
        /\ \A i \in 1 .. Len(P) : O[i] = P[i]
        /\ \A i \in 1 .. Len(Q) : O[Len(P) + i] = Q[i]
    <2> HIDE DEF N
    <2> QED BY <1>4
  <1> HIDE DEF O
  <1>6. \A i \in 1 .. Len(O) : i \in 1 .. Len(P) \/ (i = Len(P) + 1 /\ 1 \in 1 .. Len(Q))
    BY <1>1, <1>2, <1>5
  <1>7. \A i \in 1 .. Len(P) : P[i] # "k"
    BY <1>1
  <1>8. 1 \in 1 .. Len(Q) => Q[1] = "k"
    BY <1>2
  <1>9. \A i, j \in 1 .. Len(O) : O[i] = O[j] => i = j
    BY <1>1, <1>5, <1>6, <1>7, <1>8
  <1>10. Len(O) \in Nat /\ Len(P) <= Len(O)
    BY <1>1, <1>2, <1>5
  <1>11. DOMAIN O = 1 .. Len(O) /\ \A i \in 1 .. Len(P) : O[i] = P[i]
    BY <1>5
  <1>12. Order(s) = O
    BY <1>3 DEF O
  <1> HIDE DEF O
  <1> QED BY <1>9, <1>10, <1>11, <1>12 DEF P

\* What is sent of keywords alone: these, and the advertised defaults of the others.
KeywordsAlone(s, known, kw) ==
    LET p == NamedArguments(s, known, <<>>, kw)
        filled == IF known THEN s.optional \ s.hidden ELSE {}
    IN  /\ DOMAIN p = DOMAIN kw \cup filled
        /\ \A n \in DOMAIN kw : p[n] = kw[n]

\* So they are.
LEMMA KeywordsSent ==
    ASSUME NEW s \in Signatures, NEW known \in BOOLEAN, NEW kw
    PROVE  KeywordsAlone(s, known, kw)
  <1>1. Mapped(s, <<>>) = {}
    BY DEF Mapped
  <1>2. SubSeq(<<>>, Len(Fixed(s)) + 1, Len(<<>>)) = <<>>
    <2>1. Len(Fixed(s)) \in Nat
      BY PositionalShape, OrderShape DEF Fixed
    <2>2. \A i \in Nat : SubSeq(<<>>, i + 1, Len(<<>>)) = <<>>
      OBVIOUS
    <2> QED BY <2>1, <2>2
  <1> DEFINE filled == IF known THEN Advertised(s) ELSE Nothing
             spread == [n \in {} |-> <<>>[CHOOSE i \in DOMAIN Fixed(s) : Fixed(s)[i] = n]]
  <1>3. NamedArguments(s, known, <<>>, kw) = Over(kw, Over(spread, Over(Nothing, filled)))
    BY <1>1, <1>2 DEF NamedArguments
  <1>4. /\ DOMAIN filled = IF known THEN s.optional \ s.hidden ELSE {}
        /\ \A n \in DOMAIN filled : filled[n] = DefaultOf[n]
    <2>1. s.optional \subseteq DOMAIN DefaultOf
      BY SignatureShape DEF DefaultOf
    <2> QED BY <2>1 DEF Advertised, Only, Nothing
  <1>5. DOMAIN spread = {} /\ DOMAIN Nothing = {}
    BY DEF Nothing
  <1> HIDE DEF spread, filled
  <1> QED BY <1>3, <1>4, <1>5 DEF Over, KeywordsAlone

\* What a Client that has the schema, or sends keywords alone, sends.
LEMMA ClientSends ==
    ASSUME NEW s \in Signatures, NEW args, NEW kw, Plain(s, args, kw), NEW known \in BOOLEAN,
           known \/ args = <<>>
    PROVE  LET b == Business(s)
               p == NamedArguments(s, known, args, kw)
               T == Taken(b, args)
               tail == Bound(b, args, kw).tail
               filled == IF known THEN s.optional \ s.hidden ELSE {}
           IN  /\ Maps(s, known, args, kw)
               /\ DOMAIN p = DOMAIN kw \cup T \cup (IF tail = <<>> THEN {} ELSE {"items"}) \cup filled
               /\ \A n \in DOMAIN kw : p[n] = kw[n]
               /\ \A n \in T : p[n] = args[Place(b, n)]
               /\ tail # <<>> => p["items"] = tail
               /\ \A n \in filled \ (DOMAIN kw \cup T) : p[n] = DefaultOf[n]
  <1> DEFINE b == Business(s)
             P == b.positional
             T == Taken(b, args)
             tail == Bound(b, args, kw).tail
             F == Fixed(s)
             p == NamedArguments(s, known, args, kw)
             advertised == IF known THEN Advertised(s) ELSE Nothing
             spread == [n \in Mapped(s, args) |-> args[CHOOSE i \in DOMAIN F : F[i] = n]]
             rest == IF tail = <<>> THEN Nothing ELSE [n \in {"items"} |-> tail]
  <1>1. /\ args \in Seq(Int) /\ DOMAIN kw \subseteq {"a", "b", "k", "x"}
        /\ T \subseteq ToSet(P) /\ T \cap DOMAIN kw = {}
        /\ tail = SubSeq(args, Len(P) + 1, Len(args)) /\ tail \in Seq(Int)
        /\ s.var \/ (tail = <<>> /\ Len(args) <= Len(P))
    <2>1. BindsPlainly(s, args, kw)
      BY PythonBinds
    <2> QED BY <2>1 DEF BindsPlainly, Bindings
  <1>2. /\ DOMAIN F = 1 .. Len(F) /\ Len(F) \in Nat /\ Len(P) <= Len(F) /\ (s.var => F = P)
        /\ \A i \in 1 .. Len(P) : F[i] = P[i]
        /\ \A i, j \in 1 .. Len(F) : F[i] = F[j] => i = j
    <2>1. CASE s.var
      <3>1. F = P
        BY <2>1 DEF Fixed
      <3> QED BY <3>1, PositionalShape
    <2>2. CASE ~s.var
      <3>1. F = Order(s)
        BY <2>2 DEF Fixed
      <3> QED BY <2>2, <3>1, OrderShape
    <2> QED BY <2>1, <2>2
  <1>3. /\ DOMAIN P = 1 .. Len(P) /\ Len(P) \in Nat /\ ToSet(P) \subseteq {"a", "b"}
        /\ DOMAIN args = 1 .. Len(args) /\ Len(args) \in Nat
        /\ \A i, j \in 1 .. Len(P) : P[i] = P[j] => i = j
    BY <1>1, PositionalShape DEF ToSet
  <1>4. /\ DOMAIN advertised = IF known THEN s.optional \ s.hidden ELSE {}
        /\ \A n \in DOMAIN advertised : advertised[n] = DefaultOf[n]
        /\ "items" \notin s.optional
    <2>1. s.optional \subseteq DOMAIN DefaultOf /\ DOMAIN DefaultOf = {"a", "b", "k"}
      BY SignatureShape DEF DefaultOf
    <2> QED BY <2>1 DEF Advertised, Only, Nothing
  <1> HIDE DEF F, P
  <1>5. DOMAIN F \cap DOMAIN args = DOMAIN P \cap DOMAIN args
    BY <1>1, <1>2, <1>3
  <1>6. Mapped(s, args) = T
    <2>1. Mapped(s, args) = {F[i] : i \in DOMAIN F \cap DOMAIN args}
      BY DEF Mapped, F
    <2>2. T = {P[i] : i \in DOMAIN P \cap DOMAIN args}
      BY DEF Taken, P
    <2> QED BY <1>2, <1>3, <1>5, <2>1, <2>2
  <1>7. ASSUME NEW n \in T PROVE spread[n] = args[Place(b, n)]
    <2>1. PICK i \in DOMAIN P : n = P[i]
      BY DEF Taken, P
    <2>2. Place(b, n) = i
      BY <1>3, <2>1 DEF Place, P
    <2>3. i \in DOMAIN F /\ F[i] = n
      BY <1>2, <1>3, <2>1
    <2>4. (CHOOSE j \in DOMAIN F : F[j] = n) = i
      BY <1>2, <2>3
    <2> QED BY <1>6, <2>2, <2>4
  <1>8. SubSeq(args, Len(F) + 1, Len(args)) = tail
    <2>1. CASE s.var
      BY <1>1, <1>2, <2>1
    <2>2. CASE ~s.var
      <3>1. \A q \in Seq(Int), i \in Nat : Len(q) <= i => SubSeq(q, i + 1, Len(q)) = <<>>
        OBVIOUS
      <3>2. Len(args) <= Len(F)
        BY <1>1, <1>2, <1>3, <2>2
      <3> QED BY <1>1, <1>2, <2>2, <3>1, <3>2
    <2> QED BY <2>1, <2>2
  <1>9. p = Over(kw, Over(spread, Over(rest, advertised)))
    <2> HIDE DEF tail
    <2> QED BY <1>8 DEF NamedArguments, F
  <1>10. Maps(s, known, args, kw)
    <2>1. s.var \/ Len(args) <= Len(Order(s))
      <3>1. ~s.var => F = Order(s)
        BY DEF Fixed, F
      <3> QED BY <1>1, <1>2, <1>3, <3>1
    <2>2. (T \cup (IF s.var THEN {"items"} ELSE {})) \cap DOMAIN kw = {}
      BY <1>1
    <2> QED BY <1>6, <2>1, <2>2 DEF Maps
  <1>11. /\ DOMAIN spread = T
         /\ DOMAIN rest = (IF tail = <<>> THEN {} ELSE {"items"})
         /\ tail # <<>> => rest["items"] = tail
    BY <1>6 DEF Nothing
  <1>12. "items" \notin T \cup DOMAIN kw \cup DOMAIN advertised
    BY <1>1, <1>3, <1>4
  <1> HIDE DEF spread, rest, advertised, tail, T
  <1>13. DOMAIN p = DOMAIN kw \cup T \cup DOMAIN rest \cup DOMAIN advertised
    BY <1>9, <1>11 DEF Over
  <1>14. ASSUME NEW n \in DOMAIN p
         PROVE  p[n] = IF n \in DOMAIN kw THEN kw[n]
                       ELSE IF n \in DOMAIN spread THEN spread[n]
                       ELSE IF n \in DOMAIN rest THEN rest[n] ELSE advertised[n]
    BY <1>9, <1>14 DEF Over
  <1> HIDE DEF p
  <1>15. \A n \in DOMAIN kw : p[n] = kw[n]
    BY <1>13, <1>14
  <1>16. \A n \in T : p[n] = args[Place(b, n)]
    BY <1>1, <1>7, <1>11, <1>13, <1>14
  <1>17. tail # <<>> => p["items"] = tail
    BY <1>11, <1>12, <1>13, <1>14
  <1>18. \A n \in DOMAIN advertised \ (DOMAIN kw \cup T) : p[n] = DefaultOf[n]
    BY <1>4, <1>11, <1>13, <1>14
  <1> QED BY <1>4, <1>10, <1>11, <1>13, <1>15, <1>16, <1>17, <1>18 DEF p, tail, T, P, F

\* So it sends what Python would bind, or leaves a default to the host.
LEMMA ClientCarries ==
    ASSUME NEW s \in Signatures, NEW args, NEW kw, Plain(s, args, kw), NEW known \in BOOLEAN,
           known \/ args = <<>>,
           TakesContext(s) => s.hidden \cap First(s) = {}
    PROVE  /\ Maps(s, known, args, kw)
           /\ Carries(s, NamedArguments(s, known, args, kw), Bound(Business(s), args, kw))
  <1> DEFINE b == Business(s)
             p == NamedArguments(s, known, args, kw)
             T == Taken(b, args)
             python == Bound(b, args, kw)
             filled == IF known THEN s.optional \ s.hidden ELSE {}
             V == Variadic(s)
  <1>1. /\ DOMAIN kw \subseteq {"a", "b", "k", "x"} /\ python \in Bindings(s)
        /\ \A n \in Parameters(b) :
             python.params[n] = IF n \in T THEN args[Place(b, n)]
                                ELSE IF n \in DOMAIN kw THEN kw[n] ELSE DefaultOf[n]
        /\ T \subseteq ToSet(b.positional) /\ T \cap DOMAIN kw = {}
        /\ Parameters(b) \subseteq T \cup s.optional \cup DOMAIN kw
        /\ s.var \/ python.tail = <<>>
        /\ python.extra = Only(kw, DOMAIN kw \ Parameters(b))
        /\ s.open \/ DOMAIN kw \subseteq Parameters(b)
        /\ First(s) \subseteq Parameters(b)
    <2>1. BindsPlainly(s, args, kw)
      BY PythonBinds
    <2> QED BY <2>1 DEF BindsPlainly
  <1>2. /\ Maps(s, known, args, kw)
        /\ DOMAIN p = DOMAIN kw \cup T \cup (IF python.tail = <<>> THEN {} ELSE {"items"}) \cup filled
        /\ \A n \in DOMAIN kw : p[n] = kw[n]
        /\ \A n \in T : p[n] = args[Place(b, n)]
        /\ python.tail # <<>> => p["items"] = python.tail
        /\ \A n \in filled \ (DOMAIN kw \cup T) : p[n] = DefaultOf[n]
    BY ClientSends
  <1>3. /\ Parameters(b) \subseteq {"a", "b", "k"} /\ ToSet(b.positional) \subseteq Parameters(b)
        /\ s.optional \subseteq Parameters(b) /\ filled \subseteq s.optional
        /\ V = IF s.var THEN {"items"} ELSE {}
    BY ParameterNames, SignatureShape DEF Variadic
  <1>4. known \/ T = {}
    BY DEF Taken
  <1>5. DOMAIN kw \cap First(s) = {}
    BY DEF Plain
  <1> HIDE DEF p, T, python, b, V
  <1>6. \A n \in Parameters(b) :
          IF n \in DOMAIN p THEN p[n] = python.params[n] ELSE n \in s.optional /\ python.params[n] = DefaultOf[n]
    BY <1>1, <1>2, <1>3
  <1>7. python.tail = IF Spreads(s, p) THEN p["items"] ELSE <<>>
    BY <1>1, <1>2, <1>3 DEF Spreads
  <1>8. python.extra = Only(p, DOMAIN p \ (Parameters(b) \cup V))
    <2>1. DOMAIN p \ (Parameters(b) \cup V) = DOMAIN kw \ Parameters(b)
      BY <1>1, <1>2, <1>3
    <2> QED BY <1>1, <1>2, <2>1 DEF Only
  <1>9. s.open \/ DOMAIN p \subseteq Parameters(b) \cup V
    BY <1>1, <1>2, <1>3
  <1>10. "ctx" \notin DOMAIN p
    BY <1>1, <1>2, <1>3
  <1>11. TakesContext(s) => First(s) \subseteq DOMAIN p \/ First(s) \cap DOMAIN p = {}
    <2>1. CASE known
      BY <1>1, <1>2, <1>5, <2>1
    <2>2. CASE ~known
      BY <1>1, <1>2, <1>3, <1>4, <1>5, <2>2
    <2> QED BY <2>1, <2>2
  <1> QED BY <1>1, <1>2, <1>6, <1>7, <1>8, <1>9, <1>10, <1>11 DEF Carries, p, T, python, b, V

\* A payload that has every parameter as Python binds it, and what Python leaves over.
LEMMA WholeCarries ==
    ASSUME NEW s \in Signatures, NEW python \in Bindings(s), NEW p,
           s.var \/ python.tail = <<>>,
           DOMAIN p = DOMAIN python.extra \cup Parameters(Business(s)) \cup Variadic(s),
           \A n \in Parameters(Business(s)) : p[n] = python.params[n],
           \A n \in DOMAIN python.extra : p[n] = python.extra[n],
           DOMAIN python.extra \cap Parameters(Business(s)) = {},
           s.var => p["items"] = python.tail,
           s.open \/ DOMAIN python.extra = {},
           First(s) \subseteq Parameters(Business(s))
    PROVE  Carries(s, p, python)
  <1>1. Parameters(Business(s)) \subseteq {"a", "b", "k"} /\ Variadic(s) = IF s.var THEN {"items"} ELSE {}
    BY ParameterNames DEF Variadic
  <1>2. DOMAIN python.extra \subseteq {"a", "b", "k", "x"} /\ python.extra = [n \in DOMAIN python.extra |-> python.extra[n]]
    <2>1. PICK names \in SUBSET DOMAIN Keyword : python.extra = Only(Keyword, names)
      BY DEF Bindings
    <2> QED BY <2>1 DEF Only, Keyword
  <1>3. python.tail = IF Spreads(s, p) THEN p["items"] ELSE <<>>
    BY <1>1 DEF Spreads
  <1>4. DOMAIN p \ (Parameters(Business(s)) \cup Variadic(s)) = DOMAIN python.extra
    BY <1>1, <1>2
  <1>5. python.extra = Only(p, DOMAIN p \ (Parameters(Business(s)) \cup Variadic(s)))
    BY <1>2, <1>4 DEF Only
  <1>6. s.open \/ DOMAIN p \subseteq Parameters(Business(s)) \cup Variadic(s)
    OBVIOUS
  <1>7. "ctx" \notin DOMAIN p
    BY <1>1, <1>2
  <1> QED BY <1>3, <1>5, <1>6, <1>7 DEF Carries

\* A stub sends the call as Python binds it to the stub, or refuses a default that is
\* not JSON.
LEMMA StubCarries ==
    ASSUME NEW s \in Signatures, NEW args, NEW kw, Plain(s, args, kw), NEW known \in BOOLEAN,
           s.hidden \subseteq Taken(Business(s), args) \cup DOMAIN kw
    PROVE  /\ Sendable(s, Flat(s, args, kw))
           /\ Carries(s, NamedArguments(s, known, <<>>, Flat(s, args, kw)), Bound(Business(s), args, kw))
  <1> DEFINE b == Business(s)
             python == Bound(b, args, kw)
             T == Taken(b, args)
             flat == Flat(s, args, kw)
             rest == IF s.var THEN [n \in {"items"} |-> python.tail] ELSE Nothing
             p == NamedArguments(s, known, <<>>, flat)
  <1>1. BindsPlainly(s, args, kw)
    BY PythonBinds
  <1>2. /\ DOMAIN kw \subseteq {"a", "b", "k", "x"} /\ python \in Bindings(s)
        /\ s.var \/ python.tail = <<>>
        /\ python.extra = Only(kw, DOMAIN kw \ Parameters(b))
        /\ s.open \/ DOMAIN kw \subseteq Parameters(b)
        /\ \A n \in T \cup DOMAIN kw : n \in Parameters(b) => python.params[n] > 0
        /\ First(s) \subseteq Parameters(b)
    BY <1>1 DEF BindsPlainly
  <1>3. /\ Parameters(b) \subseteq {"a", "b", "k"} /\ s.hidden \subseteq s.optional
        /\ s.optional \subseteq Parameters(b)
        /\ Variadic(s) = IF s.var THEN {"items"} ELSE {}
    BY ParameterNames, SignatureShape DEF Variadic
  <1>4. /\ flat = Over(python.extra, Over(python.params, rest))
        /\ DOMAIN rest = Variadic(s) /\ (s.var => rest["items"] = python.tail)
    BY <1>3 DEF Flat, Nothing
  <1>5. DOMAIN python.params = Parameters(b) /\ python.params \in [Parameters(b) -> Int]
    BY <1>2 DEF Bindings
  <1>6. DOMAIN python.extra = DOMAIN kw \ Parameters(b)
    BY <1>2 DEF Only
  <1> HIDE DEF python, rest, flat, b
  <1>7. /\ DOMAIN flat = DOMAIN python.extra \cup Parameters(b) \cup Variadic(s)
        /\ \A n \in Parameters(b) : flat[n] = python.params[n]
        /\ \A n \in DOMAIN python.extra : flat[n] = python.extra[n]
        /\ s.var => flat["items"] = python.tail
    BY <1>2, <1>3, <1>4, <1>5, <1>6 DEF Over
  <1>8. Sendable(s, flat)
    <2>1. \A n \in {"a", "b", "k"} : DefaultOf[n] \in Int /\ DefaultOf[n] < 0
      BY DEF DefaultOf
    <2> SUFFICES ASSUME NEW n \in s.hidden PROVE flat[n] # DefaultOf[n]
      BY DEF Sendable
    <2>2. n \in Parameters(b) /\ n \in T \cup DOMAIN kw
      BY <1>3 DEF b
    <2>3. flat[n] = python.params[n] /\ python.params[n] > 0 /\ python.params[n] \in Int
      BY <1>2, <1>5, <1>7, <2>2
    <2> QED BY <1>3, <2>1, <2>2, <2>3
  <1>9. /\ DOMAIN p = DOMAIN flat \cup (IF known THEN s.optional \ s.hidden ELSE {})
        /\ \A n \in DOMAIN flat : p[n] = flat[n]
    <2>1. KeywordsAlone(s, known, flat)
      BY KeywordsSent
    <2> QED BY <2>1 DEF KeywordsAlone
  <1> HIDE DEF p
  <1>10. /\ DOMAIN p = DOMAIN flat /\ (s.var => "items" \in DOMAIN flat)
    BY <1>3, <1>7, <1>9
  <1>11. Carries(s, p, python)
    <2>1. /\ DOMAIN p = DOMAIN python.extra \cup Parameters(b) \cup Variadic(s)
          /\ \A n \in Parameters(b) : p[n] = python.params[n]
          /\ \A n \in DOMAIN python.extra : p[n] = python.extra[n]
          /\ s.var => p["items"] = python.tail
      BY <1>7, <1>9, <1>10
    <2>2. DOMAIN python.extra \cap Parameters(b) = {} /\ (s.open \/ DOMAIN python.extra = {})
      BY <1>2, <1>6
    <2> QED BY <1>2, <2>1, <2>2, WholeCarries DEF b
  <1> QED BY <1>8, <1>11 DEF flat, p, python, b

\* A facade, which takes every parameter of the schema, sends what Python would bind
\* to the function.
LEMMA LibraryCarries ==
    ASSUME NEW s \in Signatures, NEW args, NEW kw, Plain(s, args, kw), NEW known \in BOOLEAN,
           ~s.var, ~s.open,
           s.hidden \subseteq Taken(Business(s), args) \cup DOMAIN kw
    PROVE  /\ Binds(Facade(s), args, kw)
           /\ Carries(s, NamedArguments(s, known, <<>>, Supplied(s, args, kw)), Bound(Business(s), args, kw))
  <1> DEFINE b == Business(s)
             P == b.positional
             O == Order(s)
             python == Bound(b, args, kw)
             T == Taken(b, args)
             f == Facade(s)
             sent == Supplied(s, args, kw)
             p == NamedArguments(s, known, <<>>, sent)
  <1>1. BindsPlainly(s, args, kw)
    BY PythonBinds
  <1>2. /\ args \in Seq(Int) /\ DOMAIN kw \subseteq Parameters(b) /\ python \in Bindings(s)
        /\ python.tail = <<>> /\ Len(args) <= Len(P)
        /\ python.extra = Only(kw, DOMAIN kw \ Parameters(b))
        /\ T \cap DOMAIN kw = {} /\ Parameters(b) \subseteq T \cup s.optional \cup DOMAIN kw
        /\ First(s) \subseteq Parameters(b)
    BY <1>1 DEF BindsPlainly
  <1>3. \A n \in Parameters(b) :
          python.params[n] = IF n \in T THEN args[Place(b, n)]
                             ELSE IF n \in DOMAIN kw THEN kw[n] ELSE DefaultOf[n]
    BY <1>1 DEF BindsPlainly
  <1>4. /\ DOMAIN O = 1 .. Len(O) /\ Len(O) \in Nat /\ Len(P) <= Len(O)
        /\ \A i \in 1 .. Len(P) : O[i] = P[i]
        /\ \A i, j \in 1 .. Len(O) : O[i] = O[j] => i = j
    BY OrderShape
  <1>5. /\ DOMAIN P = 1 .. Len(P) /\ Len(P) \in Nat
        /\ \A i, j \in 1 .. Len(P) : P[i] = P[j] => i = j
        /\ DOMAIN args = 1 .. Len(args) /\ Len(args) \in Nat
    BY <1>2, PositionalShape
  <1>6. /\ Variadic(s) = {} /\ ToSet(O) = Parameters(b) /\ Parameters(b) \subseteq {"a", "b", "k"}
        /\ s.hidden \subseteq s.optional /\ s.optional \subseteq Parameters(b)
    BY ParameterNames, SignatureShape DEF Variadic
  <1>7. /\ f.positional = O /\ f.posonly = 0 /\ f.var = FALSE /\ f.keyword = {} /\ f.open = FALSE
        /\ f.optional = ToSet(O) \ Required(s)
    BY DEF Facade
  <1>8. Required(s) = Parameters(b) \ s.optional
    BY DEF Required
  <1> HIDE DEF O, P, f
  <1>9. Taken(f, args) = T
    <2>1. Taken(f, args) = {O[i] : i \in DOMAIN O \cap DOMAIN args}
      BY <1>7 DEF Taken
    <2>2. T = {P[i] : i \in DOMAIN P \cap DOMAIN args}
      BY DEF Taken, P
    <2>3. DOMAIN O \cap DOMAIN args = DOMAIN P \cap DOMAIN args
      BY <1>2, <1>4, <1>5
    <2> QED BY <1>4, <1>5, <2>1, <2>2, <2>3
  <1>10. ASSUME NEW n \in T PROVE Place(f, n) = Place(b, n)
    <2>1. PICK i \in DOMAIN P : n = P[i]
      BY DEF Taken, P
    <2>2. Place(b, n) = i
      BY <1>5, <2>1 DEF Place, P
    <2>3. i \in DOMAIN O /\ O[i] = n
      BY <1>4, <1>5, <2>1
    <2>4. Place(f, n) = i
      BY <1>4, <1>7, <2>3 DEF Place
    <2> QED BY <2>2, <2>4
  <1>11. ByKeyword(f) = Parameters(b) /\ Parameters(f) = Parameters(b)
    <2>1. Parameters(f) = Parameters(b)
      BY <1>6, <1>7 DEF Parameters
    <2>2. (f.posonly + 1) .. Len(f.positional) = DOMAIN O
      BY <1>4, <1>7
    <2>3. ByKeyword(f) = {O[i] : i \in DOMAIN O} \cup {}
      BY <1>7, <2>2 DEF ByKeyword
    <2> QED BY <1>6, <2>1, <2>3 DEF ToSet
  <1>12. Binds(f, args, kw)
    <2>1. Len(args) <= Len(f.positional)
      BY <1>2, <1>4, <1>5, <1>7
    <2>2. DOMAIN kw \subseteq ByKeyword(f) /\ Taken(f, args) \cap ByKeyword(f) \cap DOMAIN kw = {}
      BY <1>2, <1>9, <1>11
    <2>3. Parameters(f) \subseteq Taken(f, args) \cup f.optional \cup (ByKeyword(f) \cap DOMAIN kw)
      BY <1>2, <1>6, <1>7, <1>8, <1>9, <1>11
    <2> QED BY <2>1, <2>2, <2>3 DEF Binds
  <1>13. DOMAIN sent = Parameters(b)
    BY <1>6 DEF Supplied, O
  <1>14. ASSUME NEW n \in Parameters(b) PROVE sent[n] = python.params[n]
    <2>1. sent[n] = IF n \in Taken(f, args) THEN args[Place(f, n)]
                    ELSE Over(kw, Over(Advertised(s), [m \in {n} |-> Null]))[n]
      BY <1>6 DEF Supplied, O, f
    <2>2. CASE n \in T
      BY <1>3, <1>9, <1>10, <2>1, <2>2
    <2>3. CASE n \notin T
      <3>1. n \in DOMAIN kw \/ n \in s.optional \ s.hidden
        BY <1>2, <2>3
      <3>2. \A m \in s.optional \ s.hidden : m \in DOMAIN Advertised(s) /\ Advertised(s)[m] = DefaultOf[m]
        <4>1. s.optional \subseteq DOMAIN DefaultOf
          BY SignatureShape DEF DefaultOf
        <4> QED BY <4>1 DEF Advertised, Only
      <3>3. Over(kw, Over(Advertised(s), [m \in {n} |-> Null]))[n] = IF n \in DOMAIN kw THEN kw[n] ELSE DefaultOf[n]
        BY <3>1, <3>2 DEF Over
      <3> QED BY <1>3, <1>9, <2>1, <2>3, <3>3
    <2> QED BY <2>2, <2>3
  <1>15. /\ DOMAIN p = DOMAIN sent \cup (IF known THEN s.optional \ s.hidden ELSE {})
         /\ \A n \in DOMAIN sent : p[n] = sent[n]
    <2>1. KeywordsAlone(s, known, sent)
      BY KeywordsSent
    <2> QED BY <2>1 DEF KeywordsAlone
  <1>16. DOMAIN python.extra = {}
    BY <1>2 DEF Only
  <1> HIDE DEF python, sent, p, b
  <1>17. /\ DOMAIN p = DOMAIN python.extra \cup Parameters(b) \cup Variadic(s)
         /\ \A n \in Parameters(b) : p[n] = python.params[n]
         /\ \A n \in DOMAIN python.extra : p[n] = python.extra[n]
         /\ DOMAIN python.extra \cap Parameters(b) = {}
    BY <1>6, <1>13, <1>14, <1>15, <1>16
  <1>18. Carries(s, p, python)
    BY <1>2, <1>16, <1>17, WholeCarries DEF b
  <1> QED BY <1>12, <1>18 DEF f, p, sent, python, b

-----------------------------------------------------------------------------
(* Arguments: the theorem                                                   *)

\* An ordinary call that Python accepts.
Accepted == Ordinary /\ Binds(Business(function), call.args, call.kw)

\* Such a call is on the wire as Python binds it, or has been executed so.
ArgumentsInv ==
    /\ stage \in {"register", "call", "wire", "done", "refused"}
    /\ stage # "register" => function \in Signatures
    /\ stage = "wire" /\ Accepted =>
         Carries(function, payload, Bound(Business(function), call.args, call.kw))
    /\ ArgumentsAgree

\* What a caller does keeps it, when it sends an accepted call as Python binds it.
LEMMA CallerKeeps ==
    ASSUME ArgumentsInv, stage = "call", function' = function, stage' \in {"wire", "refused"},
           Accepted' => /\ stage' = "wire"
                        /\ Carries(function, payload', Bound(Business(function), call'.args, call'.kw))
    PROVE  ArgumentsInv'
  BY DEF ArgumentsInv, ArgumentsAgree, Accepted

\* The calls that the theorem is about are plain.
LEMMA AcceptedIsPlain ==
    ASSUME NEW k \in Nat, NEW names \in SUBSET DOMAIN Keyword, NEW route, NEW known,
           function \in Signatures, function' = function,
           Write(route, known, [i \in 1 .. k |-> i], Only(Keyword, names)), Accepted'
    PROVE  LET args == [i \in 1 .. k |-> i]
               kw == Only(Keyword, names)
           IN  /\ Plain(function, args, kw) /\ call'.args = args /\ call'.kw = kw
               /\ route = "client" => known \/ args = <<>>
               /\ route = "library" => Renders(function) /\ ~function.var /\ ~function.open
               /\ route \in {"stub", "library"} =>
                    function.hidden \subseteq Taken(Business(function), args) \cup DOMAIN kw
               /\ TakesContext(function) => function.hidden \cap First(function) = {}
               /\ Binds(Business(function), args, kw)
  <1> DEFINE args == [i \in 1 .. k |-> i]
             kw == Only(Keyword, names)
             s == Business(function)
  <1>1. call'.route = route /\ call'.known = known /\ call'.args = args /\ call'.kw = kw
    BY DEF Write
  <1> HIDE DEF args, kw
  <1>2. Binds(s, args, kw)
    BY <1>1 DEF Accepted
  <1>3. /\ DOMAIN kw \cap First(function) = {}
        /\ route = "client" => known \/ args = <<>>
        /\ route = "library" => Renders(function) /\ ~s.var /\ ~s.open
        /\ route \in {"stub", "library"} => s.hidden \subseteq Taken(s, args) \cup DOMAIN kw
        /\ TakesContext(function) => s.hidden \cap First(function) = {}
    BY <1>1 DEF Accepted, Ordinary, First
  <1>4. s.var = function.var /\ s.open = function.open /\ s.hidden = function.hidden
    BY SignatureShape
  <1>5. Plain(function, args, kw)
    BY <1>2, <1>3 DEF Plain, args, kw
  <1> HIDE DEF s
  <1> QED BY <1>1, <1>2, <1>3, <1>4, <1>5 DEF args, kw, s

\* A call through any of the three routes keeps the invariant.
LEMMA CallKeepsArguments ==
    ASSUME ArgumentsInv, stage = "call", NEW known \in BOOLEAN, NEW k \in Nat,
           NEW names \in SUBSET DOMAIN Keyword,
           LET args == [i \in 1 .. k |-> i]
               kw == Only(Keyword, names)
           IN  CallClient(known, args, kw) \/ CallStub(known, args, kw) \/ CallLibrary(known, args, kw)
    PROVE  ArgumentsInv'
  <1> DEFINE args == [i \in 1 .. k |-> i]
             kw == Only(Keyword, names)
  <1>0. function \in Signatures
    BY DEF ArgumentsInv
  <1>1. CASE CallClient(known, args, kw)
    <2>1. Write("client", known, args, kw) /\ function' = function /\ stage' \in {"wire", "refused"}
      BY <1>1 DEF CallClient
    <2>2. ASSUME Accepted'
          PROVE  /\ stage' = "wire"
                 /\ Carries(function, payload', Bound(Business(function), call'.args, call'.kw))
      <3>1. /\ Plain(function, args, kw) /\ call'.args = args /\ call'.kw = kw
            /\ known \/ args = <<>>
            /\ TakesContext(function) => function.hidden \cap First(function) = {}
        BY <1>0, <2>1, <2>2, AcceptedIsPlain
      <3> HIDE DEF args, kw
      <3>2. /\ Maps(function, known, args, kw)
            /\ Carries(function, NamedArguments(function, known, args, kw), Bound(Business(function), args, kw))
        BY <1>0, <3>1, ClientCarries
      <3>3. stage' = "wire" /\ payload' = NamedArguments(function, known, args, kw)
        BY <1>1, <3>2 DEF CallClient
      <3> QED BY <3>1, <3>2, <3>3
    <2> QED BY <2>1, <2>2, CallerKeeps
  <1>2. CASE CallStub(known, args, kw)
    <2>1. Write("stub", known, args, kw) /\ function' = function /\ stage' \in {"wire", "refused"}
      BY <1>2 DEF CallStub
    <2>2. ASSUME Accepted'
          PROVE  /\ stage' = "wire"
                 /\ Carries(function, payload', Bound(Business(function), call'.args, call'.kw))
      <3>1. /\ Plain(function, args, kw) /\ call'.args = args /\ call'.kw = kw
            /\ function.hidden \subseteq Taken(Business(function), args) \cup DOMAIN kw
            /\ Binds(Business(function), args, kw)
        BY <1>0, <2>1, <2>2, AcceptedIsPlain
      <3> HIDE DEF args, kw
      <3>2. /\ Sendable(function, Flat(function, args, kw))
            /\ Carries(function, NamedArguments(function, known, <<>>, Flat(function, args, kw)),
                       Bound(Business(function), args, kw))
        BY <1>0, <3>1, StubCarries
      <3>3. stage' = "wire" /\ payload' = NamedArguments(function, known, <<>>, Flat(function, args, kw))
        BY <1>2, <3>1, <3>2 DEF CallStub
      <3> QED BY <3>1, <3>2, <3>3
    <2> QED BY <2>1, <2>2, CallerKeeps
  <1>3. CASE CallLibrary(known, args, kw)
    <2>1. Write("library", known, args, kw) /\ function' = function /\ stage' \in {"wire", "refused"}
      BY <1>3 DEF CallLibrary
    <2>2. ASSUME Accepted'
          PROVE  /\ stage' = "wire"
                 /\ Carries(function, payload', Bound(Business(function), call'.args, call'.kw))
      <3>1. /\ Plain(function, args, kw) /\ call'.args = args /\ call'.kw = kw
            /\ function.hidden \subseteq Taken(Business(function), args) \cup DOMAIN kw
            /\ Renders(function) /\ ~function.var /\ ~function.open
        BY <1>0, <2>1, <2>2, AcceptedIsPlain
      <3> HIDE DEF args, kw
      <3>2. /\ Binds(Facade(function), args, kw)
            /\ Carries(function, NamedArguments(function, known, <<>>, Supplied(function, args, kw)),
                       Bound(Business(function), args, kw))
        BY <1>0, <3>1, LibraryCarries
      <3>3. stage' = "wire" /\ payload' = NamedArguments(function, known, <<>>, Supplied(function, args, kw))
        BY <1>3, <3>1, <3>2 DEF CallLibrary
      <3> QED BY <3>1, <3>2, <3>3
    <2> QED BY <2>1, <2>2, CallerKeeps
  <1> QED BY <1>1, <1>2, <1>3

\* The host keeps it.
LEMMA HostKeepsArguments ==
    ASSUME ArgumentsInv, HostCall
    PROVE  ArgumentsInv'
  <1>1. /\ stage = "wire" /\ function \in Signatures /\ stage' \in {"done", "refused"}
        /\ UNCHANGED <<function, call, payload>>
    BY DEF HostCall, ArgumentsInv
  <1>2. Accepted' <=> Accepted
    BY <1>1 DEF Accepted, Ordinary
  <1>3. ASSUME Accepted
        PROVE  /\ stage' = "done"
               /\ LET python == Bound(Business(function), call.args, call.kw)
                  IN  /\ Only(bound'.params, {"a", "b", "k"}) = python.params
                      /\ bound'.tail = python.tail /\ bound'.extra = python.extra
    <2> DEFINE python == Bound(Business(function), call.args, call.kw)
               received == Bound(function, Positional(function, payload), Rest(function, payload))
    <2>1. Carries(function, payload, python)
      BY <1>1, <1>3 DEF ArgumentsInv
    <2>2. /\ Executes(function, payload)
          /\ Only(received.params, {"a", "b", "k"}) = python.params
          /\ received.tail = python.tail /\ received.extra = python.extra
      <3> HIDE DEF python
      <3> QED BY <1>1, <2>1, HostAgrees
    <2>3. stage' = "done" /\ bound' = received
      BY <2>2 DEF HostCall
    <2> QED BY <2>2, <2>3
  <1>4. ArgumentsAgree'
    BY <1>1, <1>2, <1>3 DEF ArgumentsAgree, Accepted
  <1> QED BY <1>1, <1>4 DEF ArgumentsInv

\* A call that Python accepts of the function itself is executed remotely, and the
\* function receives the same arguments, for every shape of signature, however many
\* arguments are given by position and through whichever route.
THEOREM ArgumentsArrive == ArgumentsSpec => []ArgumentsAgree
  <1>1. ArgumentsInit => ArgumentsInv
    BY DEF ArgumentsInit, ArgumentsInv, ArgumentsAgree
  <1>2. ArgumentsInv /\ [ArgumentsNext]_argumentVars => ArgumentsInv'
    <2> SUFFICES ASSUME ArgumentsInv, [ArgumentsNext]_argumentVars PROVE ArgumentsInv'
      OBVIOUS
    <2>1. CASE UNCHANGED argumentVars
      BY <2>1 DEF argumentVars, ArgumentsInv, ArgumentsAgree, Accepted, Ordinary
    <2>2. CASE Register
      BY <2>2 DEF Register, ArgumentsInv, ArgumentsAgree
    <2>3. ASSUME stage = "call", NEW known \in BOOLEAN, NEW k \in 0 .. MaxArgs,
                 NEW names \in SUBSET DOMAIN Keyword,
                 LET args == [i \in 1 .. k |-> i]
                     kw == Only(Keyword, names)
                 IN  CallClient(known, args, kw) \/ CallStub(known, args, kw) \/ CallLibrary(known, args, kw)
          PROVE  ArgumentsInv'
      <3>1. k \in Nat
        BY ArgumentsAssumption
      <3> QED BY <2>3, <3>1, CallKeepsArguments
    <2>4. CASE HostCall
      BY <2>4, HostKeepsArguments
    <2> QED BY <2>1, <2>2, <2>3, <2>4 DEF ArgumentsNext
  <1>3. ArgumentsInv => ArgumentsAgree
    BY DEF ArgumentsInv
  <1> QED BY <1>1, <1>2, <1>3, PTL DEF ArgumentsSpec
=============================================================================
