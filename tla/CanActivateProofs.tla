-------------------------- MODULE CanActivateProofs --------------------------
(***************************************************************************)
(* Theorems about CanActivate, for any number of adapters and any prefixes.*)
(*                                                                         *)
(* What carries them: names tell the adapters apart, so a call that names  *)
(* an interface reaches one adapter; between parking and its final name an *)
(* adapter in the list is down, under a name the call knows, and that name *)
(* is either its own final one or nobody's.  There is always a name to     *)
(* park under, and one for an adapter that is plugged in (the pigeonhole). *)
(* All of this but the kernel's own order (Sound) ends where an adapter of *)
(* the list is unplugged or the names given are out of date (lost), until  *)
(* the next call.                                                          *)
(***************************************************************************)
EXTENDS CanActivate, SequenceTheorems, FiniteSetTheorems, TLAPS

Active == pc \in {"stop", "park", "assign", "bitrate", "start"}

At(k) == name[list[k]]

(* Out of the others' way before the second loop, in its place after it.   *)
Clear(k) == refused \/ At(k) = Targets[k] \/ At(k) \notin Range(Targets)
InPlace(k) == refused \/ At(k) = Targets[k]

Started(k) == up[list[k]] /\ rate[list[k]] = Bitrate

(* Names tell the adapters apart, and what is up has a bitrate.            *)
KernelInv ==
  /\ present \subseteq Adapter
  /\ name \in [Adapter -> Name \cup {NoName}]
  /\ \A a \in Adapter : name[a] = NoName <=> a \notin present
  /\ \A a, b \in present : name[a] = name[b] => a = b
  /\ up \in [Adapter -> BOOLEAN]
  /\ \A a \in Adapter : up[a] => a \in present
  /\ rate \in [Adapter -> Nat]
  /\ \A a \in Adapter : up[a] => rate[a] # NoRate

ListInv ==
  /\ pc \in {"idle", "wait", "stop", "park", "assign", "bitrate", "start"}
  /\ prefix \in GivenPrefixes
  /\ list \in Seq(Adapter)
  /\ \A j, k \in 1..Len(list) : list[j] = list[k] => j = k
  /\ listed \in Seq(Name) /\ Len(listed) = Len(list)
  /\ current \in Seq(Name)
  /\ i \in 1..(Len(list) + 1)
  /\ Active => i <= Len(list)
  /\ ~Active => i = 1 /\ current = << >>
  /\ pc \in {"stop", "park"} => Len(current) = i - 1
  /\ pc \in {"assign", "bitrate", "start"} => Len(current) = Len(list)
  /\ refused \in BOOLEAN /\ lost \in BOOLEAN

Sound == KernelInv /\ ListInv

HereInv == \A k \in 1..Len(list) : list[k] \in present

(* The first loop.                                                         *)
ParkInv ==
  pc \in {"stop", "park"} =>
    /\ \A k \in 1..Len(list) :
         /\ k >= i => At(k) = listed[k]
         /\ k < i => current[k] = At(k) /\ Clear(k) /\ ~up[list[k]]
    /\ pc = "park" => ~up[list[i]]

(* The second loop.                                                        *)
PlaceInv ==
  pc \in {"assign", "bitrate", "start"} =>
    /\ \A k \in 1..Len(list) :
         /\ k < i => Started(k) /\ InPlace(k)
         /\ k > i => current[k] = At(k) /\ Clear(k) /\ ~up[list[k]]
    /\ ~up[list[i]]
    /\ pc = "assign" => current[i] = At(i) /\ Clear(i)
    /\ pc # "assign" => ifname = At(i) /\ InPlace(i)
    /\ pc = "start" => rate[list[i]] = Bitrate

DoneInv ==
  pc = "idle" /\ outcome = "done" =>
    \A k \in 1..Len(list) : Started(k) /\ InPlace(k)

(* While the names the call goes by are its adapters'.                     *)
Sure == HereInv /\ ParkInv /\ PlaceInv /\ DoneInv

IInv == Sound /\ (lost \/ Sure)

-----------------------------------------------------------------------------

(* The list and the names to give out, one by one.                         *)
LEMMA ListFacts ==
  ASSUME ListInv
  PROVE  /\ Len(list) \in Nat /\ DOMAIN list = 1..Len(list)
         /\ \A k \in 1..Len(list) : list[k] \in Adapter /\ listed[k] \in Name
         /\ Range(list) = {list[k] : k \in 1..Len(list)}
         /\ DOMAIN Targets = 1..Len(list)
         /\ \A k \in 1..Len(list) :
              /\ Targets[k] = [prefix |-> prefix, n |-> k - 1]
              /\ Targets[k] \in Name
         /\ \A j, k \in 1..Len(list) : Targets[j] = Targets[k] => j = k
         /\ Range(Targets) = {Targets[k] : k \in 1..Len(list)}
  <1>1. Len(list) \in Nat /\ DOMAIN list = 1..Len(list)
    BY LenProperties DEF ListInv
  <1>2. \A k \in 1..Len(list) : list[k] \in Adapter /\ listed[k] \in Name
    BY ElementOfSeq DEF ListInv
  <1>3. /\ DOMAIN Targets = 1..Len(list)
        /\ \A k \in 1..Len(list) : Targets[k] = [prefix |-> prefix, n |-> k - 1]
    BY <1>1 DEF Targets
  <1>4. \A k \in 1..Len(list) : Targets[k] \in Name
    BY <1>1, <1>3 DEF ListInv, Name
  <1>5. \A j, k \in 1..Len(list) : Targets[j] = Targets[k] => j = k
    <2> SUFFICES ASSUME NEW j \in 1..Len(list), NEW k \in 1..Len(list), Targets[j] = Targets[k]
                 PROVE  j = k
      OBVIOUS
    <2>1. Targets[j].n = j - 1 /\ Targets[k].n = k - 1
      BY <1>3
    <2>2. j - 1 = k - 1
      BY <2>1
    <2>3. QED
      BY <1>1, <2>2
  <1>6. Range(list) = {list[k] : k \in 1..Len(list)}
    BY <1>1 DEF Range
  <1>7. Range(Targets) = {Targets[k] : k \in 1..Len(list)}
    BY <1>3 DEF Range
  <1>8. QED
    BY <1>1, <1>2, <1>3, <1>4, <1>5, <1>6, <1>7

(* What is plugged in has a name.                                          *)
LEMMA PresentNames ==
  ASSUME KernelInv
  PROVE  /\ NoName \notin Name
         /\ \A a \in present : a \in Adapter /\ name[a] \in Name
         /\ \A a \in Adapter : name[a] \in Name => a \in present
  <1>1. NoName \notin Name
    <2> SUFFICES ASSUME NoName \in Name PROVE FALSE
      OBVIOUS
    <2>1. NoName.n \in Nat
      BY DEF Name
    <2>2. NoName.n = -1
      BY DEF NoName
    <2>3. QED
      BY <2>1, <2>2
  <1>2. QED
    BY <1>1 DEF KernelInv

(* A name reaches the adapter that has it, and no other.                   *)
LEMMA OwnName ==
  ASSUME KernelInv, NEW a \in present
  PROVE  Named(name[a]) = {a}
  BY DEF KernelInv, Named

(* An adapter that is down takes a free name, and the others keep theirs.  *)
LEMMA RenameOne ==
  ASSUME KernelInv, NEW a \in present, NEW y \in Name, Named(y) = {},
         RenameInterface(name[a], y), UNCHANGED <<present, up, rate>>
  PROVE  /\ KernelInv'
         /\ name'[a] = y
         /\ \A b \in Adapter : b # a => name'[b] = name[b]
  <1>1. Named(name[a]) = {a}
    BY OwnName
  <1>2. name' = [b \in Adapter |-> IF b = a THEN y ELSE name[b]]
    BY <1>1 DEF RenameInterface
  <1>3. present \subseteq Adapter /\ a \in Adapter
    BY DEF KernelInv
  <1>4. name'[a] = y /\ \A b \in Adapter : b # a => name'[b] = name[b]
    BY <1>2, <1>3
  <1>5. \A b \in present : name[b] # y
    BY DEF Named
  <1>6. /\ name' \in [Adapter -> Name \cup {NoName}]
        /\ \A b \in Adapter : name'[b] = NoName <=> b \notin present
        /\ \A b, d \in present : name'[b] = name'[d] => b = d
    BY <1>2, <1>3, <1>4, <1>5, PresentNames DEF KernelInv
  <1>7. QED
    BY <1>4, <1>6 DEF KernelInv

-----------------------------------------------------------------------------
(* There is always a free name.                                            *)

(* A set of naturals with an element has a least one.                      *)
LEMMA LeastOf ==
  ASSUME NEW S \in SUBSET Nat, NEW s \in S
  PROVE  \E n \in S : n <= s /\ \A m \in S : n <= m
  <1>1. PICK n \in S : \A m \in S : ~ (<<m, n>> \in OpToRel(<, Nat))
    BY NatLessThanWellFounded, WFMin
  <1>2. \A m \in S : ~(m < n)
    BY <1>1 DEF OpToRel
  <1>3. QED
    BY <1>2

(* The numbers that are taken under a prefix are not more than adapters.   *)
LEMMA FewTaken ==
  ASSUME KernelInv, NEW p
  PROVE  LET Taken == {n \in Nat : Named([prefix |-> p, n |-> n]) # {}}
         IN  IsFiniteSet(Taken) /\ Cardinality(Taken) <= Cardinality(present)
  <1> DEFINE Taken == {n \in Nat : Named([prefix |-> p, n |-> n]) # {}}
             Holder == [n \in Taken |-> CHOOSE a \in present : name[a] = [prefix |-> p, n |-> n]]
  <1>1. IsFiniteSet(Adapter)
    BY ActivateAssumption, FS_Interval DEF Adapter
  <1>2. IsFiniteSet(present)
    BY <1>1, FS_Subset DEF KernelInv
  <1>3. \A n \in Taken : Holder[n] \in present /\ name[Holder[n]] = [prefix |-> p, n |-> n]
    BY DEF Named
  <1>4. \A m, n \in Taken : Holder[m] = Holder[n] => m = n
    <2> SUFFICES ASSUME NEW m \in Taken, NEW n \in Taken, Holder[m] = Holder[n]
                 PROVE  m = n
      OBVIOUS
    <2>1. [prefix |-> p, n |-> m] = [prefix |-> p, n |-> n]
      BY <1>3
    <2>2. [prefix |-> p, n |-> m].n = [prefix |-> p, n |-> n].n
      BY <2>1
    <2>3. QED
      BY <2>2
  <1>5. Holder \in [Taken -> present]
    BY <1>3
  <1> HIDE DEF Holder, Taken
  <1>6. Holder \in Injection(Taken, present)
    BY <1>4, <1>5 DEF Injection, IsInjective
  <1>7. IsFiniteSet(Taken) /\ Cardinality(Taken) <= Cardinality(present)
    BY <1>2, <1>6, FS_Injection
  <1>8. QED
    BY <1>7 DEF Taken

(* The name of an adapter that is plugged in.                              *)
LEMMA LowestIsFree ==
  ASSUME KernelInv, NEW p
  PROVE  Lowest(p) \in Nat /\ Named([prefix |-> p, n |-> Lowest(p)]) = {}
  <1> DEFINE Taken == {n \in Nat : Named([prefix |-> p, n |-> n]) # {}}
             Free == Nat \ Taken
  <1>1. IsFiniteSet(Taken) /\ Cardinality(Taken) <= Cardinality(present)
    BY FewTaken
  <1>2. Adapters \in Nat /\ IsFiniteSet(Adapter) /\ Cardinality(Adapter) = Adapters
    BY ActivateAssumption, FS_Interval DEF Adapter
  <1>3. Cardinality(present) <= Adapters /\ Cardinality(present) \in Nat
    BY <1>2, FS_Subset, FS_CardinalityType DEF KernelInv
  <1>4. IsFiniteSet(0..Adapters) /\ Cardinality(0..Adapters) = Adapters + 1
    BY <1>2, FS_Interval
  <1>5. Cardinality(Taken) \in Nat
    BY <1>1, FS_CardinalityType
  <1> HIDE DEF Taken
  <1>6. PICK s \in 0..Adapters : s \notin Taken
    <2>1. SUFFICES ASSUME 0..Adapters \subseteq Taken PROVE FALSE
      OBVIOUS
    <2>2. Cardinality(0..Adapters) <= Cardinality(Taken)
      BY <1>1, <2>1, FS_Subset
    <2>3. QED
      BY <1>2, <1>3, <1>4, <1>5, <1>1, <2>2
  <1>7. PICK n \in Free : n <= s /\ \A m \in Free : n <= m
    <2>1. s \in Free /\ Free \in SUBSET Nat
      BY <1>2, <1>6
    <2> HIDE DEF Free
    <2>2. QED
      BY <2>1, LeastOf
  <1>8. /\ n \in 0..Adapters
        /\ Named([prefix |-> p, n |-> n]) = {}
        /\ \A m \in 0..(n - 1) : Named([prefix |-> p, n |-> m]) # {}
    BY <1>2, <1>6, <1>7 DEF Taken
  <1>9. /\ Lowest(p) \in 0..Adapters
        /\ Named([prefix |-> p, n |-> Lowest(p)]) = {}
    BY <1>8 DEF Lowest
  <1>10. QED
    BY <1>2, <1>9

(* The name to park under.                                                 *)
LEMMA TemporaryIsFree ==
  ASSUME KernelInv, ListInv
  PROVE  /\ FreeTemporaryName \in Name
         /\ Named(FreeTemporaryName) = {}
         /\ FreeTemporaryName \notin Range(Targets)
  <1> DEFINE Tmp(n) == [prefix |-> "cantmp", n |-> n]
             Taken == {n \in Nat : Named(Tmp(n)) # {}}
             Given == 0..(Len(list) - 1)
             FreeAt(n) == Named(Tmp(n)) = {} /\ Tmp(n) \notin Range(Targets)
             Free == {n \in Nat : FreeAt(n)}
  <1>1. IsFiniteSet(Taken) /\ Cardinality(Taken) <= Cardinality(present)
    BY FewTaken
  <1>2. Adapters \in Nat /\ IsFiniteSet(Adapter) /\ Cardinality(Adapter) = Adapters
    BY ActivateAssumption, FS_Interval DEF Adapter
  <1>3. /\ IsFiniteSet(present)
        /\ Cardinality(present) <= Adapters /\ Cardinality(present) \in Nat
    BY <1>2, FS_Subset, FS_CardinalityType DEF KernelInv
  <1>4. /\ IsFiniteSet(0..(2 * Adapters))
        /\ Cardinality(0..(2 * Adapters)) = 2 * Adapters + 1
    BY <1>2, FS_Interval
  <1>5. Cardinality(Taken) \in Nat
    BY <1>1, FS_CardinalityType
  <1>6. Len(list) \in Nat
    BY ListFacts
  <1>7. Len(list) <= Adapters
    <2>1. IsFiniteSet(1..Len(list)) /\ Cardinality(1..Len(list)) = Len(list)
      <3>1. /\ 1 \in Int /\ Len(list) \in Int
            /\ (IF 1 > Len(list) THEN 0 ELSE Len(list) - 1 + 1) = Len(list)
        BY <1>6
      <3>2. /\ IsFiniteSet(1..Len(list))
            /\ Cardinality(1..Len(list)) = IF 1 > Len(list) THEN 0 ELSE Len(list) - 1 + 1
        BY <3>1, FS_Interval, Zenon
      <3>3. QED
        BY <3>1, <3>2
    <2>2. list \in [1..Len(list) -> Adapter]
      BY LenProperties DEF ListInv
    <2>3. list \in Injection(1..Len(list), Adapter)
      BY <2>2 DEF ListInv, Injection, IsInjective
    <2>4. Cardinality(1..Len(list)) <= Cardinality(Adapter)
      BY <1>2, <2>3, FS_Injection
    <2>5. QED
      BY <1>2, <1>6, <2>1, <2>4
  <1>8. IsFiniteSet(Given) /\ Cardinality(Given) = Len(list)
    <2>1. 0 \in Int /\ Len(list) - 1 \in Int
      BY <1>6
    <2>2. /\ IsFiniteSet(Given)
          /\ Cardinality(Given) =
               IF 0 > Len(list) - 1 THEN 0 ELSE Len(list) - 1 - 0 + 1
      BY <2>1, FS_Interval
    <2>3. QED
      BY <1>6, <2>2
  <1>9. \A n \in Nat : ~FreeAt(n) => n \in Taken \cup Given
    <2> SUFFICES ASSUME NEW n \in Nat, Tmp(n) \in Range(Targets) PROVE n \in Given
      OBVIOUS
    <2>1. PICK k \in 1..Len(list) : Tmp(n) = Targets[k]
      BY ListFacts
    <2>2. Targets[k].n = k - 1
      BY ListFacts
    <2>3. Tmp(n).n = n
      OBVIOUS
    <2>4. n = k - 1
      BY <2>1, <2>2, <2>3
    <2>5. QED
      BY <1>6, <2>4
  <1> HIDE DEF Taken, Given
  <1>10. PICK s \in 0..(2 * Adapters) : FreeAt(s)
    <2> HIDE DEF FreeAt
    <2>1. SUFFICES ASSUME \A n \in 0..(2 * Adapters) : ~FreeAt(n) PROVE FALSE
      OBVIOUS
    <2>2. 0..(2 * Adapters) \subseteq Taken \cup Given
      BY <1>2, <1>9, <2>1
    <2>3. /\ IsFiniteSet(Taken \cup Given)
          /\ Cardinality(Taken \cup Given)
               = Cardinality(Taken) + Cardinality(Given) - Cardinality(Taken \cap Given)
      BY <1>1, <1>8, FS_Union
    <2>4. Cardinality(Taken \cap Given) \in Nat
      BY <1>1, FS_Intersection, FS_CardinalityType
    <2>5. Cardinality(0..(2 * Adapters)) <= Cardinality(Taken \cup Given)
      BY <2>2, <2>3, FS_Subset
    <2>6. 2 * Adapters + 1 <= Cardinality(Taken) + Len(list)
      BY <1>2, <1>4, <1>5, <1>6, <1>8, <2>3, <2>4, <2>5
    <2>7. QED
      BY <1>1, <1>2, <1>3, <1>5, <1>6, <1>7, <2>6
  <1>11. PICK n \in Free : n <= s /\ \A m \in Free : n <= m
    <2>1. s \in Free
      BY <1>2, <1>10
    <2>2. QED
      BY <2>1, LeastOf
  <1>12. n \in 0..(2 * Adapters) /\ FreeAt(n) /\ \A m \in 0..(n - 1) : ~FreeAt(m)
    <2> HIDE DEF FreeAt
    <2>1. QED
      BY <1>2, <1>10, <1>11
  <1> DEFINE chosen == CHOOSE n1 \in 0..(2 * Adapters) :
                         FreeAt(n1) /\ \A m \in 0..(n1 - 1) : ~FreeAt(m)
  <1>13. chosen \in 0..(2 * Adapters) /\ FreeAt(chosen)
    <2> HIDE DEF FreeAt
    <2>1. QED
      BY <1>12
  <1>14. FreeTemporaryName = Tmp(chosen)
    BY DEF FreeTemporaryName
  <1> HIDE DEF chosen
  <1>15. Tmp(chosen) \in Name
    BY <1>2, <1>13 DEF Name
  <1>16. QED
    BY <1>13, <1>14, <1>15

-----------------------------------------------------------------------------
(* Sound: the kernel's order and the shape of the call's variables, which  *)
(* no step disturbs, whatever the names it goes by reach.                  *)

(* A rename the kernel allows is that of one adapter.                      *)
LEMMA KernelRename ==
  ASSUME KernelInv, NEW x, NEW y \in Name, MayRename(x, y), RenameInterface(x, y),
         UNCHANGED <<present, up, rate>>
  PROVE  KernelInv'
  <1>1. PICK a \in present : name[a] = x
    BY DEF MayRename, Named
  <1>2. Named(y) = {} /\ RenameInterface(name[a], y)
    BY <1>1 DEF MayRename
  <1>3. QED
    BY <1>2, RenameOne

LEMMA PlugSound ==
  ASSUME Sound, NEW a \in Adapter, Plug(a)
  PROVE  /\ Sound'
         /\ \A b \in present : name'[b] = name[b]
  <1> USE DEF Sound
  <1> DEFINE x == [prefix |-> "can", n |-> Lowest("can")]
  <1>1. x \in Name /\ Named(x) = {}
    BY LowestIsFree DEF Name
  <1> HIDE DEF x
  <1>2. /\ a \notin present /\ present' = present \cup {a}
        /\ name' = [name EXCEPT ![a] = x]
        /\ UNCHANGED <<up, rate, prefix, list, listed, pc, current, i, refused, lost>>
    BY DEF Plug, x, local, loop, history
  <1>3. \A b \in present : name'[b] = name[b] /\ name[b] # x
    BY <1>1, <1>2 DEF KernelInv, Named
  <1>4. KernelInv'
    <2>1. name' \in [Adapter -> Name \cup {NoName}] /\ name'[a] = x
      BY <1>1, <1>2 DEF KernelInv
    <2>2. \A b \in Adapter : name'[b] = NoName <=> b \notin present'
      BY <1>1, <1>2, <1>3, <2>1, PresentNames DEF KernelInv
    <2>3. \A b, d \in present' : name'[b] = name'[d] => b = d
      BY <1>2, <1>3, <2>1 DEF KernelInv
    <2>4. QED
      BY <1>2, <2>1, <2>2, <2>3 DEF KernelInv
  <1>5. ListInv'
    BY <1>2 DEF ListInv, Active
  <1>6. QED
    BY <1>3, <1>4, <1>5

LEMMA UnplugSound ==
  ASSUME Sound, NEW a \in Adapter, Unplug(a)
  PROVE  /\ Sound'
         /\ \A b \in Adapter : b # a =>
              name'[b] = name[b] /\ up'[b] = up[b] /\ rate'[b] = rate[b]
  <1> USE DEF Sound
  <1>1. /\ present' = present \ {a}
        /\ name' = [name EXCEPT ![a] = NoName]
        /\ up' = [up EXCEPT ![a] = FALSE]
        /\ rate' = [rate EXCEPT ![a] = NoRate]
        /\ lost' = (lost \/ a \in Range(list))
        /\ UNCHANGED <<prefix, list, listed, pc, current, i, refused>>
    BY DEF Unplug, local, loop
  <1>2. /\ name' \in [Adapter -> Name \cup {NoName}]
        /\ up' \in [Adapter -> BOOLEAN] /\ rate' \in [Adapter -> Nat]
        /\ ~up'[a]
    BY <1>1 DEF KernelInv, NoRate
  <1>3. \A b \in Adapter : b # a =>
          name'[b] = name[b] /\ up'[b] = up[b] /\ rate'[b] = rate[b]
    BY <1>1 DEF KernelInv
  <1>4. KernelInv'
    BY <1>1, <1>2, <1>3 DEF KernelInv
  <1>5. ListInv'
    BY <1>1 DEF ListInv, Active
  <1>6. QED
    BY <1>3, <1>4, <1>5

(* The ports listed, by any order of the bus.                              *)
LEMMA PortsFacts ==
  ASSUME KernelInv, NEW S \in SUBSET present, NEW ports \in InBusOrder(S)
  PROVE  /\ ports \in Seq(Adapter)
         /\ \A j, k \in 1..Len(ports) : ports[j] = ports[k] => j = k
         /\ NamesOf(ports) \in Seq(Name) /\ Len(NamesOf(ports)) = Len(ports)
  <1> DEFINE n == Cardinality(S)
  <1>1. n \in Nat
    <2>1. IsFiniteSet(Adapter)
      BY ActivateAssumption, FS_Interval DEF Adapter
    <2>2. IsFiniteSet(S)
      BY <2>1, FS_Subset DEF KernelInv
    <2>3. QED
      BY <2>2, FS_CardinalityType
  <1>2. /\ ports \in [1..n -> S]
        /\ \A j, k \in 1..n : j < k => ports[j] < ports[k]
    BY DEF InBusOrder
  <1> HIDE DEF n
  <1>3. ports \in Seq(Adapter) /\ Len(ports) = n /\ DOMAIN ports = 1..n
    <2>1. ports \in [1..n -> Adapter]
      BY <1>2 DEF KernelInv
    <2>2. ports \in Seq(Adapter)
      BY <1>1, <2>1, SeqDef
    <2>3. 1..Len(ports) = 1..n /\ Len(ports) \in Nat
      BY <1>2, <2>2, LenProperties
    <2>4. QED
      BY <1>1, <2>1, <2>2, <2>3
  <1>4. \A j, k \in 1..n : ports[j] = ports[k] => j = k
    <2> SUFFICES ASSUME NEW j \in 1..n, NEW k \in 1..n, ports[j] = ports[k]
                 PROVE  j = k
      OBVIOUS
    <2>1. ports[j] \in Int /\ ports[k] \in Int
      <3>1. ports[j] \in Adapter /\ ports[k] \in Adapter
        BY <1>2 DEF KernelInv
      <3>2. QED
        BY <3>1, ActivateAssumption DEF Adapter
    <2>2. ~(j < k) /\ ~(k < j)
      BY <1>2, <2>1
    <2>3. QED
      BY <1>1, <2>2
  <1>5. NamesOf(ports) \in Seq(Name) /\ Len(NamesOf(ports)) = n
    <2>1. \A k \in 1..n : name[ports[k]] \in Name
      BY <1>2, PresentNames
    <2>2. NamesOf(ports) \in [1..n -> Name]
      BY <1>3, <2>1 DEF NamesOf
    <2>3. QED
      BY <1>1, <2>2
  <1>6. QED
    BY <1>3, <1>4, <1>5

LEMMA BeginSound ==
  ASSUME Sound, ~Active, UNCHANGED <<kernel, loop>>,
         NEW ports \in Seq(Adapter), NEW names \in Seq(Name), Len(names) = Len(ports),
         \A j, k \in 1..Len(ports) : ports[j] = ports[k] => j = k,
         Begin(ports, names), prefix' \in GivenPrefixes, refused' \in BOOLEAN
  PROVE  Sound'
  <1> USE DEF Sound
  <1>1. KernelInv'
    BY DEF KernelInv, kernel
  <1>2. i' = 1 /\ current' = << >> /\ << >> \in Seq(Name) /\ Len(<< >>) = 0
    BY EmptySeq DEF ListInv, loop
  <1>3. /\ list' = ports /\ listed' = names /\ lost' \in BOOLEAN
        /\ pc' = IF ports = << >> THEN "idle" ELSE "stop"
    BY DEF Begin
  <1>4. Len(ports) \in Nat /\ (ports # << >> => Len(ports) >= 1)
    BY LenProperties, EmptySeq
  <1>5. ListInv'
    BY <1>2, <1>3, <1>4 DEF ListInv, Active
  <1>6. QED
    BY <1>1, <1>5

LEMMA ThrowSound ==
  ASSUME Sound, Throw
  PROVE  Sound'
  <1> USE DEF Sound
  <1>1. UNCHANGED <<present, name, up, rate, prefix, list, listed, refused, lost>>
        /\ pc' = "idle" /\ i' = 1 /\ current' = << >>
    BY DEF Throw, Return, kernel, local, history
  <1>2. << >> \in Seq(Name) /\ Len(list) \in Nat
    BY EmptySeq, ListFacts
  <1>3. KernelInv'
    BY <1>1 DEF KernelInv
  <1>4. ListInv'
    BY <1>1, <1>2 DEF ListInv, Active
  <1>5. QED
    BY <1>3, <1>4

LEMMA StopSound ==
  ASSUME Sound, Stop
  PROVE  Sound'
  <1> USE DEF Sound
  <1>1. /\ pc = "stop" /\ pc' = "park"
        /\ UNCHANGED <<present, name, rate, prefix, list, listed, current, i,
                       refused, lost>>
        /\ up' = [a \in Adapter |-> up[a] /\ a \notin Named(listed[i])]
    BY DEF Stop, local, loop, history
  <1>2. up' \in [Adapter -> BOOLEAN] /\ \A a \in Adapter : up'[a] => up[a]
    BY <1>1 DEF KernelInv
  <1>3. KernelInv'
    BY <1>1, <1>2 DEF KernelInv
  <1>4. ListInv'
    BY <1>1 DEF ListInv, Active
  <1>5. QED
    BY <1>3, <1>4

(* The shape of the variables as the first loop passes on.                 *)
LEMMA ParkedSound ==
  ASSUME Sound, pc = "park", NEW x \in Name, Parked(x), refused' \in BOOLEAN
  PROVE  /\ ListInv'
         /\ Len(current') = i /\ current'[i] = x
         /\ \A k \in 1..(i - 1) : current'[k] = current[k]
  <1> USE DEF Sound
  <1>1. UNCHANGED <<present, up, rate, prefix, list, listed, lost>>
    BY DEF Parked, local
  <1>2. i \in 1..Len(list) /\ Len(list) \in Nat
    BY ListFacts DEF ListInv, Active
  <1>3. Len(current) = i - 1 /\ current \in Seq(Name)
    BY DEF ListInv
  <1>4. /\ current' \in Seq(Name) /\ Len(current') = i
        /\ current'[i] = x
        /\ \A k \in 1..(i - 1) : current'[k] = current[k]
    <2>1. current' = Append(current, x)
      BY DEF Parked
    <2>2. /\ Append(current, x) \in Seq(Name)
          /\ Len(Append(current, x)) = Len(current) + 1
          /\ \A k \in 1..Len(current) : Append(current, x)[k] = current[k]
          /\ Append(current, x)[Len(current) + 1] = x
      BY <1>3, AppendProperties
    <2>3. Len(current) + 1 = i
      BY <1>2, <1>3
    <2>4. 1..(i - 1) = 1..Len(current)
      BY <1>3
    <2>5. QED
      BY <2>1, <2>2, <2>3, <2>4
  <1>5. ListInv'
    <2>1. CASE i < Len(list)
      <3>1. i' = i + 1 /\ pc' = "stop"
        BY <2>1 DEF Parked
      <3>2. QED
        BY <1>1, <1>2, <1>4, <2>1, <3>1 DEF ListInv, Active
    <2>2. CASE ~(i < Len(list))
      <3>1. i' = 1 /\ pc' = "assign" /\ i = Len(list)
        BY <1>2, <2>2 DEF Parked
      <3>2. QED
        BY <1>1, <1>2, <1>4, <3>1 DEF ListInv, Active
    <2>3. QED
      BY <2>1, <2>2
  <1>6. QED
    BY <1>4, <1>5

LEMMA ParkSound ==
  ASSUME Sound, Park \/ ParkFails
  PROVE  Sound'
  <1> USE DEF Sound
  <1>1. pc = "park" /\ UNCHANGED <<present, up, rate>>
    BY DEF Park, ParkFails, Parked
  <1>2. listed[i] \in Name
    BY <1>1, ListFacts DEF ListInv, Active
  <1>3. FreeTemporaryName \in Name
    BY TemporaryIsFree
  <1>4. refused \in BOOLEAN
    BY DEF ListInv
  <1>5. refused' \in BOOLEAN
    <2>1. MayRename(listed[i], FreeTemporaryName) \in BOOLEAN
      BY DEF MayRename
    <2>2. QED
      BY <1>4, <2>1 DEF Park, ParkFails
  <1>6. ListInv'
    BY <1>1, <1>2, <1>3, <1>5, ParkedSound DEF Park, ParkFails
  <1>7. KernelInv'
    <2>1. CASE name' = name
      BY <1>1, <2>1 DEF KernelInv
    <2>2. CASE /\ MayRename(listed[i], FreeTemporaryName)
               /\ RenameInterface(listed[i], FreeTemporaryName)
      BY <1>1, <1>3, <2>2, KernelRename
    <2>3. QED
      BY <2>1, <2>2 DEF Park, ParkFails
  <1>8. QED
    BY <1>6, <1>7

LEMMA AssignSound ==
  ASSUME Sound, Assign \/ AssignFails
  PROVE  Sound'
  <1> USE DEF Sound
  <1>1. /\ pc = "assign" /\ pc' = "bitrate"
        /\ UNCHANGED <<present, up, rate, prefix, list, listed, current, i, lost>>
    <2>1. CASE Assign
      BY <2>1 DEF Assign, local, history
    <2>2. CASE AssignFails
      BY <2>2 DEF AssignFails, local, kernel
    <2>3. QED
      BY <2>1, <2>2
  <1>2. Targets[i] \in Name
    <2>1. i \in 1..Len(list)
      BY <1>1, ListFacts DEF ListInv, Active
    <2>2. QED
      BY <2>1, ListFacts
  <1>3. refused' \in BOOLEAN
    <2>1. refused \in BOOLEAN
      BY DEF ListInv
    <2>2. CASE Assign
      BY <2>1, <2>2 DEF Assign, history
    <2>3. CASE AssignFails
      <3>1. MayRename(current[i], Targets[i]) \in BOOLEAN
        BY DEF MayRename
      <3>2. (Named(Targets[i]) \ Range(list) # {}) \in BOOLEAN
        OBVIOUS
      <3>3. QED
        BY <2>1, <2>3, <3>1, <3>2 DEF AssignFails
    <2>4. QED
      BY <2>2, <2>3
  <1>4. ListInv'
    BY <1>1, <1>3 DEF ListInv, Active
  <1>5. KernelInv'
    <2>1. CASE name' = name
      BY <1>1, <2>1 DEF KernelInv
    <2>2. CASE MayRename(current[i], Targets[i]) /\ RenameInterface(current[i], Targets[i])
      BY <1>1, <1>2, <2>2, KernelRename
    <2>3. QED
      BY <2>1, <2>2 DEF Assign, AssignFails, kernel
  <1>6. QED
    BY <1>4, <1>5

LEMMA SetBitrateSound ==
  ASSUME Sound, SetBitrate
  PROVE  Sound'
  <1> USE DEF Sound
  <1>1. /\ pc = "bitrate" /\ pc' = "start"
        /\ UNCHANGED <<present, name, up, prefix, list, listed, current, i,
                       refused, lost>>
        /\ rate' = [a \in Adapter |-> IF a \in Named(ifname) THEN Bitrate ELSE rate[a]]
    BY DEF SetBitrate, local, loop, history
  <1>2. Bitrate \in Nat /\ Bitrate # NoRate
    BY SMT DEF Bitrate, NoRate
  <1>3. rate' \in [Adapter -> Nat] /\ \A a \in Adapter : rate[a] # NoRate => rate'[a] # NoRate
    BY <1>1, <1>2 DEF KernelInv
  <1>4. KernelInv'
    BY <1>1, <1>3 DEF KernelInv
  <1>5. ListInv'
    BY <1>1 DEF ListInv, Active
  <1>6. QED
    BY <1>4, <1>5

LEMMA StartSound ==
  ASSUME Sound, Start
  PROVE  Sound'
  <1> USE DEF Sound
  <1>1. /\ pc = "start"
        /\ UNCHANGED <<present, name, rate, prefix, list, listed, refused, lost>>
        /\ up' = [a \in Adapter |-> up[a] \/ a \in Named(ifname)]
    BY DEF Start, local, history
  <1>2. up' \in [Adapter -> BOOLEAN]
    BY <1>1 DEF KernelInv
  <1>3. PICK a \in Named(ifname) : rate[a] # NoRate
    BY DEF Start, GetInterfaceBitrate
  <1>4. \A b \in Named(ifname) : b = a /\ b \in present
    BY <1>3 DEF Named, KernelInv
  <1>5. \A b \in Adapter : up'[b] => b \in present /\ rate[b] # NoRate
    BY <1>1, <1>3, <1>4 DEF KernelInv
  <1>6. KernelInv'
    BY <1>1, <1>2, <1>5 DEF KernelInv
  <1>7. i \in 1..Len(list) /\ Len(list) \in Nat /\ << >> \in Seq(Name)
    BY <1>1, ListFacts, EmptySeq DEF ListInv, Active
  <1>8. ListInv'
    <2>1. CASE i < Len(list)
      <3>1. pc' = "assign" /\ i' = i + 1 /\ current' = current
        BY <2>1 DEF Start
      <3>2. QED
        BY <1>1, <1>7, <2>1, <3>1 DEF ListInv, Active
    <2>2. CASE ~(i < Len(list))
      <3>1. pc' = "idle" /\ i' = 1 /\ current' = << >>
        BY <2>2 DEF Start, Return
      <3>2. QED
        BY <1>1, <1>7, <3>1 DEF ListInv, Active
    <2>3. QED
      BY <2>1, <2>2
  <1>9. QED
    BY <1>6, <1>8

LEMMA InitSound == Init => Sound
  <1> SUFFICES ASSUME Init PROVE Sound
    OBVIOUS
  <1>1. << >> \in Seq(Adapter) /\ << >> \in Seq(Name) /\ Len(<< >>) = 0
    BY EmptySeq
  <1>2. name \in [Adapter -> Name \cup {NoName}]
    <2>1. Adapters \in Nat
      BY ActivateAssumption
    <2>2. {NoName} \cup [prefix : {"can"}, n : 0..(Adapters - 1)] \subseteq Name \cup {NoName}
      BY <2>1 DEF Name
    <2>3. QED
      BY <2>2 DEF Init
  <1>3. rate \in [Adapter -> Nat] /\ \A a \in Adapter : up[a] => rate[a] # NoRate
    BY DEF Init, OldRate, NoRate
  <1>4. KernelInv
    BY <1>2, <1>3 DEF KernelInv, Init
  <1>5. ListInv
    <2>1. /\ list = << >> /\ listed = << >> /\ current = << >> /\ i = 1
          /\ pc = "idle" /\ prefix \in GivenPrefixes /\ refused = FALSE /\ lost = FALSE
      BY DEF Init
    <2>2. Len(list) = 0 /\ Len(listed) = 0
      BY <1>1, <2>1
    <2>3. list \in Seq(Adapter) /\ listed \in Seq(Name) /\ current \in Seq(Name)
      BY <1>1, <2>1
    <2>4. i \in 1..(Len(list) + 1) /\ 1..Len(list) = {}
      BY <2>1, <2>2
    <2>5. QED
      BY <2>1, <2>2, <2>3, <2>4 DEF ListInv, Active
  <1>6. QED
    BY <1>4, <1>5 DEF Sound

LEMMA NextSound ==
  ASSUME Sound, [Next]_vars
  PROVE  Sound'
  <1>1. CASE \E a \in Adapter : Plug(a) \/ Unplug(a)
    BY <1>1, PlugSound, UnplugSound
  <1>2. CASE Call
    <2>1. /\ ~Active /\ UNCHANGED <<kernel, loop>>
          /\ prefix' \in GivenPrefixes /\ refused' \in BOOLEAN
      BY <1>2 DEF Call, Active
    <2>2. CASE \E S \in SUBSET present : \E ports \in InBusOrder(S) : Begin(ports, NamesOf(ports))
      BY <2>1, <2>2, PortsFacts, BeginSound DEF Sound
    <2>3. CASE Begin(list, listed)
      BY <2>1, <2>3, BeginSound DEF Sound, ListInv
    <2>4. QED
      BY <1>2, <2>2, <2>3 DEF Call, FindPorts
  <1>3. CASE CallWaiting
    <2>1. /\ UNCHANGED <<present, name, up, rate, current, i>> /\ prefix' \in GivenPrefixes
          /\ list' = << >> /\ listed' = << >> /\ pc = "idle" /\ pc' = "wait"
          /\ refused' = FALSE /\ lost' = FALSE
      BY <1>3 DEF CallWaiting, kernel, loop
    <2>2. << >> \in Seq(Adapter) /\ << >> \in Seq(Name) /\ Len(<< >>) = 0
      BY EmptySeq
    <2>3. KernelInv'
      BY <2>1 DEF Sound, KernelInv
    <2>4. Len(list') = 0 /\ 1..Len(list') = {} /\ i = 1 /\ current = << >>
      BY <2>1, <2>2 DEF Sound, ListInv, Active
    <2>5. i' \in 1..(Len(list') + 1)
      BY <2>1, <2>4
    <2>6. ListInv'
      BY <2>1, <2>2, <2>4, <2>5 DEF ListInv, Active
    <2>7. QED
      BY <2>3, <2>6 DEF Sound
  <1>4. CASE Found
    <2>1. /\ ~Active /\ UNCHANGED <<kernel, loop>> /\ UNCHANGED <<prefix, refused>>
      BY <1>4 DEF Found, Active
    <2>2. prefix' \in GivenPrefixes /\ refused' \in BOOLEAN
      BY <2>1 DEF Sound, ListInv
    <2>3. PICK ports \in InBusOrder(present) : Begin(ports, NamesOf(ports))
      BY <1>4 DEF Found, FindPorts
    <2>4. QED
      BY <2>1, <2>2, <2>3, PortsFacts, BeginSound DEF Sound
  <1>5. CASE TimedOut \/ StopFails \/ SetBitrateFails \/ StartFails
    BY <1>5, ThrowSound DEF TimedOut, StopFails, SetBitrateFails, StartFails
  <1>6. CASE Stop
    BY <1>6, StopSound
  <1>7. CASE Park \/ ParkFails
    BY <1>7, ParkSound
  <1>8. CASE Assign \/ AssignFails
    BY <1>8, AssignSound
  <1>9. CASE SetBitrate
    BY <1>9, SetBitrateSound
  <1>10. CASE Start
    BY <1>10, StartSound
  <1>11. CASE UNCHANGED vars
    <2>1. UNCHANGED <<present, name, up, rate, prefix, list, listed, pc, current,
                      i, refused, lost>>
      BY <1>11 DEF vars, kernel, local, loop, history
    <2>2. QED
      BY <2>1 DEF Sound, KernelInv, ListInv, Active
  <1>12. QED
    BY <1>1, <1>2, <1>3, <1>4, <1>5, <1>6, <1>7, <1>8, <1>9, <1>10, <1>11 DEF Next

-----------------------------------------------------------------------------
(* Sure: what the steps keep as long as the names are right, one lemma for *)
(* each that does more than pass on.                                       *)

LEMMA PlugSure ==
  ASSUME Sound, Sure, NEW a \in Adapter, Plug(a)
  PROVE  Sure'
  <1> USE DEF Sound, Sure
  <1>1. /\ present' = present \cup {a}
        /\ UNCHANGED <<up, rate, prefix, list, listed, pc, current, ifname, i, outcome,
                       refused>>
    BY DEF Plug, local, loop, history
  <1>2. Targets' = Targets /\ \A k \in 1..Len(list) : At(k)' = At(k)
    BY <1>1, PlugSound DEF Targets, At, HereInv
  <1>3. \A k \in 1..Len(list) : /\ Clear(k) => Clear(k)'
                                /\ InPlace(k) => InPlace(k)'
                                /\ Started(k) => Started(k)'
    BY <1>1, <1>2 DEF Clear, InPlace, Started
  <1>4. HereInv' /\ DoneInv'
    BY <1>1, <1>3 DEF HereInv, DoneInv
  <1>5. ParkInv'
    BY <1>1, <1>2, <1>3 DEF ParkInv
  <1>6. PlaceInv'
    <2>1. pc \in {"assign", "bitrate", "start"} => i \in 1..Len(list)
      BY ListFacts DEF ListInv, Active
    <2>2. QED
      BY <1>1, <1>2, <1>3, <2>1 DEF PlaceInv
  <1>7. QED
    BY <1>4, <1>5, <1>6

LEMMA UnplugSure ==
  ASSUME Sound, Sure, NEW a \in Adapter, Unplug(a), ~lost'
  PROVE  Sure'
  <1> USE DEF Sound, Sure
  <1>1. /\ present' = present \ {a} /\ a \notin Range(list)
        /\ UNCHANGED <<prefix, list, listed, pc, current, ifname, i, outcome, refused>>
    BY DEF Unplug, local, loop
  <1>2. \A k \in 1..Len(list) : list[k] # a /\ list[k] \in Adapter
    BY <1>1, ListFacts
  <1>3. Targets' = Targets
    BY <1>1 DEF Targets
  <1>4. \A k \in 1..Len(list) : /\ At(k)' = At(k)
                                /\ up'[list'[k]] = up[list[k]]
                                /\ rate'[list'[k]] = rate[list[k]]
    BY <1>1, <1>2, UnplugSound DEF At
  <1>5. \A k \in 1..Len(list) : /\ Clear(k) => Clear(k)'
                                /\ InPlace(k) => InPlace(k)'
                                /\ Started(k) => Started(k)'
    BY <1>1, <1>3, <1>4 DEF Clear, InPlace, Started
  <1>6. HereInv' /\ DoneInv'
    BY <1>1, <1>2, <1>5 DEF HereInv, DoneInv
  <1>7. Active => i \in 1..Len(list)
    BY ListFacts DEF ListInv
  <1>8. ParkInv'
    BY <1>1, <1>4, <1>5, <1>7 DEF ParkInv, Active
  <1>9. PlaceInv'
    BY <1>1, <1>4, <1>5, <1>7 DEF PlaceInv, Active
  <1>10. QED
    BY <1>6, <1>8, <1>9

(* The two loops start with every name as it was found.                    *)
LEMMA BeginSure ==
  ASSUME Sound, Sound', NEW ports \in Seq(Adapter), NEW names \in Seq(Name),
         Len(names) = Len(ports), Begin(ports, names), ~lost', UNCHANGED kernel, i' = 1
  PROVE  Sure'
  <1> USE DEF Sound, Sure
  <1>1. /\ list' = ports /\ listed' = names
        /\ pc' = IF ports = << >> THEN "idle" ELSE "stop"
    BY DEF Begin
  <1>2. UNCHANGED <<present, name>>
    BY DEF kernel
  <1>3. Len(ports) \in Nat /\ DOMAIN ports = 1..Len(ports)
    BY LenProperties
  <1>4. \A k \in 1..Len(ports) : name[ports[k]] = names[k]
    BY <1>3 DEF Begin
  <1>5. \A k \in 1..Len(ports) : ports[k] \in Adapter /\ names[k] \in Name
    BY ElementOfSeq
  <1>6. HereInv'
    BY <1>1, <1>2, <1>4, <1>5, PresentNames DEF HereInv
  <1>7. ParkInv'
    <2>1. \A k \in 1..Len(ports) : At(k)' = listed'[k]
      BY <1>1, <1>2, <1>4 DEF At
    <2>2. \A k \in 1..Len(ports) : k >= 1 /\ ~(k < 1)
      BY <1>3
    <2>3. QED
      BY <1>1, <2>1, <2>2 DEF ParkInv
  <1>8. PlaceInv'
    BY <1>1 DEF PlaceInv
  <1>9. DoneInv'
    <2>1. ASSUME pc' = "idle" PROVE 1..Len(list') = {}
      BY <1>1, <2>1, EmptySeq
    <2>2. QED
      BY <2>1 DEF DoneInv
  <1>10. QED
    BY <1>6, <1>7, <1>8, <1>9

LEMMA ThrowSure ==
  ASSUME Sure, Throw
  PROVE  Sure'
  <1>1. UNCHANGED <<present, list>> /\ pc' = "idle" /\ outcome' = "thrown"
    BY DEF Throw, Return, kernel, local
  <1>2. QED
    BY <1>1 DEF Sure, HereInv, ParkInv, PlaceInv, DoneInv

(* The adapter at hand, and the others in the list.                        *)
LEMMA AtHand ==
  ASSUME Sound, Sure, Active
  PROVE  /\ i \in 1..Len(list) /\ Len(list) \in Nat
         /\ list[i] \in present /\ list[i] \in Adapter
         /\ Named(At(i)) = {list[i]} /\ At(i) \in Name
         /\ \A k \in 1..Len(list) : list[k] \in present /\ list[k] \in Adapter
         /\ \A k \in 1..Len(list) : k # i => list[k] # list[i]
  <1> USE DEF Sound, Sure
  <1>1. i \in 1..Len(list) /\ Len(list) \in Nat
    BY ListFacts DEF ListInv
  <1>2. \A k \in 1..Len(list) : list[k] \in present /\ list[k] \in Adapter
    BY ListFacts DEF HereInv
  <1>3. Named(At(i)) = {list[i]} /\ At(i) \in Name
    BY <1>1, <1>2, OwnName, PresentNames DEF At
  <1>4. \A k \in 1..Len(list) : k # i => list[k] # list[i]
    BY <1>1 DEF ListInv
  <1>5. QED
    BY <1>1, <1>2, <1>3, <1>4

(* What a step leaves to the others when it changes the adapter at hand.   *)
LEMMA OthersKeep ==
  ASSUME Sound, Sure, Active, UNCHANGED <<present, prefix, list>>, refused => refused',
         \A a \in Adapter : a # list[i] =>
           name'[a] = name[a] /\ up'[a] = up[a] /\ rate'[a] = rate[a]
  PROVE  /\ Targets' = Targets /\ HereInv'
         /\ \A k \in 1..Len(list) : k # i =>
              /\ At(k)' = At(k)
              /\ up'[list'[k]] = up[list[k]]
              /\ Clear(k) => Clear(k)'
              /\ InPlace(k) => InPlace(k)'
              /\ Started(k) => Started(k)'
  <1> USE DEF Sound, Sure
  <1>1. Targets' = Targets /\ HereInv'
    BY DEF Targets, HereInv
  <1>2. ASSUME NEW k \in 1..Len(list), k # i
        PROVE  /\ At(k)' = At(k)
               /\ up'[list'[k]] = up[list[k]]
               /\ Clear(k) => Clear(k)'
               /\ InPlace(k) => InPlace(k)'
               /\ Started(k) => Started(k)'
    <2>1. list[k] \in Adapter /\ list[k] # list[i]
      BY <1>2, AtHand
    <2>2. /\ name'[list[k]] = name[list[k]]
          /\ up'[list[k]] = up[list[k]]
          /\ rate'[list[k]] = rate[list[k]]
      BY <2>1
    <2>3. At(k)' = At(k)
      BY <2>2 DEF At
    <2>4. QED
      BY <1>1, <2>2, <2>3 DEF Clear, InPlace, Started
  <1>3. QED
    BY <1>1, <1>2

LEMMA StopSure ==
  ASSUME Sound, Sure, Stop
  PROVE  Sure'
  <1> USE DEF Sound, Sure
  <1>1. /\ pc = "stop" /\ pc' = "park"
        /\ UNCHANGED <<present, name, rate, prefix, list, listed, current, i, refused>>
        /\ up' = [a \in Adapter |-> up[a] /\ a \notin Named(listed[i])]
    BY DEF Stop, local, loop, history
  <1>2. i \in 1..Len(list) /\ list[i] \in Adapter /\ Named(At(i)) = {list[i]}
    BY <1>1, AtHand DEF Active
  <1>3. At(i) = listed[i]
    BY <1>1, <1>2, ListFacts DEF ParkInv
  <1>4. ~up'[list[i]] /\ \A a \in Adapter : ~up[a] => ~up'[a]
    BY <1>1, <1>2, <1>3 DEF KernelInv
  <1>5. Targets' = Targets /\ HereInv' /\ \A k \in 1..Len(list) : At(k)' = At(k)
    BY <1>1 DEF Targets, At, HereInv
  <1>6. \A k \in 1..Len(list) : Clear(k) => Clear(k)'
    BY <1>1, <1>5 DEF Clear
  <1>7. \A k \in 1..Len(list) : list[k] \in Adapter
    BY ListFacts
  <1>8. ParkInv'
    BY <1>1, <1>4, <1>5, <1>6, <1>7 DEF ParkInv
  <1>9. QED
    BY <1>1, <1>5, <1>8 DEF PlaceInv, DoneInv

(* An adapter is parked: as long as the others keep their names, it is out *)
(* of their way.                                                           *)
LEMMA ParkedSure ==
  ASSUME Sound, Sure, pc = "park", NEW x \in Name, Parked(x),
         refused' \in BOOLEAN, refused => refused',
         \A k \in 1..Len(list) :
           IF k = i THEN At(k)' = x /\ Clear(k)' ELSE At(k)' = At(k)
  PROVE  Sure'
  <1> USE DEF Sound, Sure
  <1>1. UNCHANGED <<present, up, rate, prefix, list, listed>>
    BY DEF Parked, local
  <1>2. i \in 1..Len(list) /\ Len(list) \in Nat
    BY ListFacts DEF ListInv, Active
  <1>3. /\ \A k \in 1..Len(list) :
             /\ k >= i => At(k) = listed[k]
             /\ k < i => current[k] = At(k) /\ Clear(k) /\ ~up[list[k]]
        /\ ~up[list[i]]
    BY DEF ParkInv
  <1>4. current'[i] = x /\ \A k \in 1..(i - 1) : current'[k] = current[k]
    BY ParkedSound
  <1>5. Targets' = Targets /\ HereInv'
    BY <1>1 DEF Targets, HereInv
  <1>6. \A k \in 1..Len(list) :
          k <= i => current'[k] = At(k)' /\ Clear(k)' /\ ~up'[list'[k]]
    <2> SUFFICES ASSUME NEW k \in 1..Len(list), k <= i
                 PROVE  current'[k] = At(k)' /\ Clear(k)' /\ ~up'[list'[k]]
      OBVIOUS
    <2>1. CASE k = i
      BY <1>1, <1>3, <1>4, <2>1
    <2>2. CASE k < i
      <3>1. At(k)' = At(k) /\ current'[k] = current[k]
        BY <1>2, <1>4, <2>2
      <3>2. Clear(k)'
        BY <1>3, <1>5, <2>2, <3>1 DEF Clear
      <3>3. QED
        BY <1>1, <1>3, <2>2, <3>1, <3>2
    <2>3. QED
      BY <1>2, <2>1, <2>2
  <1>7. CASE i < Len(list)
    <2>1. i' = i + 1 /\ pc' = "stop"
      BY <1>7 DEF Parked
    <2>2. \A k \in 1..Len(list) :
            /\ k >= i + 1 => At(k)' = listed[k]
            /\ k < i + 1 => k <= i
      BY <1>2, <1>3
    <2>3. ParkInv'
      BY <1>1, <1>2, <1>6, <2>1, <2>2 DEF ParkInv
    <2>4. QED
      BY <1>5, <2>1, <2>3 DEF PlaceInv, DoneInv
  <1>8. CASE ~(i < Len(list))
    <2>1. i' = 1 /\ pc' = "assign" /\ i = Len(list)
      BY <1>2, <1>8 DEF Parked
    <2>2. \A k \in 1..Len(list) : k <= i /\ ~(k < 1)
      BY <1>2, <2>1
    <2>3. 1 \in 1..Len(list)
      BY <1>2, <2>1
    <2>4. \A k \in 1..Len(list) : current'[k] = At(k)' /\ Clear(k)' /\ ~up'[list'[k]]
      BY <1>6, <2>2
    <2>5. current'[1] = At(1)' /\ Clear(1)' /\ ~up'[list'[1]]
      BY <2>3, <2>4
    <2>6. PlaceInv'
      <3>1. \A k \in 1..Len(list') :
              /\ ~(k < i')
              /\ current'[k] = At(k)' /\ Clear(k)' /\ ~up'[list'[k]]
        BY <1>1, <2>1, <2>2, <2>4
      <3>2. QED
        BY <2>1, <2>5, <3>1 DEF PlaceInv
    <2>7. QED
      BY <1>5, <2>1, <2>6 DEF ParkInv, DoneInv
  <1>9. QED
    BY <1>7, <1>8

LEMMA ParkSure ==
  ASSUME Sound, Sure, Park
  PROVE  Sure'
  <1> USE DEF Sound, Sure
  <1>0. pc = "park" /\ Active
    BY DEF Park, Active
  <1>1. UNCHANGED <<present, up, rate, prefix, list, refused>>
    BY DEF Park, Parked, local
  <1>2. At(i) = listed[i]
    BY <1>0, AtHand DEF ParkInv
  <1>3. /\ Named(listed[i]) = {list[i]} /\ listed[i] \in Name /\ i \in 1..Len(list)
        /\ list[i] \in present
    BY <1>0, <1>2, AtHand
  <1>4. refused \in BOOLEAN /\ Targets' = Targets
    BY <1>1 DEF ListInv, Targets
  <1>5. CASE listed[i] = Targets[i]
    <2>1. Parked(listed[i]) /\ name' = name
      BY <1>5 DEF Park
    <2>2. \A k \in 1..Len(list) : At(k)' = At(k)
      BY <1>1, <2>1 DEF At
    <2>3. \A k \in 1..Len(list) : k = i => At(k)' = listed[i] /\ Clear(k)'
      BY <1>2, <1>4, <1>5, <2>2 DEF Clear
    <2>4. QED
      BY <1>0, <1>1, <1>3, <1>4, <2>1, <2>2, <2>3, ParkedSure
  <1>6. CASE listed[i] # Targets[i]
    <2> DEFINE tmp == FreeTemporaryName
    <2>1. Parked(tmp) /\ RenameInterface(listed[i], tmp)
      BY <1>6 DEF Park
    <2>2. tmp \in Name /\ Named(tmp) = {} /\ tmp \notin Range(Targets)
      BY TemporaryIsFree
    <2> HIDE DEF tmp
    <2>3. listed[i] = name[list[i]]
      BY <1>2 DEF At
    <2>4. /\ name'[list[i]] = tmp
          /\ \A b \in Adapter : b # list[i] => name'[b] = name[b]
      BY <1>1, <1>3, <2>1, <2>2, <2>3, RenameOne
    <2>5. \A k \in 1..Len(list) : k # i => At(k)' = At(k)
      BY <1>0, <1>1, <2>4, OthersKeep
    <2>6. \A k \in 1..Len(list) : k = i => At(k)' = tmp /\ Clear(k)'
      BY <1>1, <1>4, <2>2, <2>4 DEF At, Clear
    <2>7. QED
      BY <1>0, <1>1, <1>4, <2>1, <2>2, <2>5, <2>6, ParkedSure
  <1>7. QED
    BY <1>5, <1>6

LEMMA ParkFailsSure ==
  ASSUME Sound, Sure, ParkFails
  PROVE  Sure'
  <1> USE DEF Sound, Sure
  <1>0. pc = "park" /\ Active
    BY DEF ParkFails, Active
  <1>1. Parked(listed[i]) /\ UNCHANGED <<list, name>>
    BY DEF ParkFails, Parked, local
  <1>2. At(i) = listed[i] /\ ~up[list[i]]
    BY <1>0, AtHand DEF ParkInv
  <1>3. Named(listed[i]) = {list[i]} /\ listed[i] \in Name /\ i \in 1..Len(list)
    BY <1>0, <1>2, AtHand
  <1>4. MayRename(listed[i], FreeTemporaryName)
    BY <1>2, <1>3, TemporaryIsFree DEF MayRename, InterfaceIsUp
  <1>5. refused' = TRUE
    BY <1>4 DEF ParkFails
  <1>6. \A k \in 1..Len(list) : At(k)' = At(k) /\ Clear(k)'
    BY <1>1, <1>5 DEF At, Clear
  <1>7. QED
    BY <1>0, <1>1, <1>2, <1>3, <1>5, <1>6, ParkedSure

(* What the second loop has of the adapter at hand and the rest.           *)
LEMMA PlaceFacts ==
  ASSUME Sure, pc \in {"assign", "bitrate", "start"}
  PROVE  /\ Active /\ ~up[list[i]]
         /\ \A k \in 1..Len(list) :
              /\ k < i => Started(k) /\ InPlace(k)
              /\ k > i => current[k] = At(k) /\ Clear(k) /\ ~up[list[k]]
  BY DEF Sure, PlaceInv, Active

(* The adapter at hand has its final name, or cannot have it.              *)
LEMMA NamedSure ==
  ASSUME Sound, Sure, pc = "assign", pc' = "bitrate",
         UNCHANGED <<present, up, rate, local, current, i>>, refused => refused',
         \A a \in Adapter : a # list[i] => name'[a] = name[a],
         ifname' = name'[list[i]], refused' \/ name'[list[i]] = Targets[i]
  PROVE  Sure'
  <1> USE DEF Sound, Sure
  <1>1. UNCHANGED <<prefix, list, listed>>
    BY DEF local
  <1>2. /\ Active /\ ~up[list[i]]
        /\ \A k \in 1..Len(list) :
             /\ k < i => Started(k) /\ InPlace(k)
             /\ k > i => current[k] = At(k) /\ Clear(k) /\ ~up[list[k]]
    BY PlaceFacts
  <1>3. i \in 1..Len(list) /\ Len(list) \in Nat
    BY <1>2, AtHand
  <1>4. /\ Targets' = Targets /\ HereInv'
        /\ \A k \in 1..Len(list) : k # i =>
             /\ At(k)' = At(k)
             /\ Clear(k) => Clear(k)'
             /\ InPlace(k) => InPlace(k)'
             /\ Started(k) => Started(k)'
    BY <1>1, <1>2, OthersKeep
  <1>5. \A k \in 1..Len(list) :
          /\ k < i => Started(k)' /\ InPlace(k)'
          /\ k > i => current[k] = At(k)' /\ Clear(k)' /\ ~up[list[k]]
    BY <1>2, <1>3, <1>4
  <1>6. \A k \in 1..Len(list) : k = i => ifname' = At(k)' /\ InPlace(k)'
    BY <1>1, <1>4 DEF At, InPlace
  <1>7. ifname' = At(i)' /\ InPlace(i)'
    BY <1>3, <1>6
  <1>8. PlaceInv'
    BY <1>1, <1>2, <1>5, <1>7 DEF PlaceInv
  <1>9. QED
    BY <1>4, <1>8 DEF ParkInv, DoneInv

LEMMA AssignSure ==
  ASSUME Sound, Sure, Assign
  PROVE  Sure'
  <1> USE DEF Sound, Sure
  <1>0. pc = "assign" /\ Active
    BY DEF Assign, Active
  <1>1. /\ UNCHANGED <<present, up, rate, local, current, i, refused>>
        /\ pc' = "bitrate" /\ ifname' = Targets[i]
    BY DEF Assign, history
  <1>2. At(i) = current[i]
    BY <1>0 DEF PlaceInv
  <1>3. i \in 1..Len(list) /\ list[i] \in present
    BY <1>0, AtHand
  <1>4. CASE current[i] = Targets[i]
    <2>1. name' = name
      BY <1>4 DEF Assign
    <2>2. name'[list[i]] = Targets[i]
      BY <1>2, <1>4, <2>1 DEF At
    <2>3. QED
      BY <1>0, <1>1, <2>1, <2>2, NamedSure
  <1>5. CASE current[i] # Targets[i]
    <2>1. Named(Targets[i]) = {} /\ RenameInterface(current[i], Targets[i])
      BY <1>5 DEF Assign, MayRename
    <2>2. Targets[i] \in Name
      BY <1>3, ListFacts
    <2>3. current[i] = name[list[i]]
      BY <1>2 DEF At
    <2>4. /\ name'[list[i]] = Targets[i]
          /\ \A b \in Adapter : b # list[i] => name'[b] = name[b]
      BY <1>1, <1>3, <2>1, <2>2, <2>3, RenameOne
    <2>5. QED
      BY <1>0, <1>1, <2>4, NamedSure
  <1>6. QED
    BY <1>4, <1>5

(* A name that is not free although nobody in the list is in the way is    *)
(* held by an adapter that is not in the list.                             *)
LEMMA HolderIsOutside ==
  ASSUME Sound, Sure, pc = "assign", current[i] # Targets[i], Named(Targets[i]) # {},
         ~refused
  PROVE  Named(Targets[i]) \ Range(list) # {}
  <1> USE DEF Sound, Sure
  <1>1. Active
    BY DEF Active
  <1>2. PICK b \in present : name[b] = Targets[i]
    BY DEF Named
  <1>3. i \in 1..Len(list) /\ Len(list) \in Nat
    BY <1>1, AtHand
  <1>4. Targets[i] \in Range(Targets)
    BY <1>3, ListFacts
  <1>5. CASE b \notin Range(list)
    BY <1>2, <1>5 DEF Named
  <1>6. CASE b \in Range(list)
    <2>1. PICK k \in 1..Len(list) : b = list[k]
      BY <1>6, ListFacts
    <2>2. At(k) = Targets[i]
      BY <1>2, <2>1 DEF At
    <2>3. k # i
      BY <2>2 DEF PlaceInv
    <2>4. Targets[k] # Targets[i]
      BY <1>3, <2>3, ListFacts
    <2>5. CASE k < i
      <3>1. InPlace(k)
        BY <2>5, PlaceFacts
      <3>2. QED
        BY <2>2, <2>4, <3>1 DEF InPlace
    <2>6. CASE k > i
      <3>1. Clear(k)
        BY <2>6, PlaceFacts
      <3>2. QED
        BY <1>4, <2>2, <2>4, <3>1 DEF Clear
    <2>7. QED
      BY <1>3, <2>3, <2>5, <2>6
  <1>7. QED
    BY <1>5, <1>6

LEMMA AssignFailsSure ==
  ASSUME Sound, Sure, AssignFails
  PROVE  Sure'
  <1> USE DEF Sound, Sure
  <1>0. pc = "assign" /\ Active
    BY DEF AssignFails, Active
  <1>1. /\ UNCHANGED <<kernel, local, current, i>>
        /\ pc' = "bitrate" /\ ifname' = current[i] /\ current[i] # Targets[i]
        /\ refused' = (refused \/ MayRename(current[i], Targets[i])
                               \/ Named(Targets[i]) \ Range(list) # {})
    BY DEF AssignFails
  <1>2. UNCHANGED <<present, name, up, rate>>
    BY <1>1 DEF kernel
  <1>3. At(i) = current[i] /\ ~up[list[i]]
    BY <1>0 DEF PlaceInv
  <1>4. Named(current[i]) = {list[i]}
    BY <1>0, <1>3, AtHand
  <1>5. refused'
    <2> SUFFICES ASSUME ~refused' PROVE FALSE
      OBVIOUS
    <2>1. ~refused /\ ~MayRename(current[i], Targets[i]) /\ Named(Targets[i]) \ Range(list) = {}
      BY <1>1
    <2>2. Named(Targets[i]) # {}
      BY <1>3, <1>4, <2>1 DEF MayRename, InterfaceIsUp
    <2>3. QED
      BY <1>0, <1>1, <2>1, <2>2, HolderIsOutside
  <1>6. ifname' = name'[list[i]]
    BY <1>1, <1>2, <1>3 DEF At
  <1>7. QED
    BY <1>0, <1>1, <1>2, <1>5, <1>6, NamedSure

LEMMA SetBitrateSure ==
  ASSUME Sound, Sure, SetBitrate
  PROVE  Sure'
  <1> USE DEF Sound, Sure
  <1>0. pc = "bitrate" /\ Active
    BY DEF SetBitrate, Active
  <1>1. /\ UNCHANGED <<present, name, up, prefix, list, listed, current, ifname, i, refused>>
        /\ pc' = "start"
    BY DEF SetBitrate, local, loop, history
  <1>2. Named(ifname) = {list[i]} /\ i \in 1..Len(list) /\ list[i] \in Adapter
        /\ Len(list) \in Nat
    BY <1>0, AtHand DEF PlaceInv
  <1>3. rate' = [a \in Adapter |-> IF a = list[i] THEN Bitrate ELSE rate[a]]
    BY <1>2 DEF SetBitrate
  <1>4. /\ rate'[list[i]] = Bitrate
        /\ \A a \in Adapter : a # list[i] => rate'[a] = rate[a]
    BY <1>2, <1>3
  <1>5. /\ Targets' = Targets /\ HereInv'
        /\ \A k \in 1..Len(list) : k # i =>
             /\ At(k)' = At(k)
             /\ Clear(k) => Clear(k)'
             /\ InPlace(k) => InPlace(k)'
             /\ Started(k) => Started(k)'
    BY <1>0, <1>1, <1>4, OthersKeep
  <1>6. /\ ~up[list[i]]
        /\ \A k \in 1..Len(list) :
             /\ k < i => Started(k) /\ InPlace(k)
             /\ k > i => current[k] = At(k) /\ Clear(k) /\ ~up[list[k]]
    BY <1>0, PlaceFacts
  <1>7. \A k \in 1..Len(list) :
          /\ k < i => Started(k)' /\ InPlace(k)'
          /\ k > i => current[k] = At(k)' /\ Clear(k)' /\ ~up[list[k]]
    BY <1>2, <1>5, <1>6
  <1>8. ifname' = At(i)' /\ InPlace(i)'
    <2>1. ifname = At(i) /\ InPlace(i)
      BY <1>0 DEF PlaceInv
    <2>2. At(i)' = At(i)
      BY <1>1 DEF At
    <2>3. QED
      BY <1>1, <1>5, <2>1, <2>2 DEF InPlace
  <1>9. PlaceInv'
    BY <1>1, <1>4, <1>6, <1>7, <1>8 DEF PlaceInv
  <1>10. QED
    BY <1>1, <1>5, <1>9 DEF ParkInv, DoneInv

LEMMA StartSure ==
  ASSUME Sound, Sure, Start
  PROVE  Sure'
  <1> USE DEF Sound, Sure
  <1>0. pc = "start" /\ Active
    BY DEF Start, Active
  <1>1. UNCHANGED <<present, name, rate, prefix, list, listed, refused>>
    BY DEF Start, local, history
  <1>2. Named(ifname) = {list[i]} /\ i \in 1..Len(list) /\ list[i] \in Adapter
        /\ Len(list) \in Nat
    BY <1>0, AtHand DEF PlaceInv
  <1>3. up' = [a \in Adapter |-> up[a] \/ a = list[i]]
    BY <1>2 DEF Start
  <1>4. /\ up'[list[i]]
        /\ \A a \in Adapter : a # list[i] => up'[a] = up[a]
    <2>1. up \in [Adapter -> BOOLEAN]
      BY DEF KernelInv
    <2>2. QED
      BY <1>2, <1>3, <2>1
  <1>5. rate[list[i]] = Bitrate
    BY <1>0 DEF PlaceInv
  <1>6. /\ Targets' = Targets /\ HereInv'
        /\ \A k \in 1..Len(list) : k # i =>
             /\ At(k)' = At(k)
             /\ up'[list'[k]] = up[list[k]]
             /\ Clear(k) => Clear(k)'
             /\ InPlace(k) => InPlace(k)'
             /\ Started(k) => Started(k)'
    BY <1>0, <1>1, <1>4, OthersKeep
  <1>7. \A k \in 1..Len(list) :
          /\ k < i => Started(k) /\ InPlace(k)
          /\ k > i => current[k] = At(k) /\ Clear(k) /\ ~up[list[k]]
    BY <1>0, PlaceFacts
  <1>8. \A k \in 1..Len(list) : k = i => Started(k)' /\ InPlace(k)'
    <2>1. InPlace(i)
      BY <1>0 DEF PlaceInv
    <2>2. \A k \in 1..Len(list) : At(k)' = At(k)
      BY <1>1 DEF At
    <2>3. \A k \in 1..Len(list) : k = i => InPlace(k)'
      BY <1>1, <1>6, <2>1, <2>2 DEF InPlace
    <2>4. \A k \in 1..Len(list) : k = i => Started(k)'
      BY <1>1, <1>4, <1>5 DEF Started
    <2>5. QED
      BY <2>3, <2>4
  <1>9. \A k \in 1..Len(list) :
           /\ k <= i => Started(k)' /\ InPlace(k)'
           /\ k > i => current[k] = At(k)' /\ Clear(k)' /\ ~up'[list'[k]]
    BY <1>2, <1>6, <1>7, <1>8
  <1>10. CASE i < Len(list)
    <2>1. pc' = "assign" /\ i' = i + 1 /\ current' = current
      BY <1>10 DEF Start
    <2>2. \A k \in 1..Len(list') :
            /\ k < i' => Started(k)' /\ InPlace(k)'
            /\ k > i' => current'[k] = At(k)' /\ Clear(k)' /\ ~up'[list'[k]]
      BY <1>1, <1>2, <1>9, <2>1
    <2>3. \A k \in 1..Len(list) :
            k = i' => current'[k] = At(k)' /\ Clear(k)' /\ ~up'[list'[k]]
      BY <1>1, <1>2, <1>9, <2>1
    <2>4. i' \in 1..Len(list)
      BY <1>2, <1>10, <2>1
    <2>5. current'[i'] = At(i)' /\ Clear(i)' /\ ~up'[list'[i']]
      BY <2>3, <2>4 DEF At, Clear
    <2>6. PlaceInv'
      BY <1>1, <2>1, <2>2, <2>5 DEF PlaceInv
    <2>7. QED
      BY <1>6, <2>1, <2>6 DEF ParkInv, DoneInv
  <1>11. CASE ~(i < Len(list))
    <2>1. pc' = "idle"
      BY <1>11 DEF Start, Return
    <2>2. \A k \in 1..Len(list') : Started(k)' /\ InPlace(k)'
      BY <1>1, <1>2, <1>9, <1>11
    <2>3. QED
      BY <1>6, <2>1, <2>2 DEF ParkInv, PlaceInv, DoneInv
  <1>12. QED
    BY <1>10, <1>11

-----------------------------------------------------------------------------

LEMMA InitInv == Init => IInv
  <1> SUFFICES ASSUME Init PROVE IInv
    OBVIOUS
  <1>1. pc = "idle" /\ outcome = "none" /\ 1..Len(list) = {}
    BY EmptySeq DEF Init
  <1>2. QED
    BY <1>1, InitSound DEF IInv, Sure, HereInv, ParkInv, PlaceInv, DoneInv

LEMMA NextInv == IInv /\ [Next]_vars => IInv'
  <1> SUFFICES ASSUME Sound, lost \/ Sure, [Next]_vars, ~lost' PROVE Sound' /\ Sure'
    BY NextSound DEF IInv
  <1>0. /\ Sound'
        /\ UNCHANGED lost => Sure
    <2>1. Sound'
      BY NextSound
    <2>2. lost \in BOOLEAN /\ lost' \in BOOLEAN
      BY <2>1 DEF Sound, ListInv
    <2>3. UNCHANGED lost => lost' = lost
      OBVIOUS
    <2>4. UNCHANGED lost => Sure
      BY <2>2, <2>3, SMT
    <2>5. QED
      BY <2>1, <2>4
  <1>1. ASSUME NEW a \in Adapter, Plug(a) PROVE Sure'
    BY <1>1, PlugSure DEF Plug, history
  <1>2. ASSUME NEW a \in Adapter, Unplug(a) PROVE Sure'
    BY <1>2, UnplugSure DEF Unplug
  <1>3. CASE Call
    <2>1. UNCHANGED kernel /\ i' = 1
      BY <1>3 DEF Call, loop, Sound, ListInv, Active
    <2>2. CASE \E S \in SUBSET present : \E ports \in InBusOrder(S) : Begin(ports, NamesOf(ports))
      BY <1>0, <2>1, <2>2, PortsFacts, BeginSure DEF Sound
    <2>3. CASE Begin(list, listed)
      BY <1>0, <2>1, <2>3, BeginSure DEF Sound, ListInv
    <2>4. QED
      BY <1>3, <2>2, <2>3 DEF Call, FindPorts
  <1>4. CASE CallWaiting
    <2>1. list' = << >> /\ pc' = "wait"
      BY <1>4 DEF CallWaiting
    <2>2. 1..Len(list') = {}
      BY <2>1, EmptySeq
    <2>3. QED
      BY <1>0, <2>1, <2>2 DEF Sure, HereInv, ParkInv, PlaceInv, DoneInv
  <1>5. CASE Found
    <2>1. UNCHANGED kernel /\ i' = 1
      BY <1>5 DEF Found, loop, Sound, ListInv, Active
    <2>2. PICK ports \in InBusOrder(present) : Begin(ports, NamesOf(ports))
      BY <1>5 DEF Found, FindPorts
    <2>3. QED
      BY <1>0, <2>1, <2>2, PortsFacts, BeginSure DEF Sound
  <1>6. CASE TimedOut \/ StopFails \/ SetBitrateFails \/ StartFails
    <2>1. Throw
      BY <1>6 DEF TimedOut, StopFails, SetBitrateFails, StartFails
    <2>2. Sure
      BY <1>0, <2>1 DEF Throw, history
    <2>3. QED
      BY <1>0, <2>1, <2>2, ThrowSure
  <1>7. CASE Stop \/ Park \/ ParkFails
    <2>1. UNCHANGED lost
      BY <1>7 DEF Stop, Park, ParkFails, Parked, history
    <2>2. Sure
      BY <1>0, <2>1
    <2>3. QED
      BY <1>0, <1>7, <2>2, StopSure, ParkSure, ParkFailsSure
  <1>8. CASE Assign \/ AssignFails
    <2>1. UNCHANGED lost
      BY <1>8 DEF Assign, AssignFails, history
    <2>2. Sure
      BY <1>0, <2>1
    <2>3. QED
      BY <1>0, <1>8, <2>2, AssignSure, AssignFailsSure
  <1>9. CASE SetBitrate \/ Start
    <2>1. UNCHANGED lost
      BY <1>9 DEF SetBitrate, Start, history
    <2>2. Sure
      BY <1>0, <2>1
    <2>3. QED
      BY <1>0, <1>9, <2>2, SetBitrateSure, StartSure
  <1>10. CASE UNCHANGED vars
    <2>1. UNCHANGED <<present, name, up, rate, prefix, list, listed, pc, current,
                      ifname, i, outcome, refused, lost>>
      BY <1>10 DEF vars, kernel, local, loop, history
    <2>2. Targets' = Targets /\ Sure
      BY <1>0, <2>1 DEF Targets
    <2>3. QED
      BY <1>0, <2>1, <2>2 DEF Sure, HereInv, ParkInv, PlaceInv, DoneInv, At, Clear, InPlace,
                        Started
  <1>11. QED
    BY <1>0, <1>1, <1>2, <1>3, <1>4, <1>5, <1>6, <1>7, <1>8, <1>9, <1>10 DEF Next

(* The strengthened invariant holds in every behaviour.                    *)
LEMMA Invariance == Spec => []IInv
  BY InitInv, NextInv, PTL DEF Spec

-----------------------------------------------------------------------------

(* Every variable keeps its type, and as long as the call's names are its  *)
(* adapters' the second loop has for every adapter the name the adapter    *)
(* has, whatever renames failed in the first.                              *)
THEOREM NamesAreKnown == Spec => []TypeOK
  <1>1. IInv => TypeOK
    <2> SUFFICES ASSUME Sound, lost \/ Sure PROVE TypeOK
      BY DEF IInv
    <2> USE DEF Sound
    <2>1. DOMAIN current = 1..Len(current)
      BY LenProperties DEF ListInv
    <2>2. /\ present \subseteq Adapter
          /\ \A a \in present : name[a] \in Name
          /\ \A a, b \in present : name[a] = name[b] => a = b
          /\ \A a \in Adapter : up[a] => rate[a] # NoRate
      BY PresentNames DEF KernelInv
    <2>3. /\ pc \in {"idle", "wait", "stop", "park", "assign", "bitrate", "start"}
          /\ i \in 1..(Len(list) + 1)
          /\ pc \in {"stop", "park"} => Len(current) = i - 1
          /\ pc \in {"assign", "bitrate", "start"} => Len(current) = Len(list)
      BY DEF ListInv
    <2>4. ASSUME NEW k \in DOMAIN current, ~lost,
                 pc \in {"stop", "park"} \/ (pc = "assign" /\ k >= i)
          PROVE  current[k] = name[list[k]]
      <3>1. Len(list) \in Nat /\ (Active => i \in 1..Len(list)) /\ Sure
        BY <2>4, ListFacts DEF ListInv
      <3>2. CASE pc \in {"stop", "park"}
        <4>1. k \in 1..Len(list) /\ k < i
          BY <2>1, <2>3, <3>1, <3>2 DEF Active
        <4>2. QED
          BY <3>1, <3>2, <4>1 DEF Sure, ParkInv, At
      <3>3. CASE pc = "assign" /\ k >= i
        <4>1. k \in 1..Len(list) /\ (k > i \/ k = i)
          BY <2>1, <2>3, <3>1, <3>3 DEF Active
        <4>2. QED
          BY <3>1, <3>3, <4>1 DEF Sure, PlaceInv, At
      <3>4. QED
        BY <2>4, <3>2, <3>3
    <2>5. QED
      BY <2>2, <2>3, <2>4 DEF TypeOK
  <1>2. QED
    BY <1>1, Invariance, PTL

(* Every adapter is started at its bitrate, and named in bus order unless  *)
(* a rename was refused, or for an adapter outside the list: for any       *)
(* number of adapters coming and going, names they had, and calls before   *)
(* that threw or went by names that were out of date.                      *)
THEOREM AdaptersInPlace == Spec => []EveryAdapterInItsPlace
  <1>1. IInv => EveryAdapterInItsPlace
    <2> SUFFICES ASSUME Sound, Sure, pc = "idle", outcome = "done"
                 PROVE  /\ \A k \in DOMAIN list :
                             /\ name[list[k]] \in ActivePorts
                             /\ GetInterfaceBitrate(name[list[k]]) = Bitrate
                        /\ refused \/ \A k \in DOMAIN list : name[list[k]] = Targets[k]
      BY DEF EveryAdapterInItsPlace, IInv
    <2>1. DOMAIN list = 1..Len(list)
      BY ListFacts DEF Sound
    <2>2. \A k \in 1..Len(list) : Started(k) /\ InPlace(k)
      BY DEF Sure, DoneInv
    <2>3. ASSUME NEW k \in 1..Len(list)
          PROVE  /\ name[list[k]] \in ActivePorts
                 /\ GetInterfaceBitrate(name[list[k]]) = Bitrate
      <3>1. list[k] \in present /\ up[list[k]] /\ rate[list[k]] = Bitrate
        BY <2>2 DEF Sure, HereInv, Started
      <3>2. Named(name[list[k]]) = {list[k]}
        BY <3>1, OwnName DEF Sound
      <3>3. Bitrate # NoRate
        BY SMT DEF Bitrate, NoRate
      <3>4. name[list[k]] \in ActivePorts
        BY <3>1, <3>2 DEF ActivePorts, InterfaceIsUp
      <3>5. {rate[a] : a \in {a \in Named(name[list[k]]) : rate[a] # NoRate}} = {Bitrate}
        BY <3>1, <3>2, <3>3
      <3>6. GetInterfaceBitrate(name[list[k]]) = Bitrate
        BY <3>5 DEF GetInterfaceBitrate
      <3>7. QED
        BY <3>4, <3>6
    <2>4. refused \/ \A k \in 1..Len(list) : name[list[k]] = Targets[k]
      BY <2>2 DEF InPlace, At
    <2>5. QED
      BY <2>1, <2>3, <2>4
  <1>2. QED
    BY <1>1, Invariance, PTL

(* No call to the kernel reaches another adapter than the one it is meant  *)
(* for, although it only carries a name and names move between adapters,   *)
(* until an adapter of the list is unplugged or with names out of date.    *)
THEOREM OwnAdapterOnly == Spec => ActsOnOwnAdapter
  <1> DEFINE Changed(a) == <<name[a], up[a], rate[a]>>' # <<name[a], up[a], rate[a]>>
             Own == \A a \in present : a \in present' /\ Changed(a) =>
                      lost \/ (pc # "idle" /\ a = list[i])
  <1>1. IInv /\ [Next]_vars => Own
    <2> SUFFICES ASSUME Sound, Sure, [Next]_vars PROVE Own
      BY DEF IInv
    <2> USE DEF Sound
    <2>1. CASE UNCHANGED kernel
      BY <2>1 DEF kernel
    <2>2. CASE \E a \in Adapter : Plug(a)
      BY <2>2, PlugSound DEF Plug
    <2>3. CASE \E a \in Adapter : Unplug(a)
      <3>1. PICK a \in Adapter : Unplug(a)
        BY <2>3
      <3>2. a \notin present'
        BY <3>1 DEF Unplug
      <3>3. QED
        BY <3>1, <3>2, UnplugSound DEF KernelInv
    <2>4. CASE Active /\ (\A a \in Adapter : a # list[i] =>
                            name'[a] = name[a] /\ up'[a] = up[a] /\ rate'[a] = rate[a])
      BY <2>4 DEF Active, KernelInv
    <2>5. CASE Stop
      <3>1. Active /\ Named(At(i)) = {list[i]} /\ At(i) = listed[i]
        BY <2>5, AtHand DEF Stop, Active, Sure, ParkInv
      <3>2. \A a \in Adapter : a # list[i] => up'[a] = up[a]
        BY <2>5, <3>1 DEF Stop, KernelInv
      <3>3. QED
        BY <2>4, <2>5, <3>1, <3>2 DEF Stop
    <2>6. CASE Park
      <3>1. Active /\ Named(At(i)) = {list[i]} /\ At(i) = listed[i]
        BY <2>6, AtHand DEF Park, Active, Sure, ParkInv
      <3>2. \A a \in Adapter : a # list[i] => name'[a] = name[a]
        BY <2>6, <3>1 DEF Park, RenameInterface
      <3>3. QED
        BY <2>4, <2>6, <3>1, <3>2 DEF Park, Parked
    <2>7. CASE Assign
      <3>1. Active /\ Named(current[i]) = {list[i]}
        BY <2>7, AtHand DEF Assign, Active, Sure, PlaceInv
      <3>2. \A a \in Adapter : a # list[i] => name'[a] = name[a]
        BY <2>7, <3>1 DEF Assign, RenameInterface
      <3>3. QED
        BY <2>4, <2>7, <3>1, <3>2 DEF Assign
    <2>8. CASE SetBitrate
      <3>1. Active /\ Named(ifname) = {list[i]}
        BY <2>8, AtHand DEF SetBitrate, Active, Sure, PlaceInv
      <3>2. \A a \in Adapter : a # list[i] => rate'[a] = rate[a]
        BY <2>8, <3>1 DEF SetBitrate
      <3>3. QED
        BY <2>4, <2>8, <3>1, <3>2 DEF SetBitrate
    <2>9. CASE Start
      <3>1. Active /\ Named(ifname) = {list[i]}
        BY <2>9, AtHand DEF Start, Active, Sure, PlaceInv
      <3>2. \A a \in Adapter : a # list[i] => up'[a] = up[a]
        BY <2>9, <3>1 DEF Start, KernelInv
      <3>3. QED
        BY <2>4, <2>9, <3>1, <3>2 DEF Start
    <2>10. QED
      BY <2>1, <2>2, <2>3, <2>5, <2>6, <2>7, <2>8, <2>9
      DEF Next, Call, CallWaiting, Found, TimedOut, Throw, StopFails, ParkFails, Parked,
          AssignFails, SetBitrateFails, StartFails, vars, kernel
  <1>2. QED
    BY <1>1, Invariance, PTL DEF Spec, ActsOnOwnAdapter

=============================================================================
