----------------------------- MODULE CanActivate -----------------------------
(***************************************************************************)
(* activate() of can_utils.cpp: the CAN adapters found, or the ones it is  *)
(* given, are stopped, named prefix0, prefix1, ... in the order of their   *)
(* bus addresses and started at a bitrate.  Every call to the kernel names *)
(* an interface, and a name is all that ties it to an adapter.             *)
(*                                                                         *)
(* An adapter is the number of its place in the bus order.  A call to the  *)
(* kernel may fail for a reason of its own, adapters may be plugged in and *)
(* unplugged at any time, and the ports a call of activate() is given may  *)
(* be those of an earlier one, whose names are no longer right.  Then, or  *)
(* with an adapter of the list unplugged, the names the call goes by reach *)
(* whatever adapter has them now, if any (lost).                           *)
(***************************************************************************)
EXTENDS Integers, Sequences, FiniteSets, Functions

CONSTANTS
  Adapters,        \* how many adapters there may be
  GivenPrefixes,   \* the prefixes activate() is called with; none is another
                   \*   one and digits, so a name is a prefix and a number
  MaxCalls,        \* bound on the calls of activate()
  MaxChanges       \*   and on the adapters plugged in or unplugged

ASSUME ActivateAssumption ==
  /\ Adapters \in Nat \ {0}
  /\ MaxCalls \in Nat /\ MaxChanges \in Nat

VARIABLES
  present,    \* the kernel: the adapters plugged in,
  name,       \*   the interface name of each,
  up,         \*   whether it is up,
  rate,       \*   and its bitrate
  pc,         \* activate(): the call to the kernel that is next
  prefix,
  list,       \*   the adapters, in bus order ...
  listed,     \*   ... and their names, as they were found
  current,    \*   the names after parking
  ifname,     \*   the name of the adapter being started
  i,
  outcome,    \* how the last call ended
  refused,    \* history: whether the kernel refused it a rename at whim, or
              \*   for the sake of an adapter outside the list,
  lost,       \*   and whether a name it goes by may not be its adapter's
  calls,      \* the calls made so far
  changes     \*   and the adapters that have come or gone

kernel == <<present, name, up, rate>>
local == <<prefix, list, listed>>
loop == <<current, ifname, i>>
history == <<refused, lost>>
counts == <<calls, changes>>
vars == <<kernel, local, pc, loop, outcome, history, counts>>

Adapter == 1..Adapters

Name == [prefix : {"can", "cantmp"} \cup GivenPrefixes, n : Nat]

NoName == [prefix |-> "", n |-> -1]

NoRate == 0
OldRate == 500000
Bitrate == 1000000

Targets == [k \in DOMAIN list |-> [prefix |-> prefix, n |-> k - 1]]

-----------------------------------------------------------------------------
(* The kernel.                                                             *)

Named(x) == {a \in present : name[a] = x}

Lowest(p) ==
  CHOOSE n \in 0..Adapters :
    /\ Named([prefix |-> p, n |-> n]) = {}
    /\ \A m \in 0..(n - 1) : Named([prefix |-> p, n |-> m]) # {}

(* The first temporary name that is neither in use nor to be given out.    *)
FreeTemporaryName ==
  LET Free(n) ==
        LET x == [prefix |-> "cantmp", n |-> n]
        IN  Named(x) = {} /\ x \notin Range(Targets)
      n == CHOOSE n \in 0..(2 * Adapters) : Free(n) /\ \A m \in 0..(n - 1) : ~Free(m)
  IN  [prefix |-> "cantmp", n |-> n]

(* The adapters of a set in the order of their bus addresses.              *)
InBusOrder(S) ==
  {s \in [1..Cardinality(S) -> S] : \A j, k \in DOMAIN s : j < k => s[j] < s[k]}

FindPorts == InBusOrder(present)

InterfaceIsUp(x) == \E a \in Named(x) : up[a]

ActivePorts == {name[a] : a \in {a \in present : InterfaceIsUp(name[a])}}

GetInterfaceBitrate(x) ==
  LET rates == {rate[a] : a \in {a \in Named(x) : rate[a] # NoRate}}
  IN  IF rates = {} THEN NoRate ELSE CHOOSE r \in rates : TRUE

(* Only an interface that is down is renamed, and only to a free name.     *)
MayRename(x, y) == Named(x) # {} /\ ~InterfaceIsUp(x) /\ Named(y) = {}

RenameInterface(x, y) ==
  name' = [a \in Adapter |-> IF a \in Named(x) THEN y ELSE name[a]]

(* Adapters come and go, a bounded number of times and until the last call *)
(* begins, which is to put right what is left.                             *)
Hotplug ==
  /\ changes < MaxChanges /\ calls < MaxCalls
  /\ changes' = changes + 1

(* An adapter appears under the first free name of its driver's.           *)
Plug(a) ==
  /\ a \notin present
  /\ Hotplug
  /\ present' = present \cup {a}
  /\ name' = [name EXCEPT ![a] = [prefix |-> "can", n |-> Lowest("can")]]
  /\ UNCHANGED <<up, rate, local, pc, loop, outcome, history, calls>>

(* ... and one that is unplugged leaves nothing.                           *)
Unplug(a) ==
  /\ a \in present
  /\ Hotplug
  /\ present' = present \ {a}
  /\ name' = [name EXCEPT ![a] = NoName]
  /\ up' = [up EXCEPT ![a] = FALSE]
  /\ rate' = [rate EXCEPT ![a] = NoRate]
  /\ lost' = (lost \/ a \in Range(list))
  /\ UNCHANGED <<local, pc, loop, outcome, refused, calls>>

-----------------------------------------------------------------------------
Init ==
  /\ present \in SUBSET Adapter
  /\ name \in [Adapter ->
                 {NoName} \cup [prefix : {"can"}, n : 0..(Adapters - 1)]]
  /\ \A a \in Adapter : a \in present <=> name[a] # NoName
  /\ \A a, b \in present : name[a] = name[b] => a = b
  /\ up \in [Adapter -> BOOLEAN]
  /\ \A a \in Adapter : up[a] => a \in present
  /\ rate = [a \in Adapter |-> IF up[a] THEN OldRate ELSE NoRate]
  /\ pc = "idle"
  /\ prefix \in GivenPrefixes
  /\ list = << >> /\ listed = << >> /\ current = << >>
  /\ ifname = NoName
  /\ i = 1
  /\ outcome = "none"
  /\ refused = FALSE
  /\ lost = FALSE
  /\ calls = 0 /\ changes = 0

(* With nothing in the list both loops are empty.                          *)
Begin(adapters, names) ==
  /\ list' = adapters
  /\ listed' = names
  /\ lost' = \E k \in DOMAIN adapters : name[adapters[k]] # names[k]
  /\ pc' = IF adapters = << >> THEN "idle" ELSE "stop"
  /\ outcome' = IF adapters = << >> THEN "done" ELSE "none"

NamesOf(adapters) == [k \in DOMAIN adapters |-> name[adapters[k]]]

(* activate() with ports, listed just now or for an earlier call, or with  *)
(* none and no timeout.                                                    *)
Call ==
  /\ pc = "idle" /\ calls < MaxCalls
  /\ calls' = calls + 1
  /\ prefix' \in GivenPrefixes
  /\ \/ \E some \in SUBSET present \ {{}} : \E ports \in InBusOrder(some) :
          Begin(ports, NamesOf(ports))
     \/ list # << >> /\ Begin(list, listed)
     \/ \E ports \in FindPorts : Begin(ports, NamesOf(ports))
  /\ refused' = FALSE
  /\ UNCHANGED <<kernel, loop, changes>>

(* ... with none and a timeout: it looks again until there is something.   *)
CallWaiting ==
  /\ pc = "idle" /\ calls < MaxCalls /\ present = {}
  /\ calls' = calls + 1
  /\ prefix' \in GivenPrefixes
  /\ pc' = "wait" /\ outcome' = "none"
  /\ list' = << >> /\ listed' = << >>
  /\ refused' = FALSE /\ lost' = FALSE
  /\ UNCHANGED <<kernel, loop, changes>>

Found ==
  /\ pc = "wait" /\ present # {}
  /\ \E ports \in FindPorts : Begin(ports, NamesOf(ports))
  /\ UNCHANGED <<kernel, prefix, loop, refused, counts>>

(* The end of a call takes its variables with it.                          *)
Return ==
  pc' = "idle" /\ current' = << >> /\ ifname' = NoName /\ i' = 1

(* An exception leaves the interfaces as they are.                         *)
Throw ==
  /\ Return /\ outcome' = "thrown"
  /\ UNCHANGED <<kernel, local, history, counts>>

(* The looks are five seconds apart: the time may be up when an adapter    *)
(* has just appeared.                                                      *)
TimedOut == pc = "wait" /\ Throw

-----------------------------------------------------------------------------
(* The first loop: stop, then park what is to be renamed.                  *)

Stop ==
  /\ pc = "stop"
  /\ Named(listed[i]) # {}
  /\ up' = [a \in Adapter |-> up[a] /\ a \notin Named(listed[i])]
  /\ pc' = "park"
  /\ UNCHANGED <<present, name, rate, local, loop, outcome, history, counts>>

StopFails == pc = "stop" /\ Throw

Parked(x) ==
  /\ current' = Append(current, x)
  /\ i' = IF i < Len(list) THEN i + 1 ELSE 1
  /\ pc' = IF i < Len(list) THEN "stop" ELSE "assign"
  /\ UNCHANGED <<present, up, rate, local, ifname, outcome, lost, counts>>

ParkNever ==
  /\ pc = "park"
  /\ Parked(listed[i])
  /\ UNCHANGED <<name, refused>>

Park ==
  /\ pc = "park"
  /\ IF listed[i] = Targets[i]
     THEN Parked(listed[i]) /\ UNCHANGED <<name, refused>>
     ELSE /\ MayRename(listed[i], FreeTemporaryName)
          /\ RenameInterface(listed[i], FreeTemporaryName)
          /\ Parked(FreeTemporaryName)
          /\ UNCHANGED refused

ParkFailsSkips ==
  /\ pc = "park" /\ listed[i] # Targets[i]
  /\ refused' = (refused \/ MayRename(listed[i], FreeTemporaryName))
  /\ i' = IF i < Len(list) THEN i + 1 ELSE 1
  /\ pc' = IF i < Len(list) THEN "stop" ELSE "assign"
  /\ UNCHANGED <<kernel, current, local, ifname, outcome, lost, counts>>

(* A rename that fails is only warned of: the adapter keeps its name.      *)
ParkFails ==
  /\ pc = "park" /\ listed[i] # Targets[i]
  /\ refused' = (refused \/ MayRename(listed[i], FreeTemporaryName))
  /\ Parked(listed[i])
  /\ UNCHANGED name

-----------------------------------------------------------------------------
(* The second loop: the final name, the bitrate, and start.                *)

Assign ==
  /\ pc = "assign"
  /\ IF current[i] = Targets[i]
     THEN UNCHANGED name
     ELSE /\ MayRename(current[i], Targets[i])
          /\ RenameInterface(current[i], Targets[i])
  /\ ifname' = Targets[i]
  /\ pc' = "bitrate"
  /\ UNCHANGED <<present, up, rate, local, current, i, outcome, history, counts>>

AssignFailsUnnoticed ==
  /\ pc = "assign" /\ current[i] # Targets[i]
  /\ refused' = (refused \/ MayRename(current[i], Targets[i])
                         \/ Named(Targets[i]) \ Range(list) # {})
  /\ ifname' = Targets[i]
  /\ pc' = "bitrate"
  /\ UNCHANGED <<kernel, local, current, i, outcome, lost, counts>>

AssignFails ==
  /\ pc = "assign" /\ current[i] # Targets[i]
  /\ refused' = (refused \/ MayRename(current[i], Targets[i])
                         \/ Named(Targets[i]) \ Range(list) # {})
  /\ ifname' = current[i]
  /\ pc' = "bitrate"
  /\ UNCHANGED <<kernel, local, current, i, outcome, lost, counts>>

SetBitrate ==
  /\ pc = "bitrate"
  /\ Named(ifname) # {} /\ ~InterfaceIsUp(ifname)
  /\ rate' = [a \in Adapter |-> IF a \in Named(ifname) THEN Bitrate ELSE rate[a]]
  /\ pc' = "start"
  /\ UNCHANGED <<present, name, up, local, loop, outcome, history, counts>>

SetBitrateFails == pc = "bitrate" /\ Throw

Start ==
  /\ pc = "start"
  /\ GetInterfaceBitrate(ifname) # NoRate
  /\ up' = [a \in Adapter |-> up[a] \/ a \in Named(ifname)]
  /\ IF i < Len(list)
     THEN pc' = "assign" /\ i' = i + 1 /\ UNCHANGED <<current, ifname, outcome>>
     ELSE Return /\ outcome' = "done"
  /\ UNCHANGED <<present, name, rate, local, history, counts>>

StartFails == pc = "start" /\ Throw

Next ==
  \/ \E a \in Adapter : Plug(a) \/ Unplug(a)
  \/ Call \/ CallWaiting \/ Found \/ TimedOut
  \/ Stop \/ StopFails \/ Park \/ ParkFails
  \/ Assign \/ AssignFails \/ SetBitrate \/ SetBitrateFails
  \/ Start \/ StartFails

Spec == Init /\ [][Next]_vars

-----------------------------------------------------------------------------

(* Types, and that the second loop has a name for every adapter, the one   *)
(* the adapter has, whatever renames failed in the first (current), as long*)
(* as the names the call was given are its adapters' (lost).               *)
TypeOK ==
  /\ present \subseteq Adapter
  /\ \A a \in present : name[a] \in Name
  /\ \A a, b \in present : name[a] = name[b] => a = b
  /\ \A a \in Adapter : up[a] => rate[a] # NoRate
  /\ pc \in {"idle", "wait", "stop", "park", "assign", "bitrate", "start"}
  /\ i \in 1..(Len(list) + 1)
  /\ pc \in {"stop", "park"} => Len(current) = i - 1
  /\ pc \in {"assign", "bitrate", "start"} => Len(current) = Len(list)
  /\ \A k \in DOMAIN current :
       pc \in {"stop", "park"} \/ (pc = "assign" /\ k >= i) =>
         lost \/ current[k] = name[list[k]]

(* A step of activate() changes the adapter at hand and no other, although *)
(* adapters swap names, renames fail, others come and go and a name asked  *)
(* for may be held by an adapter that is not in the list.  It goes by names*)
(* throughout, so this ends where one of them may no longer be right: with *)
(* an adapter of the list unplugged, or ports that are out of date.        *)
ActsOnOwnAdapter ==
  [][\A a \in present :
       a \in present' /\ <<name[a], up[a], rate[a]>>' # <<name[a], up[a], rate[a]>> =>
         lost \/ (pc # "idle" /\ a = list[i])]_vars

(* When activate() returns, every adapter it had to start is up at its     *)
(* bitrate, and they are named in the order of their bus addresses unless  *)
(* a rename was refused, or for an adapter outside the list: whatever names*)
(* they had, and whatever an earlier call has left that threw half-way or  *)
(* went by names that were no longer right.  The names of this call are,   *)
(* and none of its adapters has been unplugged since it was listed.        *)
EveryAdapterInItsPlace ==
  pc = "idle" /\ outcome = "done" /\ ~lost =>
    /\ \A k \in DOMAIN list :
         /\ name[list[k]] \in ActivePorts
         /\ GetInterfaceBitrate(name[list[k]]) = Bitrate
    /\ refused \/ \A k \in DOMAIN list : name[list[k]] = Targets[k]

=============================================================================
