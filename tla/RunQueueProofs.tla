---------------------------- MODULE RunQueueProofs ----------------------------
(***************************************************************************)
(* The two rings tasks wait in: TaskDeque, the work-stealing deque of a    *)
(* non-blocking worker, and TaskQueue, the ticket queue of a blocking one. *)
(*                                                                         *)
(* Both proofs give every task an integer position that never wraps.  The  *)
(* words of the code (indices, tickets, copies of them in locals) are      *)
(* remainders of positions; the arithmetic of the first section says when  *)
(* two words that agree stand for the same position.                       *)
(*                                                                         *)
(* TaskDeque.  The tasks of the deque occupy the positions lo .. hi - 1,   *)
(* the owner and the holder of the lock have claimed the position next to  *)
(* the end they work at, or a run at the back for PopBackHalf, and every   *)
(* task is in exactly one place (IInv).  An operation looks at the slot    *)
(* its word names; its state tells the claims apart, which is why a push   *)
(* and a pop that meet cannot both go on.  For Empty the invariant also    *)
(* counts how far the front has moved since a call read it (CallInv).      *)
(*                                                                         *)
(* TaskQueue.  The positions Lo .. Hi - 1 have been claimed by PushFront   *)
(* and not by PopBack; the ticket of an element says of the last position  *)
(* that used it whether it is to be filled, ready, or cleared (QInv).      *)
(***************************************************************************)
EXTENDS TaskDeque, Sequences, FiniteSetTheorems, SequenceTheorems, TLAPS

(***************************************************************************)
(* Remainders, for every divisor.                                          *)
(***************************************************************************)
\* Division with remainder by n.
LEMMA DivMod ==
  ASSUME NEW a \in Int, NEW n \in Nat \ {0}
  PROVE  /\ a % n \in 0 .. n - 1
         /\ a \div n \in Int
         /\ a = (a \div n) * n + (a % n)
  BY SMT

\* A multiple of n closer to 0 than n is 0.
LEMMA SmallMultiple ==
  ASSUME NEW k \in Int, NEW n \in Nat \ {0}, -n < k * n, k * n < n
  PROVE  k = 0
<1>1. k >= 1 => k * n >= n
  BY SMT
<1>2. k <= -1 => k * n <= -n
  BY SMT
<1> QED BY <1>1, <1>2

\* A quotient and a remainder determine the remainder.
LEMMA ModUnique ==
  ASSUME NEW a \in Int, NEW n \in Nat \ {0}, NEW q \in Int, NEW r \in 0 .. n - 1,
         a = q * n + r
  PROVE  a % n = r
<1> DEFINE k == (a \div n) - q
<1>1. /\ a % n \in 0 .. n - 1 /\ a \div n \in Int
      /\ a = (a \div n) * n + (a % n)
  BY DivMod
<1>2. k \in Int /\ k * n = (a \div n) * n - q * n
  BY <1>1, SMT
<1>3. k * n = r - (a % n)
  BY <1>1, <1>2
<1>4. -n < k * n /\ k * n < n
  BY <1>1, <1>3
<1> HIDE DEF k
<1>5. k = 0
  BY <1>2, <1>4, SmallMultiple
<1>6. k * n = 0
  BY <1>5
<1> QED BY <1>1, <1>3, <1>6

\* a and b are a multiple of n apart.
Apart(a, b, n) == \E k \in Int : a - b = k * n

\* Two numbers leave the same remainder iff n divides their difference.
LEMMA SameRemainder ==
  ASSUME NEW a \in Int, NEW b \in Int, NEW n \in Nat \ {0}
  PROVE  (a % n = b % n) <=> Apart(a, b, n)
<1>1. /\ a = (a \div n) * n + (a % n) /\ a \div n \in Int
      /\ b = (b \div n) * n + (b % n) /\ b \div n \in Int
      /\ a % n \in 0 .. n - 1 /\ b % n \in 0 .. n - 1
  BY DivMod
<1>2. ASSUME a % n = b % n PROVE Apart(a, b, n)
  <2>1. (a \div n) - (b \div n) \in Int
    BY <1>1
  <2>2. a - b = ((a \div n) - (b \div n)) * n
    BY <1>1, <1>2, SMT
  <2> QED BY <2>1, <2>2 DEF Apart
<1>3. ASSUME Apart(a, b, n) PROVE a % n = b % n
  <2>1. PICK k \in Int : a - b = k * n
    BY <1>3 DEF Apart
  <2>2. (b \div n) + k \in Int
    BY <1>1
  <2>3. a = ((b \div n) + k) * n + (b % n)
    BY <1>1, <2>1, SMT
  <2> QED BY <1>1, <2>2, <2>3, ModUnique
<1> QED BY <1>2, <1>3

\* Two numbers less than n apart that leave the same remainder are equal.
LEMMA SameRemainderClose ==
  ASSUME NEW a \in Int, NEW b \in Int, NEW n \in Nat \ {0}, a % n = b % n,
         -n < a - b, a - b < n
  PROVE  a = b
<1>1. Apart(a, b, n)
  BY SameRemainder
<1>2. PICK k \in Int : a - b = k * n
  BY <1>1 DEF Apart
<1>3. k = 0
  BY <1>2, SmallMultiple
<1> QED BY <1>2, <1>3

\* Adding the same number to both keeps the remainders equal.
LEMMA SameRemainderPlus ==
  ASSUME NEW a \in Int, NEW b \in Int, NEW n \in Nat \ {0}, NEW c \in Int,
         a % n = b % n
  PROVE  (a + c) % n = (b + c) % n
<1> DEFINE x == a + c
           y == b + c
<1>1. x \in Int /\ y \in Int /\ x - y = a - b
  OBVIOUS
<1>2. Apart(a, b, n)
  BY SameRemainder
<1> HIDE DEF x, y
<1>3. Apart(x, y, n)
  BY <1>1, <1>2 DEF Apart
<1>4. x % n = y % n
  BY <1>1, <1>3, SameRemainder
<1> QED BY <1>4 DEF x, y

\* Equal remainders by a multiple of n are equal remainders by n.
LEMMA SameRemainderFactor ==
  ASSUME NEW a \in Int, NEW b \in Int, NEW n \in Nat \ {0}, NEW m \in Nat \ {0},
         a % (m * n) = b % (m * n)
  PROVE  a % n = b % n
<1>1. m * n \in Nat \ {0}
  BY SMT
<1>2. Apart(a, b, m * n)
  BY <1>1, SameRemainder
<1>3. PICK k \in Int : a - b = k * (m * n)
  BY <1>2 DEF Apart
<1>4. k * m \in Int /\ a - b = (k * m) * n
  BY <1>3, SMT
<1>5. Apart(a, b, n)
  BY <1>4 DEF Apart
<1> QED BY <1>5, SameRemainder

\* Every residue is met by one of n consecutive numbers.
LEMMA ResidueInWindow ==
  ASSUME NEW a \in Int, NEW n \in Nat \ {0}, NEW i \in 0 .. n - 1
  PROVE  \E p \in a .. a + n - 1 : p % n = i
<1> DEFINE d == (i - a) % n
<1>1. d \in 0 .. n - 1
  BY DivMod
<1>2. (a + d) % n = i
  <2>1. i - a \in Int /\ d % n = (i - a) % n
    <3>1. d = 0 * n + d /\ i - a \in Int
      BY <1>1
    <3>2. d \in Int
      BY <1>1
    <3> HIDE DEF d
    <3>3. d % n = d
      BY <3>1, <3>2, <1>1, ModUnique
    <3> QED BY <3>1, <3>3 DEF d
  <2> HIDE DEF d
  <2>2. d \in Int
    BY <1>1
  <2>3. (d + a) % n = ((i - a) + a) % n
    BY <2>1, <2>2, SameRemainderPlus
  <2>4. d + a = a + d /\ (i - a) + a = i
    BY <2>2
  <2>5. i = 0 * n + i
    OBVIOUS
  <2>6. i % n = i
    BY <2>5, ModUnique
  <2> QED BY <2>3, <2>4, <2>6
<1> HIDE DEF d
<1> QED BY <1>1, <1>2
-------------------------------------------------------------------------------
(***************************************************************************)
(* The window.  Positions are integers that never wrap; position p lies in *)
(* slot p % kCapacity.  A word (mFront, mBack or a copy of one) stands for *)
(* every position its index bits agree with.                               *)
(***************************************************************************)
View(s, p) == s[p % kCapacity]
Same(w, p) == w % kMask2 = p % kMask2
Word == 0 .. IndexMod - 1

Reading == {"readBack", "readFront", "saysEmpty", "saysNotEmpty"}
OwnerPcs == {"idle", "pushFront", "publishFront", "popFront", "popFrontMove"}
              \cup Reading
HolderPcs == {"pushBack", "publishBack", "popBack", "popBackMove", "half"}
ThiefPcs == {"idle", "lock"} \cup Reading \cup HolderPcs
BusyFront == {"pushFront", "publishFront", "popFront"}
BusyBack == {"pushBack", "publishBack", "popBack"}
Pushing == {"pushFront", "publishFront", "pushBack", "publishBack"}

\* Where everybody is, what the locals can be, and who has a task in its hands:
\* the lock is held by the one thief between its claim and its move.
Control ==
  /\ pc \in [Threads -> OwnerPcs \cup ThiefPcs]
  /\ op \in [Threads -> {"none", "Empty", "PopBack", "PopBackHalf"}]
  /\ front \in [Threads -> Word] /\ back \in [Threads -> Word]
  /\ mid \in [Threads -> -1 .. kCapacity - 1]
  /\ start \in [Threads -> -1 .. kCapacity - 1]
  /\ pc[Owner] \in OwnerPcs /\ (pc[Owner] \in Reading => op[Owner] = "Empty")
  /\ \A t \in Thieves : pc[t] \in ThiefPcs /\ (pc[t] \in HolderPcs <=> mMutex = t)
  /\ \A t \in Threads : task[t] # 0 <=> pc[t] \in Pushing

\* PopBackHalf has claimed a run of tasks and has not emptied all of it.
Halving(t) == pc[t] = "half" /\ start[t] # -1 /\ mid[t] >= 0
\* PopBackHalf has emptied its run and has not moved mBack beyond it.
Halved(t) == pc[t] = "half" /\ start[t] # -1 /\ mid[t] = -1

\* The words and their copies against the occupied positions lo .. hi - 1.
FrontWords(hi) ==
  /\ Same(mFront, IF pc[Owner] = "pushFront" THEN hi - 1
                  ELSE IF pc[Owner] = "popFrontMove" THEN hi + 1 ELSE hi)
  /\ pc[Owner] \in BusyFront => Same(front[Owner], hi - 1)
  /\ pc[Owner] = "popFrontMove" => Same(front[Owner], hi)
HolderWords(t, lo) ==
  /\ pc[t] = "pushBack" => Same(mBack, lo + 1)
  /\ pc[t] = "publishBack" => Same(mBack, lo)
  /\ pc[t] \in BusyBack => Same(back[t], lo)
  /\ pc[t] = "popBackMove" => Same(back[t], lo - 1)
  /\ pc[t] = "half" /\ ~Halved(t) => Same(mBack, lo) /\ Same(back[t], lo)
  /\ Halved(t) => Same(back[t] + start[t], lo - 1)
BackWords(lo) ==
  (mMutex = Nobody => Same(mBack, lo)) /\ \A t \in Thieves : HolderWords(t, lo)

\* Position p is in state s, with a task in it or without.
Looks(p, s, full) == View(slot, p).state = s /\ (View(slot, p).task # 0 <=> full)

\* What the owner and the holder of the lock have claimed.
OwnerAt(hi, p) == pc[Owner] \in BusyFront /\ p = hi - 1
HolderAt(t, lo, p) ==
  \/ pc[t] \in BusyBack /\ p = lo
  \/ /\ Halving(t) /\ p \in lo + mid[t] .. lo + start[t]
     /\ p = lo + mid[t] => mid[t] = start[t]
BackAt(lo, p) == \E t \in Thieves : HolderAt(t, lo, p)

\* The occupied positions fit the ring; the claimed ones are apart; the others
\* are ready, and outside there is nothing.
Fits(lo, hi) == lo <= hi /\ hi <= lo + kCapacity
FrontClaim(lo, hi) ==
  pc[Owner] \in BusyFront => lo < hi /\ Looks(hi - 1, "kBusy", pc[Owner] = "popFront")
HolderClaim(t, lo, hi) ==
  /\ pc[t] \in BusyBack => lo < hi /\ Looks(lo, "kBusy", pc[t] = "popBack")
  /\ Halving(t) =>
       /\ mid[t] <= start[t] /\ lo + start[t] < hi
       /\ mid[t] = start[t] => Looks(lo + mid[t], "kBusy", TRUE)
       /\ \A p \in lo + mid[t] + 1 .. lo + start[t] : Looks(p, "kEmpty", FALSE)
BackClaim(lo, hi) == \A t \in Thieves : HolderClaim(t, lo, hi)
ClaimsApart(lo, hi) == \A p \in lo .. hi - 1 : ~(OwnerAt(hi, p) /\ BackAt(lo, p))
ReadyBetween(lo, hi) ==
  \A p \in lo .. hi - 1 :
    ~OwnerAt(hi, p) /\ ~BackAt(lo, p) => Looks(p, "kReady", TRUE)
EmptyOutside(lo, hi) == \A p \in hi .. lo + kCapacity - 1 : Looks(p, "kEmpty", FALSE)

Ring(lo, hi) ==
  /\ Fits(lo, hi) /\ FrontClaim(lo, hi) /\ BackClaim(lo, hi)
  /\ ClaimsApart(lo, hi) /\ ReadyBetween(lo, hi) /\ EmptyOutside(lo, hi)

Window(lo, hi) == FrontWords(hi) /\ BackWords(lo) /\ Ring(lo, hi)

\* Every task offered so far is in exactly one hand, one slot, or out; the
\* others are nowhere.
Unoffered ==
  /\ \A t \in Threads : task[t] <= pushed
  /\ \A i \in Slots : slot[i].task <= pushed
  /\ \A x \in Tasks : x > pushed => popped[x] = 0
HandsApart == \A t, u \in Threads : task[t] = task[u] /\ task[t] # 0 => t = u
SlotsApart == \A i, j \in Slots : slot[i].task = slot[j].task /\ slot[i].task # 0 => i = j
HandOrSlot == \A t \in Threads, i \in Slots : task[t] = slot[i].task => task[t] = 0
OutOrIn ==
  \A x \in Tasks :
    /\ popped[x] \in {0, 1}
    /\ popped[x] = 1 => /\ \A t \in Threads : task[t] # x
                        /\ \A i \in Slots : slot[i].task # x
Somewhere ==
  \A x \in 1 .. pushed : popped[x] = 0 =>
    (\E t \in Threads : task[t] = x) \/ (\E i \in Slots : slot[i].task = x)

OnePlace ==
  Unoffered /\ HandsApart /\ SlotsApart /\ HandOrSlot /\ OutOrIn /\ Somewhere

\* The inductive invariant.
IInv == TypeOK /\ Control /\ OnePlace /\ \E lo, hi \in Int : Window(lo, hi)

-------------------------------------------------------------------------------
(***************************************************************************)
(* Positions and slots.                                                    *)
(***************************************************************************)
SlotType == [state : {"kEmpty", "kBusy", "kReady"}, task : 0 .. MaxPush]

\* The bounds of the positions, for the lemmas below.
LEMMA Bounds ==
  /\ kCapacity \in Nat \ {0} /\ kCapacity > 2
  /\ kMask2 \in Nat \ {0} /\ kMask2 = 2 * kCapacity
  /\ IndexMod \in Nat \ {0} /\ IndexMod = CounterMod * kMask2
  /\ CounterMod \in Nat \ {0} /\ MaxPush \in Nat
<1>1. /\ kCapacity \in Nat \ {0} /\ kCapacity > 2
      /\ kMask2 \in Nat \ {0} /\ kMask2 = 2 * kCapacity
      /\ CounterMod \in Nat \ {0} /\ MaxPush \in Nat
  BY CapacityAssumption DEF kMask2
<1> HIDE DEF kMask2
<1>2. kMask2 * CounterMod = CounterMod * kMask2 /\ kMask2 * CounterMod \in Nat \ {0}
  BY <1>1, SMT
<1> QED BY <1>1, <1>2 DEF IndexMod

\* The slot of a position.
LEMMA SlotOf ==
  ASSUME NEW p \in Int
  PROVE  p % kCapacity \in Slots
BY Bounds, DivMod DEF Slots

\* Every position has a slot.
LEMMA ViewType ==
  ASSUME NEW s \in [Slots -> SlotType], NEW p \in Int
  PROVE  View(s, p) \in SlotType
BY SlotOf DEF View

\* A word finds the slot of every position it stands for.
LEMMA WordAt ==
  ASSUME NEW w \in Int, NEW p \in Int, Same(w, p)
  PROVE  At(w) = p % kCapacity
<1> DEFINE two == 2
<1>1. two \in Nat \ {0} /\ w % (two * kCapacity) = p % (two * kCapacity)
  BY Bounds DEF Same
<1> HIDE DEF two
<1>2. w % kCapacity = p % kCapacity
  BY <1>1, Bounds, SameRemainderFactor
<1> QED BY <1>2 DEF At

\* A word moves with the position it stands for.
LEMMA SamePlus ==
  ASSUME NEW w \in Int, NEW p \in Int, NEW c \in Int, Same(w, p)
  PROVE  Same(w + c, p + c)
BY Bounds, SameRemainderPlus DEF Same

\* A position and the one a round further share a slot.
LEMMA ViewRound ==
  ASSUME NEW s, NEW p \in Int
  PROVE  View(s, p + kCapacity) = View(s, p)
<1> DEFINE q == p + kCapacity
<1>1. q \in Int /\ q - p = 1 * kCapacity
  BY Bounds
<1>2. Apart(q, p, kCapacity)
  BY <1>1 DEF Apart
<1> HIDE DEF q
<1>3. q % kCapacity = p % kCapacity
  BY <1>1, <1>2, Bounds, SameRemainder
<1> QED BY <1>3 DEF View, q

\* Within a window of kCapacity positions a store to a slot is a store to one
\* position.
StoreAt(s, s2, q, r) == s2 = [s EXCEPT ![q % kCapacity] = r]

\* A store to a slot changes one position of the window.
LEMMA ViewSet ==
  ASSUME NEW s \in [Slots -> SlotType], NEW s2, NEW lo \in Int,
         NEW q \in lo .. lo + kCapacity - 1, NEW r, StoreAt(s, s2, q, r)
  PROVE  \A p \in lo .. lo + kCapacity - 1 :
           View(s2, p) = IF p = q THEN r ELSE View(s, p)
<1> TAKE p \in lo .. lo + kCapacity - 1
<1>1. p \in Int /\ q \in Int /\ -kCapacity < p - q /\ p - q < kCapacity
  BY Bounds
<1>2. p % kCapacity \in Slots /\ q % kCapacity \in Slots
  BY <1>1, SlotOf
<1>3. p # q => p % kCapacity # q % kCapacity
  BY <1>1, Bounds, SameRemainderClose
<1> QED BY <1>2, <1>3 DEF View, StoreAt

\* Every slot is the slot of a position of the window.
LEMMA ViewAll ==
  ASSUME NEW lo \in Int, NEW i \in Slots
  PROVE  \E p \in lo .. lo + kCapacity - 1 : p % kCapacity = i
<1>1. i \in 0 .. kCapacity - 1 /\ kCapacity \in Nat \ {0}
  BY Bounds DEF Slots
<1> QED BY <1>1, ResidueInWindow, Zenon

\* A remainder is its own remainder.
LEMMA RemainderRange ==
  ASSUME NEW a \in Int, NEW n \in Nat \ {0}
  PROVE  (a % n) % n = a % n
<1>1. a % n \in 0 .. n - 1
  BY DivMod
<1> DEFINE r == a % n
<1> HIDE DEF r
<1>2. r \in 0 .. n - 1 /\ r \in Int
  BY <1>1 DEF r
<1>3. r = 0 * n + r
  BY <1>2
<1>4. r % n = r
  BY <1>2, <1>3, ModUnique
<1> QED BY <1>4 DEF r

\* Advance stands for the next position, with the counter ticked.
LEMMA AdvanceWord ==
  ASSUME NEW w \in Int, NEW p \in Int, Same(w, p)
  PROVE  Advance(w) \in Word /\ Same(Advance(w), p + 1)
<1> DEFINE v == w + kIncrement
           a == v % IndexMod
<1>1. v \in Int /\ w + 1 \in Int /\ v - (w + 1) = 1 * kMask2
  BY Bounds DEF kIncrement
<1>2. a \in 0 .. IndexMod - 1
  BY <1>1, Bounds, DivMod
<1>3. a % IndexMod = v % IndexMod
  BY <1>1, Bounds, RemainderRange
<1>4. Apart(v, w + 1, kMask2)
  BY <1>1 DEF Apart
<1>5. v % kMask2 = (w + 1) % kMask2
  <2> DEFINE u == w + 1
  <2> HIDE DEF u, v
  <2>1. v \in Int /\ u \in Int /\ Apart(v, u, kMask2)
    BY <1>1, <1>4 DEF u
  <2>2. v % kMask2 = u % kMask2
    BY <2>1, Bounds, SameRemainder
  <2> QED BY <2>2 DEF u
<1>6. a % kMask2 = v % kMask2
  <2> HIDE DEF v, a
  <2>1. a \in Int /\ v \in Int /\ a % (CounterMod * kMask2) = v % (CounterMod * kMask2)
    BY <1>1, <1>2, <1>3, Bounds
  <2> QED BY <2>1, Bounds, SameRemainderFactor
<1>7. (w + 1) % kMask2 = (p + 1) % kMask2
  BY SamePlus DEF Same
<1>8. Advance(w) = a
  BY DEF Advance
<1> QED BY <1>2, <1>5, <1>6, <1>7, <1>8 DEF Same, Word

\* Retreat stands for the position before, with the counter kept.
LEMMA RetreatWord ==
  ASSUME NEW w \in Word, NEW p \in Int, Same(w, p)
  PROVE  Retreat(w) \in Word /\ Same(Retreat(w), p - 1)
<1> DEFINE r == (w - 1) % kMask2
           q == w \div kMask2
<1>1. w \in Int /\ w - 1 \in Int
  BY Bounds DEF Word
<1>2. r \in 0 .. kMask2 - 1
  BY <1>1, Bounds, DivMod
<1>3. q \in Int /\ w % kMask2 \in 0 .. kMask2 - 1 /\ w = q * kMask2 + (w % kMask2)
  BY <1>1, Bounds, DivMod
<1>4. Retreat(w) = r + q * kMask2
  BY DEF Retreat
<1> HIDE DEF r, q
<1>5. q >= 0
  <2>1. q <= -1 => q * kMask2 <= -kMask2
    BY <1>3, Bounds, SMT
  <2> QED BY <1>3, <2>1, Bounds DEF Word
<1>6. q <= CounterMod - 1
  <2>1. q >= CounterMod => q * kMask2 >= CounterMod * kMask2
    BY <1>3, Bounds, SMT
  <2> QED BY <1>3, <2>1, Bounds DEF Word
<1>7. q * kMask2 >= 0 /\ q * kMask2 <= (CounterMod - 1) * kMask2
  BY <1>3, <1>5, <1>6, Bounds, SMT
<1>8. (CounterMod - 1) * kMask2 = CounterMod * kMask2 - kMask2
  BY Bounds, SMT
<1>9. Retreat(w) \in Word
  BY <1>2, <1>3, <1>4, <1>7, <1>8, Bounds DEF Word
<1>10. Retreat(w) % kMask2 = r
  BY <1>2, <1>3, <1>4, <1>9, Bounds, ModUnique DEF Word
<1>11. Same(w + (-1), p + (-1))
  BY <1>1, SamePlus
<1>12. w + (-1) = w - 1 /\ p + (-1) = p - 1
  BY <1>1
<1>13. r = (p - 1) % kMask2
  BY <1>11, <1>12 DEF Same, r
<1> QED BY <1>9, <1>10, <1>13, RemainderRange, Bounds DEF Same

-------------------------------------------------------------------------------
(***************************************************************************)
(* Where the tasks are: the four ways a step can move one.                 *)
(***************************************************************************)
\* The types a move of a task relies on.
PlaceTypes ==
  /\ slot \in [Slots -> SlotType] /\ task \in [Threads -> 0 .. MaxPush]
  /\ pushed \in 0 .. MaxPush /\ popped \in [Tasks -> Nat]

\* What the lemmas about places need of the types.
LEMMA PlaceTyped ==
  ASSUME TypeOK
  PROVE  PlaceTypes
BY DEF TypeOK, PlaceTypes, SlotType

\* A step that moves no task keeps every task in its place.
LEMMA PlaceKept ==
  ASSUME OnePlace, pushed' = pushed, popped' = popped, task' = task,
         \A i \in Slots : slot'[i].task = slot[i].task
  PROVE  OnePlace'
BY DEF OnePlace, Unoffered, HandsApart, SlotsApart, HandOrSlot, OutOrIn, Somewhere

\* A task is offered and stays in the hands of its thread.
LEMMA PlaceOffered ==
  ASSUME PlaceTypes, OnePlace, NEW t \in Threads, task[t] = 0,
         pushed < MaxPush, pushed' = pushed + 1, popped' = popped,
         task' = [task EXCEPT ![t] = pushed + 1],
         \A i \in Slots : slot'[i].task = slot[i].task
  PROVE  OnePlace'
<1>1. \A i \in Slots : slot[i].task \in 0 .. MaxPush
  BY DEF PlaceTypes, SlotType
<1>2. \A u \in Threads : task[u] \in 0 .. MaxPush /\ task'[u] = IF u = t THEN pushed + 1 ELSE task[u]
  BY DEF PlaceTypes
<1>3. pushed \in Nat /\ \A x \in 1 .. pushed + 1 : x \in 1 .. pushed \/ x = pushed + 1
  BY DEF PlaceTypes
<1>4. \A x \in Tasks : x \in Nat
  BY DEF Tasks
<1>5. Unoffered'
  BY <1>1, <1>2, <1>3, <1>4, Bounds
  DEF OnePlace, Unoffered, HandsApart, SlotsApart, HandOrSlot, OutOrIn, Somewhere,
      PlaceTypes, Tasks
<1>6. HandsApart'
  BY <1>1, <1>2, <1>3, <1>4, Bounds
  DEF OnePlace, Unoffered, HandsApart, SlotsApart, HandOrSlot, OutOrIn, Somewhere,
      PlaceTypes, Tasks
<1>7. SlotsApart'
  BY <1>1, <1>2, <1>3, <1>4, Bounds
  DEF OnePlace, Unoffered, HandsApart, SlotsApart, HandOrSlot, OutOrIn, Somewhere,
      PlaceTypes, Tasks
<1>8. HandOrSlot'
  BY <1>1, <1>2, <1>3, <1>4, Bounds
  DEF OnePlace, Unoffered, HandsApart, SlotsApart, HandOrSlot, OutOrIn, Somewhere,
      PlaceTypes, Tasks
<1>9. OutOrIn'
  BY <1>1, <1>2, <1>3, <1>4, Bounds
  DEF OnePlace, Unoffered, HandsApart, SlotsApart, HandOrSlot, OutOrIn, Somewhere,
      PlaceTypes, Tasks
<1>10. Somewhere'
  <2> SUFFICES ASSUME NEW x \in 1 .. pushed + 1, popped[x] = 0
               PROVE  (\E u \in Threads : task'[u] = x) \/ (\E i \in Slots : slot'[i].task = x)
    BY DEF Somewhere
  <2>1. CASE x = pushed + 1
    BY <1>2, <2>1
  <2>2. CASE x # pushed + 1
    <3>1. x \in 1 .. pushed
      BY <1>3, <2>2
    <3>2. (\E u \in Threads : task[u] = x) \/ (\E i \in Slots : slot[i].task = x)
      BY <3>1 DEF OnePlace, Somewhere
    <3>3. ASSUME NEW u \in Threads, task[u] = x PROVE task'[u] = x
      BY <1>2, <3>1, <3>3
    <3> QED BY <3>2, <3>3
  <2> QED BY <2>1, <2>2
<1> QED BY <1>5, <1>6, <1>7, <1>8, <1>9, <1>10 DEF OnePlace

\* A task is offered and handed back.
LEMMA PlaceRefused ==
  ASSUME PlaceTypes, OnePlace,
         pushed < MaxPush, pushed' = pushed + 1, task' = task,
         popped' = [popped EXCEPT ![pushed + 1] = @ + 1], slot' = slot
  PROVE  OnePlace'
<1>1. \A i \in Slots : slot[i].task \in 0 .. MaxPush
  BY DEF PlaceTypes, SlotType
<1>2. \A u \in Threads : task[u] \in 0 .. MaxPush
  BY DEF PlaceTypes
<1>3. pushed \in Nat /\ \A x \in 1 .. pushed + 1 : x \in 1 .. pushed \/ x = pushed + 1
  BY DEF PlaceTypes
<1>4. \A x \in Tasks : x \in Nat
  BY DEF Tasks
<1>5. pushed + 1 \in Tasks /\ popped[pushed + 1] = 0
  BY Bounds DEF OnePlace, Unoffered, OutOrIn, PlaceTypes, Tasks
<1>6. \A x \in Tasks : popped'[x] = IF x = pushed + 1 THEN 1 ELSE popped[x]
  BY <1>5 DEF PlaceTypes
<1>7. Unoffered'
  BY <1>1, <1>2, <1>3, <1>4, <1>5, <1>6, Bounds
  DEF OnePlace, Unoffered, HandsApart, SlotsApart, HandOrSlot, OutOrIn, Somewhere, Tasks
<1>8. HandsApart'
  BY <1>1, <1>2, <1>3, <1>4, <1>5, <1>6, Bounds
  DEF OnePlace, Unoffered, HandsApart, SlotsApart, HandOrSlot, OutOrIn, Somewhere, Tasks
<1>9. SlotsApart'
  BY <1>1, <1>2, <1>3, <1>4, <1>5, <1>6, Bounds
  DEF OnePlace, Unoffered, HandsApart, SlotsApart, HandOrSlot, OutOrIn, Somewhere, Tasks
<1>10. HandOrSlot'
  BY <1>1, <1>2, <1>3, <1>4, <1>5, <1>6, Bounds
  DEF OnePlace, Unoffered, HandsApart, SlotsApart, HandOrSlot, OutOrIn, Somewhere, Tasks
<1>11. OutOrIn'
  BY <1>1, <1>2, <1>3, <1>4, <1>5, <1>6, Bounds
  DEF OnePlace, Unoffered, HandsApart, SlotsApart, HandOrSlot, OutOrIn, Somewhere, Tasks
<1>12. Somewhere'
  BY <1>1, <1>2, <1>3, <1>4, <1>5, <1>6, Bounds
  DEF OnePlace, Unoffered, HandsApart, SlotsApart, HandOrSlot, OutOrIn, Somewhere, Tasks
<1> QED BY <1>7, <1>8, <1>9, <1>10, <1>11, <1>12 DEF OnePlace

\* A task goes from the hands of a thread into an empty slot.
LEMMA PlacePublished ==
  ASSUME PlaceTypes, OnePlace, NEW t \in Threads, NEW i \in Slots,
         task[t] # 0, slot[i].task = 0, slot' = [slot EXCEPT ![i] = [state |-> "kReady", task |-> task[t]]],
         task' = [task EXCEPT ![t] = 0], pushed' = pushed, popped' = popped
  PROVE  OnePlace'
<1>1. \A j \in Slots : slot'[j].task = IF j = i THEN task[t] ELSE slot[j].task
  BY DEF PlaceTypes, SlotType
<1>2. \A u \in Threads : task'[u] = IF u = t THEN 0 ELSE task[u]
  BY DEF PlaceTypes
<1>3. pushed \in Nat
  BY DEF PlaceTypes
<1>4. \A x \in Tasks : x \in Nat /\ x # 0
  BY DEF Tasks
<1>5. Unoffered'
  BY <1>1, <1>2, <1>3, <1>4, Bounds
  DEF OnePlace, Unoffered, HandsApart, SlotsApart, HandOrSlot, OutOrIn, Somewhere, Tasks
<1>6. HandsApart'
  BY <1>1, <1>2, <1>3, <1>4, Bounds
  DEF OnePlace, Unoffered, HandsApart, SlotsApart, HandOrSlot, OutOrIn, Somewhere, Tasks
<1>7. SlotsApart'
  BY <1>1, <1>2, <1>3, <1>4, Bounds
  DEF OnePlace, Unoffered, HandsApart, SlotsApart, HandOrSlot, OutOrIn, Somewhere, Tasks
<1>8. HandOrSlot'
  BY <1>1, <1>2, <1>3, <1>4, Bounds
  DEF OnePlace, Unoffered, HandsApart, SlotsApart, HandOrSlot, OutOrIn, Somewhere, Tasks
<1>9. OutOrIn'
  BY <1>1, <1>2, <1>3, <1>4, Bounds
  DEF OnePlace, Unoffered, HandsApart, SlotsApart, HandOrSlot, OutOrIn, Somewhere, Tasks
<1>10. Somewhere'
  BY <1>1, <1>2, <1>3, <1>4, Bounds
  DEF OnePlace, Unoffered, HandsApart, SlotsApart, HandOrSlot, OutOrIn, Somewhere, Tasks
<1> QED BY <1>5, <1>6, <1>7, <1>8, <1>9, <1>10 DEF OnePlace

\* A task that is handed out keeps the types.
LEMMA TakeTyped ==
  ASSUME PlaceTypes, NEW t \in Threads, NEW x, Take(t, x)
  PROVE  task' \in [Threads -> 0 .. MaxPush] /\ popped' \in [Tasks -> Nat]
<1>1. task' = [task EXCEPT ![t] = 0] /\ popped' = [popped EXCEPT ![x] = popped[x] + 1]
  BY DEF Take
<1>2. 0 \in 0 .. MaxPush
  BY Bounds
<1>3. \A y \in Tasks : popped'[y] \in Nat
  <2> TAKE y \in Tasks
  <2>1. popped[y] \in Nat
    BY DEF PlaceTypes
  <2> QED BY <1>1, <2>1 DEF PlaceTypes
<1> QED BY <1>1, <1>2, <1>3 DEF PlaceTypes

\* A task goes out of its slot.
LEMMA PlaceTaken ==
  ASSUME PlaceTypes, OnePlace, NEW t \in Threads, NEW i \in Slots,
         task[t] = 0, slot[i].task # 0,
         slot' = [slot EXCEPT ![i] = [state |-> "kEmpty", task |-> 0]],
         Take(t, slot[i].task), pushed' = pushed
  PROVE  OnePlace'
<1> DEFINE y == slot[i].task
<1>1. \A j \in Slots : slot'[j].task = IF j = i THEN 0 ELSE slot[j].task
  BY DEF PlaceTypes, SlotType
<1>2. \A u \in Threads : task'[u] = task[u]
  BY DEF PlaceTypes, Take
<1>3. pushed \in Nat
  BY DEF PlaceTypes
<1>4. \A x \in Tasks : x \in Nat /\ x # 0
  BY DEF Tasks
<1>5. y \in Tasks /\ popped[y] = 0
  BY Bounds DEF OnePlace, Unoffered, OutOrIn, PlaceTypes, Tasks, SlotType
<1>6. \A x \in Tasks : popped'[x] = IF x = y THEN 1 ELSE popped[x]
  BY <1>5 DEF PlaceTypes, Take
<1>7. Unoffered'
  BY <1>1, <1>2, <1>3, <1>4, <1>5, <1>6, Bounds
  DEF OnePlace, Unoffered, HandsApart, SlotsApart, HandOrSlot, OutOrIn, Somewhere, Tasks
<1>8. HandsApart'
  BY <1>1, <1>2, <1>3, <1>4, <1>5, <1>6, Bounds
  DEF OnePlace, Unoffered, HandsApart, SlotsApart, HandOrSlot, OutOrIn, Somewhere, Tasks
<1>9. SlotsApart'
  BY <1>1, <1>2, <1>3, <1>4, <1>5, <1>6, Bounds
  DEF OnePlace, Unoffered, HandsApart, SlotsApart, HandOrSlot, OutOrIn, Somewhere, Tasks
<1>10. HandOrSlot'
  BY <1>1, <1>2, <1>3, <1>4, <1>5, <1>6, Bounds
  DEF OnePlace, Unoffered, HandsApart, SlotsApart, HandOrSlot, OutOrIn, Somewhere, Tasks
<1>11. OutOrIn'
  BY <1>1, <1>2, <1>3, <1>4, <1>5, <1>6, Bounds
  DEF OnePlace, Unoffered, HandsApart, SlotsApart, HandOrSlot, OutOrIn, Somewhere, Tasks
<1>12. Somewhere'
  <2> SUFFICES ASSUME NEW x \in 1 .. pushed, popped'[x] = 0
               PROVE  (\E u \in Threads : task'[u] = x) \/ (\E j \in Slots : slot'[j].task = x)
    BY DEF Somewhere
  <2>1. x \in Tasks /\ x # 0
    BY Bounds DEF PlaceTypes, Tasks
  <2>2. x # y /\ popped[x] = 0
    BY <1>6, <2>1
  <2>3. (\E u \in Threads : task[u] = x) \/ (\E j \in Slots : slot[j].task = x)
    BY <2>2 DEF OnePlace, Somewhere
  <2>4. ASSUME NEW j \in Slots, slot[j].task = x PROVE slot'[j].task = x
    BY <1>1, <2>2, <2>4
  <2> QED BY <1>2, <2>3, <2>4
<1> QED BY <1>7, <1>8, <1>9, <1>10, <1>11, <1>12 DEF OnePlace

-------------------------------------------------------------------------------
(***************************************************************************)
(* What a window shows.                                                    *)
(***************************************************************************)
\* The oldest occupied position is not empty, so a push at the front stops there.
LEMMA BackTaken ==
  ASSUME Control, NEW lo \in Int, NEW hi \in Int, Ring(lo, hi), lo < hi
  PROVE  View(slot, lo).state # "kEmpty"
<1>1. \A t \in Thieves : mid[t] \in Int /\ start[t] \in Int
  BY Bounds DEF Control, Threads
<1>2. lo \in lo .. hi - 1
  OBVIOUS
<1>3. CASE OwnerAt(hi, lo)
  BY <1>3
  DEF OwnerAt, Ring, Fits, FrontClaim, BackClaim, HolderClaim, ClaimsApart,
      ReadyBetween, EmptyOutside, Looks
<1>4. CASE BackAt(lo, lo)
  BY <1>1, <1>4
  DEF BackAt, HolderAt, Ring, Fits, FrontClaim, BackClaim, HolderClaim, ClaimsApart,
      ReadyBetween, EmptyOutside, Looks, Halving
<1>5. CASE ~OwnerAt(hi, lo) /\ ~BackAt(lo, lo)
  BY <1>2, <1>5
  DEF Ring, Fits, FrontClaim, BackClaim, HolderClaim, ClaimsApart, ReadyBetween,
      EmptyOutside, Looks
<1> QED BY <1>3, <1>4, <1>5

\* A ready position is occupied and claimed by nobody.
LEMMA ReadyFree ==
  ASSUME Control, NEW lo \in Int, NEW hi \in Int, Ring(lo, hi),
         NEW p \in lo .. lo + kCapacity - 1, View(slot, p).state = "kReady"
  PROVE  /\ p < hi
         /\ ~OwnerAt(hi, p) /\ ~BackAt(lo, p)
         /\ View(slot, p).task # 0
<1>1. \A t \in Thieves : mid[t] \in Int /\ start[t] \in Int
  BY Bounds DEF Control, Threads
<1>2. p \in Int /\ p < hi
  BY Bounds
  DEF Ring, Fits, FrontClaim, BackClaim, HolderClaim, ClaimsApart, ReadyBetween,
      EmptyOutside, Looks
<1>3. ~OwnerAt(hi, p)
  BY DEF OwnerAt, Ring, Fits, FrontClaim, BackClaim, HolderClaim, ClaimsApart,
         ReadyBetween, EmptyOutside, Looks
<1>4. ~BackAt(lo, p)
  BY <1>1, <1>2
  DEF BackAt, HolderAt, Ring, Fits, FrontClaim, BackClaim, HolderClaim, ClaimsApart,
      ReadyBetween, EmptyOutside, Looks, Halving
<1> QED BY <1>2, <1>3, <1>4 DEF Ring, Fits, FrontClaim, BackClaim, HolderClaim, ClaimsApart, ReadyBetween, EmptyOutside, Looks

\* While nobody has the lock nothing is claimed at the back.
LEMMA FreeBack ==
  ASSUME Control, mMutex = Nobody
  PROVE  /\ \A t \in Thieves : pc[t] \notin HolderPcs
         /\ \A lo, p \in Int : ~BackAt(lo, p)
BY CapacityAssumption DEF Control, BackAt, HolderAt, HolderPcs, BusyBack, Halving

\* At most one thief is between its claim and its move.
LEMMA OneHolder ==
  ASSUME Control, NEW t \in Thieves, pc[t] \in HolderPcs
  PROVE  mMutex = t /\ \A u \in Thieves : u # t => pc[u] \notin HolderPcs
BY DEF Control

\* The thieves stand where they stood.
ThievesKept ==
  \A t \in Thieves : pc'[t] = pc[t] /\ mid'[t] = mid[t] /\ start'[t] = start[t]

\* A step of the owner changes nothing that the holder has claimed.
LEMMA BackAtKept ==
  ASSUME ThievesKept, NEW lo, NEW p
  PROVE  BackAt(lo, p)' <=> BackAt(lo, p)
BY DEF ThievesKept, BackAt, HolderAt, Halving

\* Only occupied positions are claimed at the back.
LEMMA BackInside ==
  ASSUME Control, NEW lo \in Int, NEW hi \in Int, Ring(lo, hi), NEW p \in Int, BackAt(lo, p)
  PROVE  lo <= p /\ p < hi
<1>1. \A t \in Thieves : mid[t] \in Int /\ start[t] \in Int
  BY Bounds DEF Control, Threads
<1> QED BY <1>1 DEF Ring, BackClaim, HolderClaim, BackAt, HolderAt, Halving, Looks

BackUntouched(lo, hi, h) ==
  \A p \in lo .. hi - 1 : BackAt(lo, p) => p < h /\ View(slot', p) = View(slot, p)

\* What the owner does leaves alone what is claimed at the back.
LEMMA BackClaimKept ==
  ASSUME IInv, ThievesKept, NEW lo \in Int, NEW hi \in Int, NEW h \in Int, Ring(lo, hi),
         BackUntouched(lo, hi, h)
  PROVE  BackClaim(lo, h)'
<1>1. \A t \in Thieves : mid[t] \in Int /\ start[t] \in Int
  BY Bounds DEF IInv, Control, Threads
<1>2. ASSUME NEW t \in Thieves, pc[t] \in BusyBack
      PROVE  lo < h /\ (Looks(lo, "kBusy", pc[t] = "popBack"))'
  <2>1. lo < hi /\ View(slot, lo).state = "kBusy" /\ (View(slot, lo).task # 0 <=> pc[t] = "popBack")
    BY <1>2 DEF Ring, BackClaim, HolderClaim, Looks
  <2>2. BackAt(lo, lo)
    BY <1>2 DEF BackAt, HolderAt
  <2>3. lo < h /\ View(slot', lo) = View(slot, lo)
    BY <2>1, <2>2 DEF BackUntouched
  <2> QED BY <2>1, <2>3 DEF Looks, ThievesKept
<1>3. ASSUME NEW t \in Thieves, Halving(t)
      PROVE  /\ mid[t] <= start[t] /\ lo + start[t] < h
             /\ mid[t] = start[t] => (Looks(lo + mid[t], "kBusy", TRUE))'
             /\ \A p \in lo + mid[t] + 1 .. lo + start[t] : (Looks(p, "kEmpty", FALSE))'
  <2>1. /\ mid[t] <= start[t] /\ lo + start[t] < hi /\ mid[t] >= 0
        /\ mid[t] = start[t] => Looks(lo + mid[t], "kBusy", TRUE)
        /\ \A p \in lo + mid[t] + 1 .. lo + start[t] : Looks(p, "kEmpty", FALSE)
    BY <1>3 DEF Ring, BackClaim, HolderClaim, Halving
  <2>2. \A p \in lo + mid[t] + 1 .. lo + start[t] : p \in lo .. hi - 1 /\ BackAt(lo, p)
    BY <1>1, <1>3, <2>1 DEF BackAt, HolderAt
  <2>3. mid[t] = start[t] => lo + mid[t] \in lo .. hi - 1 /\ BackAt(lo, lo + mid[t])
    BY <1>1, <1>3, <2>1 DEF BackAt, HolderAt
  <2>4. lo + start[t] < h
    BY <1>1, <2>1, <2>2, <2>3 DEF BackUntouched
  <2>5. mid[t] = start[t] => View(slot', lo + mid[t]) = View(slot, lo + mid[t])
    BY <2>3 DEF BackUntouched
  <2> QED BY <2>1, <2>2, <2>4, <2>5 DEF Looks, ThievesKept, BackUntouched
<1> QED BY <1>2, <1>3 DEF BackClaim, HolderClaim, ThievesKept, Halving

\* The ring after a step of the owner: it need only say what it did at the front.
OwnerDid(lo, h) ==
  /\ Fits(lo, h) /\ FrontClaim(lo, h)' /\ EmptyOutside(lo, h)'
  /\ \A p \in lo .. h - 1 : IF OwnerAt(h, p)' THEN ~BackAt(lo, p)
                            ELSE BackAt(lo, p) \/ Looks(p, "kReady", TRUE)'

\* A step of the owner at the front keeps the ring: what it did there, and a
\* back end that it left alone.
LEMMA OwnerRing ==
  ASSUME IInv, ThievesKept, NEW lo \in Int, NEW hi \in Int, NEW h \in Int,
         Ring(lo, hi), BackUntouched(lo, hi, h), OwnerDid(lo, h)
  PROVE  Ring(lo, h)'
<1>1. BackClaim(lo, h)'
  BY BackClaimKept
<1>2. \A p \in Int : BackAt(lo, p)' <=> BackAt(lo, p)
  BY BackAtKept
<1>3. ClaimsApart(lo, h)' /\ ReadyBetween(lo, h)'
  BY <1>2 DEF OwnerDid, ClaimsApart, ReadyBetween, Looks, OwnerAt
<1> QED BY <1>1, <1>3 DEF OwnerDid, Ring, Fits

\* A refused push changes nothing but the count of what was offered.
Refused ==
  /\ pushed < MaxPush /\ pushed' = pushed + 1
  /\ popped' = [popped EXCEPT ![pushed + 1] = @ + 1]
  /\ UNCHANGED <<mFront, mBack, slot, mMutex, pc, op, task, front, back, mid, start, sawEmpty>>

\* PushFront gives the task back when the slot is not empty.
LEMMA RefusedStep ==
  ASSUME IInv, Refused
  PROVE  IInv'
<1>1. PICK lo, hi \in Int : Window(lo, hi)
  BY DEF IInv
<1>2. TypeOK'
  BY Bounds DEF Refused, IInv, TypeOK, Tasks
<1>3. Control'
  BY DEF Refused, IInv, Control
<1>4. OnePlace'
  BY PlaceTyped, PlaceRefused DEF Refused, IInv
<1>5. Window(lo, hi)'
  BY <1>1 DEF Refused, Window, FrontWords, BackWords, HolderWords, Ring, Fits, FrontClaim,
     BackClaim, HolderClaim, ClaimsApart, ReadyBetween, EmptyOutside, Looks, OwnerAt,
     BackAt, HolderAt, Halving, Halved
<1> QED BY <1>2, <1>3, <1>4, <1>5 DEF IInv

\* PushFront's exchange of the state of the slot at mFront.
LEMMA PushFrontClaimStep ==
  ASSUME IInv, PushFrontClaim
  PROVE  IInv'
<1>1. PICK lo, hi \in Int : Window(lo, hi)
  BY DEF IInv
<1>2. Owner \in Threads /\ pc[Owner] = "idle" /\ task[Owner] = 0
  BY DEF IInv, Control, Threads, Pushing, PushFrontClaim
<1>3. Same(mFront, hi) /\ mFront \in Int /\ mFront \in Word
  BY <1>1, <1>2, Bounds DEF Window, FrontWords, IInv, TypeOK, Word
<1>4. At(mFront) = hi % kCapacity
  BY <1>3, WordAt
<1>5. slot[At(mFront)] = View(slot, hi) /\ At(mFront) \in Slots
  BY <1>4, SlotOf DEF View
<1>6. PlaceTypes /\ OnePlace /\ slot \in [Slots -> SlotType]
  BY PlaceTyped DEF IInv, PlaceTypes
<1>7. pushed < MaxPush /\ pushed' = pushed + 1 /\ pushed \in Nat
  BY DEF PushFrontClaim, Offer, IInv, TypeOK
<1>8. CASE slot[At(mFront)].state # "kEmpty"
  BY <1>8, <1>7, RefusedStep DEF PushFrontClaim, Refused
<1>9. CASE slot[At(mFront)].state = "kEmpty"
  <2>1. /\ slot' = [slot EXCEPT ![At(mFront)] = [state |-> "kBusy", task |-> 0]]
        /\ task' = [task EXCEPT ![Owner] = pushed + 1]
        /\ front' = [front EXCEPT ![Owner] = mFront]
        /\ pc' = [pc EXCEPT ![Owner] = "pushFront"]
        /\ UNCHANGED <<popped, mFront, mBack, mMutex, op, back, mid, start, sawEmpty>>
    BY <1>9, <1>7 DEF PushFrontClaim, SetSlot, Goto
  <2>2. hi < lo + kCapacity
    <3>1. ASSUME hi = lo + kCapacity PROVE FALSE
      <4>1. View(slot, hi) = View(slot, lo) /\ lo < hi
        BY <3>1, ViewRound, Bounds
      <4> QED BY <4>1, <1>1, <1>5, <1>9, BackTaken DEF Window, IInv
    <3> QED BY <3>1, <1>1, Bounds DEF Window, Ring, Fits
  <2>3. hi \in lo .. lo + kCapacity - 1 /\ View(slot, hi).task = 0 /\ lo <= hi
    BY <1>1, <2>2, Bounds
    DEF Window, Ring, Fits, FrontClaim, BackClaim, HolderClaim, ClaimsApart,
        ReadyBetween, EmptyOutside, Looks
  <2>4. TypeOK'
    BY <1>2, <1>5, <1>7, <2>1, Bounds DEF IInv, TypeOK, Tasks
  <2>5. Control'
    BY <1>2, <1>3, <1>7, <2>1, CapacityAssumption
    DEF IInv, Control, OwnerPcs, Reading, Pushing, Threads, HolderPcs, TypeOK
  <2>6. OnePlace'
    <3>1. \A i \in Slots : slot'[i].task = slot[i].task
      BY <1>5, <1>6, <2>1, <2>3 DEF SlotType
    <3> QED BY <1>2, <1>6, <1>7, <2>1, <3>1, PlaceOffered
  <2>7. \A p \in lo .. lo + kCapacity - 1 :
          View(slot', p) = IF p = hi THEN [state |-> "kBusy", task |-> 0] ELSE View(slot, p)
    <3>1. StoreAt(slot, slot', hi, [state |-> "kBusy", task |-> 0])
      BY <1>4, <2>1 DEF StoreAt
    <3> QED BY <1>6, <2>3, <3>1, ViewSet
  <2>8. FrontWords(hi + 1)'
    BY <1>2, <1>3, <2>1, <2>5 DEF FrontWords, BusyFront, IInv, Control
  <2>9. BackWords(lo)'
    BY <1>1, <2>1, CapacityAssumption
    DEF Window, BackWords, HolderWords, Halved, IInv, Control, Threads
  <2>10. Ring(lo, hi + 1)'
    <3>1. ThievesKept /\ pc'[Owner] = "pushFront" /\ pc[Owner] \notin BusyFront
      BY <1>2, <2>1, CapacityAssumption DEF ThievesKept, IInv, Control, Threads, BusyFront
    <3>2. BackUntouched(lo, hi, hi + 1) /\ hi + 1 \in Int
      BY <1>1, <2>3, <2>7, Bounds DEF BackUntouched, Window, Ring, Fits
    <3>3. ~BackAt(lo, hi)
      BY <1>1, BackInside DEF Window, IInv
    <3>4. Fits(lo, hi + 1) /\ FrontClaim(lo, hi + 1)' /\ EmptyOutside(lo, hi + 1)'
      BY <1>1, <2>2, <2>3, <2>7, <3>1, Bounds
      DEF Window, Ring, Fits, FrontClaim, EmptyOutside, Looks
    <3>5. OwnerDid(lo, hi + 1)
      BY <1>1, <2>3, <2>7, <3>1, <3>3, <3>4, Bounds
      DEF Window, Ring, ReadyBetween, Looks, OwnerAt, OwnerDid, BusyFront
    <3> QED BY <1>1, <3>1, <3>2, <3>5, OwnerRing DEF Window
  <2>11. Window(lo, hi + 1)' /\ hi + 1 \in Int
    BY <2>8, <2>9, <2>10 DEF Window
  <2> QED BY <2>4, <2>5, <2>6, <2>11 DEF IInv
<1> QED BY <1>8, <1>9

\* PushFront stores the new mFront.
LEMMA PushFrontMoveStep ==
  ASSUME IInv, PushFrontMove
  PROVE  IInv'
<1>1. PICK lo, hi \in Int : Window(lo, hi)
  BY DEF IInv
<1>2. /\ pc[Owner] = "pushFront" /\ pc' = [pc EXCEPT ![Owner] = "publishFront"]
      /\ mFront' = Advance(front[Owner])
      /\ UNCHANGED <<mBack, slot, mMutex, op, task, front, back, mid, start, pushed, popped, sawEmpty>>
  BY DEF PushFrontMove, Goto, locals, history
<1>3. Same(front[Owner], hi - 1) /\ front[Owner] \in Int
  BY <1>1, <1>2, Bounds DEF Window, FrontWords, BusyFront, IInv, Control, Threads, Word
<1>4. Advance(front[Owner]) \in Word /\ Same(Advance(front[Owner]), hi)
  <2>1. hi - 1 \in Int /\ (hi - 1) + 1 = hi
    OBVIOUS
  <2> QED BY <2>1, <1>3, AdvanceWord
<1>5. TypeOK'
  BY <1>2, <1>4 DEF IInv, TypeOK, Word
<1>6. Control'
  BY <1>2, CapacityAssumption DEF IInv, Control, OwnerPcs, Reading, Pushing, Threads
<1>7. OnePlace'
  BY <1>2, PlaceKept DEF IInv
<1>8. pc'[Owner] = "publishFront" /\ \A t \in Thieves : pc'[t] = pc[t]
  BY <1>2, CapacityAssumption DEF IInv, Control, Threads
<1>9. Window(lo, hi)'
  BY <1>1, <1>2, <1>4, <1>8
  DEF Window, FrontWords, BackWords, HolderWords, Ring, Fits, FrontClaim, BackClaim,
      HolderClaim, ClaimsApart, ReadyBetween, EmptyOutside, Looks, OwnerAt, BackAt,
      HolderAt, Halving, Halved, BusyFront
<1> QED BY <1>5, <1>6, <1>7, <1>9 DEF IInv

\* PushFront stores the task and the state kReady.
LEMMA PushFrontPublishStep ==
  ASSUME IInv, PushFrontPublish
  PROVE  IInv'
<1>1. PICK lo, hi \in Int : Window(lo, hi)
  BY DEF IInv
<1> DEFINE r == [state |-> "kReady", task |-> task[Owner]]
<1>2. /\ pc[Owner] = "publishFront" /\ pc' = [pc EXCEPT ![Owner] = "idle"]
      /\ slot' = [slot EXCEPT ![At(front[Owner])] = r]
      /\ task' = [task EXCEPT ![Owner] = 0]
      /\ op' = [op EXCEPT ![Owner] = "none"]
      /\ front' = [front EXCEPT ![Owner] = 0] /\ back' = [back EXCEPT ![Owner] = 0]
      /\ mid' = [mid EXCEPT ![Owner] = 0] /\ start' = [start EXCEPT ![Owner] = 0]
      /\ UNCHANGED <<mFront, mBack, mMutex, pushed, popped, sawEmpty>>
  BY DEF PushFrontPublish, Goto, Return, SetSlot, history
<1>3. Same(front[Owner], hi - 1) /\ front[Owner] \in Int /\ Owner \in Threads
  BY <1>1, <1>2, Bounds DEF Window, FrontWords, BusyFront, IInv, Control, Threads, Word
<1>4. At(front[Owner]) = (hi - 1) % kCapacity
  BY <1>3, WordAt
<1>5. slot[At(front[Owner])] = View(slot, hi - 1) /\ At(front[Owner]) \in Slots
  BY <1>4, SlotOf DEF View
<1>6. PlaceTypes /\ OnePlace /\ slot \in [Slots -> SlotType]
  BY PlaceTyped DEF IInv, PlaceTypes
<1>7. /\ hi - 1 \in lo .. lo + kCapacity - 1
      /\ View(slot, hi - 1).task = 0 /\ task[Owner] # 0 /\ task[Owner] \in 0 .. MaxPush
  BY <1>1, <1>2, <1>3, Bounds
  DEF Window, Ring, Fits, FrontClaim, BackClaim, HolderClaim, ClaimsApart, ReadyBetween,
      EmptyOutside, Looks, BusyFront, IInv, TypeOK, Control, Pushing
<1>8. pc'[Owner] = "idle" /\ \A t \in Thieves : pc'[t] = pc[t] /\ mid'[t] = mid[t]
        /\ start'[t] = start[t] /\ back'[t] = back[t]
  BY <1>2, CapacityAssumption DEF IInv, Control, Threads
<1>9. TypeOK'
  BY <1>2, <1>5, <1>7, Bounds DEF IInv, TypeOK
<1>10. Control'
  BY <1>2, <1>3, <1>8, CapacityAssumption, Bounds
  DEF IInv, Control, OwnerPcs, Reading, Pushing, Threads, Word, TypeOK
<1>11. OnePlace'
  BY <1>2, <1>3, <1>5, <1>6, <1>7, PlacePublished
<1>12. \A p \in lo .. lo + kCapacity - 1 : View(slot', p) = IF p = hi - 1 THEN r ELSE View(slot, p)
  <2>1. StoreAt(slot, slot', hi - 1, r)
    BY <1>2, <1>4 DEF StoreAt
  <2> QED BY <1>6, <1>7, <2>1, ViewSet
<1>13. FrontWords(hi)' /\ BackWords(lo)'
  BY <1>1, <1>2, <1>8 DEF Window, FrontWords, BackWords, HolderWords, BusyFront, Halved
<1>14. Ring(lo, hi)'
  <2>1. ThievesKept /\ lo < hi /\ hi <= lo + kCapacity /\ ~BackAt(lo, hi - 1)
    BY <1>1, <1>2, <1>7, <1>8
    DEF ThievesKept, Window, Ring, Fits, FrontClaim, ClaimsApart, OwnerAt, BusyFront
  <2>2. BackUntouched(lo, hi, hi)
    BY <1>12, <2>1, Bounds DEF BackUntouched
  <2>3. Fits(lo, hi) /\ FrontClaim(lo, hi)' /\ EmptyOutside(lo, hi)'
    BY <1>1, <1>8, <1>12, <2>1, Bounds
    DEF Window, Ring, Fits, FrontClaim, EmptyOutside, Looks, BusyFront
  <2>4. OwnerDid(lo, hi)
    BY <1>1, <1>7, <1>8, <1>12, <2>1, <2>3, Bounds
    DEF Window, Ring, ReadyBetween, Looks, OwnerAt, OwnerDid, BusyFront
  <2> QED BY <1>1, <2>1, <2>2, <2>4, OwnerRing DEF Window
<1> QED BY <1>9, <1>10, <1>11, <1>13, <1>14 DEF IInv, Window

\* PopFront's exchange of the state of the slot before mFront.
LEMMA PopFrontClaimStep ==
  ASSUME IInv, PopFrontClaim
  PROVE  IInv'
<1>1. PICK lo, hi \in Int : Window(lo, hi)
  BY DEF IInv
<1> DEFINE i == At(mFront - 1)
           r == [state |-> "kBusy", task |-> slot[i].task]
<1>2. /\ pc[Owner] = "idle" /\ pc' = [pc EXCEPT ![Owner] = "popFront"]
      /\ slot[i].state = "kReady" /\ slot' = [slot EXCEPT ![i] = r]
      /\ front' = [front EXCEPT ![Owner] = Retreat(mFront)]
      /\ UNCHANGED <<mFront, mBack, mMutex, op, task, back, mid, start, pushed, popped>>
  BY DEF PopFrontClaim, Goto, SetSlot
<1>3. Same(mFront, hi) /\ mFront \in Word /\ mFront \in Int /\ Owner \in Threads
  BY <1>1, <1>2, Bounds DEF Window, FrontWords, IInv, TypeOK, Word, Threads
<1>4. i = (hi - 1) % kCapacity
  <2>1. Same(mFront + (-1), hi + (-1))
    BY <1>3, SamePlus
  <2>2. mFront + (-1) = mFront - 1 /\ hi + (-1) = hi - 1 /\ mFront - 1 \in Int /\ hi - 1 \in Int
    BY <1>3
  <2> QED BY <2>1, <2>2, WordAt
<1>5. slot[i] = View(slot, hi - 1) /\ i \in Slots
  BY <1>4, SlotOf DEF View
<1>6. Retreat(mFront) \in Word /\ Same(Retreat(mFront), hi - 1)
  BY <1>3, RetreatWord
<1>7. PlaceTypes /\ OnePlace /\ slot \in [Slots -> SlotType]
  BY PlaceTyped DEF IInv, PlaceTypes
<1>8. lo < hi
  <2>1. ASSUME hi <= lo PROVE FALSE
    <3>1. hi = lo /\ hi - 1 \in Int /\ (hi - 1) + kCapacity = lo + kCapacity - 1
      BY <2>1, <1>1, Bounds DEF Window, Ring, Fits
    <3>2. View(slot, hi - 1) = View(slot, lo + kCapacity - 1)
      BY <3>1, ViewRound
    <3>3. View(slot, lo + kCapacity - 1).state = "kEmpty"
      BY <1>1, <3>1, Bounds
      DEF Window, Ring, Fits, FrontClaim, BackClaim, HolderClaim, ClaimsApart,
          ReadyBetween, EmptyOutside, Looks
    <3> QED BY <1>2, <1>5, <3>2, <3>3
  <2> QED BY <2>1
<1>9. hi - 1 \in lo .. lo + kCapacity - 1
  BY <1>1, <1>8, Bounds DEF Window, Ring, Fits
<1>10. ~BackAt(lo, hi - 1) /\ View(slot, hi - 1).task # 0
  BY <1>1, <1>2, <1>5, <1>9, ReadyFree DEF Window, IInv
<1>11. pc'[Owner] = "popFront" /\ \A t \in Thieves : pc'[t] = pc[t]
  BY <1>2, CapacityAssumption DEF IInv, Control, Threads
<1>12. TypeOK'
  <2>1. sawEmpty' \in [Threads -> BOOLEAN]
    BY DEF PopFrontClaim, Claimed, IInv, TypeOK
  <2> QED BY <1>2, <1>5, <1>7, <2>1 DEF IInv, TypeOK, SlotType
<1>13. Control'
  BY <1>2, <1>3, <1>6, <1>11, CapacityAssumption
  DEF IInv, Control, OwnerPcs, Reading, Pushing, Threads
<1>14. OnePlace'
  <2>1. \A j \in Slots : slot'[j].task = slot[j].task
    BY <1>2, <1>5, <1>7 DEF SlotType
  <2> QED BY <1>2, <1>7, <2>1, PlaceKept
<1>15. \A p \in lo .. lo + kCapacity - 1 : View(slot', p) = IF p = hi - 1 THEN r ELSE View(slot, p)
  <2>1. StoreAt(slot, slot', hi - 1, r)
    BY <1>2, <1>4 DEF StoreAt
  <2> HIDE DEF r
  <2> QED BY <1>7, <1>9, <2>1, ViewSet
<1>16. FrontWords(hi)' /\ BackWords(lo)'
  BY <1>1, <1>2, <1>3, <1>6, <1>11
  DEF Window, FrontWords, BackWords, HolderWords, BusyFront, Halved, IInv, Control
<1>17. Ring(lo, hi)'
  <2>1. ThievesKept /\ hi <= lo + kCapacity
    BY <1>1, <1>2, <1>11 DEF ThievesKept, Window, Ring, Fits
  <2>2. BackUntouched(lo, hi, hi)
    BY <1>10, <1>15, <2>1, Bounds DEF BackUntouched
  <2>3. Fits(lo, hi) /\ FrontClaim(lo, hi)' /\ EmptyOutside(lo, hi)'
    BY <1>1, <1>5, <1>8, <1>9, <1>10, <1>11, <1>15, <2>1, Bounds
    DEF Window, Ring, Fits, FrontClaim, EmptyOutside, Looks, BusyFront
  <2>4. \A p \in lo .. hi - 1 : ~BackAt(lo, p) /\ p # hi - 1 => Looks(p, "kReady", TRUE)'
    <3>1. \A p \in lo .. hi - 1 : p # hi - 1 => View(slot', p) = View(slot, p)
      BY <1>15, <2>1, Bounds
    <3>2. \A p \in lo .. hi - 1 : ~BackAt(lo, p) /\ p # hi - 1 => Looks(p, "kReady", TRUE)
      BY <1>1 DEF Window, Ring, ReadyBetween, OwnerAt
    <3> QED BY <3>1, <3>2 DEF Looks
  <2>5. OwnerDid(lo, hi)
    BY <1>10, <1>11, <2>3, <2>4 DEF OwnerDid, OwnerAt, BusyFront, Looks
  <2> QED BY <1>1, <2>1, <2>2, <2>5, OwnerRing DEF Window
<1> QED BY <1>12, <1>13, <1>14, <1>16, <1>17 DEF IInv, Window

\* PopFront moves the task out and stores kEmpty.
LEMMA PopFrontTakeStep ==
  ASSUME IInv, PopFrontTake
  PROVE  IInv'
<1>1. PICK lo, hi \in Int : Window(lo, hi)
  BY DEF IInv
<1> DEFINE i == At(front[Owner])
           r == [state |-> "kEmpty", task |-> 0]
<1>2. /\ pc[Owner] = "popFront" /\ pc' = [pc EXCEPT ![Owner] = "popFrontMove"]
      /\ slot' = [slot EXCEPT ![i] = r] /\ Take(Owner, slot[i].task)
      /\ UNCHANGED <<mFront, mBack, mMutex, op, front, back, mid, start, pushed, sawEmpty>>
  BY DEF PopFrontTake, Goto, SetSlot, locals
<1>3. Same(front[Owner], hi - 1) /\ front[Owner] \in Int /\ Owner \in Threads
  BY <1>1, <1>2, Bounds DEF Window, FrontWords, BusyFront, IInv, Control, Threads, Word
<1>4. i = (hi - 1) % kCapacity
  BY <1>3, WordAt
<1>5. slot[i] = View(slot, hi - 1) /\ i \in Slots
  BY <1>4, SlotOf DEF View
<1>6. PlaceTypes /\ OnePlace /\ slot \in [Slots -> SlotType]
  BY PlaceTyped DEF IInv, PlaceTypes
<1>7. /\ lo < hi /\ hi - 1 \in lo .. lo + kCapacity - 1
      /\ View(slot, hi - 1).task # 0 /\ task[Owner] = 0 /\ ~BackAt(lo, hi - 1)
  BY <1>1, <1>2, <1>3, Bounds
  DEF Window, Ring, Fits, FrontClaim, BackClaim, HolderClaim, ClaimsApart, ReadyBetween,
      EmptyOutside, Looks, BusyFront, OwnerAt, IInv, TypeOK, Control, Pushing
<1>8. pc'[Owner] = "popFrontMove" /\ \A t \in Thieves : pc'[t] = pc[t]
  BY <1>2, CapacityAssumption DEF IInv, Control, Threads
<1>9. /\ task' = [task EXCEPT ![Owner] = 0]
      /\ popped' = [popped EXCEPT ![slot[i].task] = @ + 1]
  BY <1>2 DEF Take
<1>10. TypeOK'
  <2>1. slot' \in [Slots -> SlotType]
    BY <1>2, <1>5, <1>6, Bounds DEF SlotType
  <2>2. task' \in [Threads -> 0 .. MaxPush] /\ popped' \in [Tasks -> Nat]
    BY <1>2, <1>3, <1>6, TakeTyped
  <2> QED BY <1>2, <2>1, <2>2 DEF IInv, TypeOK, SlotType
<1>11. Control'
  BY <1>2, <1>3, <1>7, <1>8, <1>9, CapacityAssumption
  DEF IInv, Control, OwnerPcs, Reading, Pushing, Threads, TypeOK
<1>12. OnePlace'
  BY <1>2, <1>3, <1>5, <1>6, <1>7, PlaceTaken
<1>13. \A p \in lo .. lo + kCapacity - 1 : View(slot', p) = IF p = hi - 1 THEN r ELSE View(slot, p)
  <2>1. StoreAt(slot, slot', hi - 1, r)
    BY <1>2, <1>4 DEF StoreAt
  <2> QED BY <1>6, <1>7, <2>1, ViewSet
<1>14. FrontWords(hi - 1)' /\ BackWords(lo)'
  BY <1>1, <1>2, <1>3, <1>8
  DEF Window, FrontWords, BackWords, HolderWords, BusyFront, Halved
<1>15. Ring(lo, hi - 1)'
  <2>1. ThievesKept /\ hi <= lo + kCapacity
    BY <1>1, <1>2, <1>8 DEF ThievesKept, Window, Ring, Fits
  <2>2. BackUntouched(lo, hi, hi - 1) /\ hi - 1 \in Int
    BY <1>7, <1>13, <2>1, Bounds DEF BackUntouched
  <2>3. Fits(lo, hi - 1) /\ FrontClaim(lo, hi - 1)' /\ EmptyOutside(lo, hi - 1)'
    BY <1>1, <1>7, <1>8, <1>13, <2>1, Bounds
    DEF Window, Ring, Fits, FrontClaim, EmptyOutside, Looks, BusyFront
  <2>4. \A p \in lo .. hi - 2 : ~BackAt(lo, p) => Looks(p, "kReady", TRUE)'
    <3>1. \A p \in lo .. hi - 1 : p # hi - 1 => View(slot', p) = View(slot, p)
      BY <1>13, <2>1, Bounds
    <3>2. \A p \in lo .. hi - 1 : ~BackAt(lo, p) /\ p # hi - 1 => Looks(p, "kReady", TRUE)
      BY <1>1 DEF Window, Ring, ReadyBetween, OwnerAt
    <3> QED BY <3>1, <3>2 DEF Looks
  <2>5. OwnerDid(lo, hi - 1)
    BY <1>8, <2>3, <2>4 DEF OwnerDid, OwnerAt, BusyFront, Looks
  <2> QED BY <1>1, <2>1, <2>2, <2>5, OwnerRing DEF Window
<1>16. hi - 1 \in Int
  OBVIOUS
<1> QED BY <1>10, <1>11, <1>12, <1>14, <1>15, <1>16 DEF IInv, Window

\* PopFront stores the new mFront.
LEMMA PopFrontMoveStep ==
  ASSUME IInv, PopFrontMove
  PROVE  IInv'
<1>1. PICK lo, hi \in Int : Window(lo, hi)
  BY DEF IInv
<1>2. /\ pc[Owner] = "popFrontMove" /\ pc' = [pc EXCEPT ![Owner] = "idle"]
      /\ mFront' = front[Owner]
      /\ op' = [op EXCEPT ![Owner] = "none"]
      /\ front' = [front EXCEPT ![Owner] = 0] /\ back' = [back EXCEPT ![Owner] = 0]
      /\ mid' = [mid EXCEPT ![Owner] = 0] /\ start' = [start EXCEPT ![Owner] = 0]
      /\ UNCHANGED <<mBack, slot, mMutex, task, pushed, popped, sawEmpty>>
  BY DEF PopFrontMove, Goto, Return, history
<1>3. Same(front[Owner], hi) /\ front[Owner] \in Word
  BY <1>1, <1>2 DEF Window, FrontWords, IInv, Control, Threads
<1>4. pc'[Owner] = "idle" /\ \A t \in Thieves : pc'[t] = pc[t] /\ mid'[t] = mid[t]
        /\ start'[t] = start[t] /\ back'[t] = back[t]
  BY <1>2, CapacityAssumption DEF IInv, Control, Threads
<1>5. TypeOK'
  BY <1>2, <1>3 DEF IInv, TypeOK, Word
<1>6. Control'
  BY <1>2, <1>3, <1>4, CapacityAssumption, Bounds
  DEF IInv, Control, OwnerPcs, Reading, Pushing, Threads, Word
<1>7. OnePlace'
  BY <1>2, PlaceKept DEF IInv
<1>8. FrontWords(hi)' /\ BackWords(lo)'
  BY <1>1, <1>2, <1>3, <1>4
  DEF Window, FrontWords, BackWords, HolderWords, BusyFront, Halved
<1>9. Ring(lo, hi)'
  BY <1>1, <1>2, <1>4
  DEF Window, Ring, Fits, FrontClaim, BackClaim, HolderClaim, ClaimsApart, ReadyBetween,
      EmptyOutside, Looks, OwnerAt, BackAt, HolderAt, Halving, BusyFront
<1> QED BY <1>5, <1>6, <1>7, <1>8, <1>9 DEF IInv, Window

-------------------------------------------------------------------------------
(***************************************************************************)
(* Steps that neither change the deque nor hold a claim: Empty, a failed   *)
(* PopBack.                                                                *)
(***************************************************************************)
Quiet == {"idle", "lock"} \cup Reading

QuietMove(t, to) ==
  /\ pc[t] \in Quiet /\ to \in Quiet /\ (t = Owner => to # "lock")
  /\ pc' = [pc EXCEPT ![t] = to]
  /\ UNCHANGED <<mFront, mBack, slot, mMutex, task, pushed, popped>>
  /\ op' \in [Threads -> {"none", "Empty", "PopBack", "PopBackHalf"}]
  /\ front' \in [Threads -> Word] /\ back' \in [Threads -> Word]
  /\ mid' \in [Threads -> -1 .. kCapacity - 1]
  /\ start' \in [Threads -> -1 .. kCapacity - 1]
  /\ sawEmpty' \in [Threads -> BOOLEAN]
  /\ t = Owner /\ to \in Reading => op'[t] = "Empty"
  /\ \A u \in Threads : u # t => /\ op'[u] = op[u]
                                 /\ front'[u] = front[u] /\ back'[u] = back[u]
                                 /\ mid'[u] = mid[u] /\ start'[u] = start[u]

\* A step that changes only where its thread is, and copies a word.
LEMMA QuietStep ==
  ASSUME IInv, NEW t \in Threads, NEW to, QuietMove(t, to)
  PROVE  IInv'
<1>1. PICK lo, hi \in Int : Window(lo, hi)
  BY DEF IInv
<1>2. \A u \in Threads : pc'[u] = IF u = t THEN to ELSE pc[u]
  BY DEF QuietMove, IInv, Control
<1>3. /\ to \notin HolderPcs /\ to \notin BusyFront /\ to \notin Pushing
      /\ to # "popFrontMove" /\ to \in ThiefPcs /\ (t = Owner => to \in OwnerPcs)
      /\ pc[t] \notin HolderPcs /\ pc[t] \notin BusyFront /\ pc[t] \notin Pushing
      /\ pc[t] # "popFrontMove"
  BY DEF QuietMove, Quiet, Reading, HolderPcs, BusyFront, Pushing, ThiefPcs, OwnerPcs
<1>4. TypeOK'
  BY DEF IInv, TypeOK, QuietMove
<1>5. Control'
  BY <1>2, <1>3, CapacityAssumption DEF IInv, Control, QuietMove, Threads
<1>6. OnePlace'
  BY PlaceKept DEF IInv, QuietMove
<1>7. FrontWords(hi)'
  BY <1>1, <1>2, <1>3 DEF Window, FrontWords, QuietMove, Threads, BusyFront
<1>8. \A u \in Thieves : HolderWords(u, lo)'
  BY <1>1, <1>2, <1>3
  DEF Window, BackWords, HolderWords, QuietMove, Threads, Halved, HolderPcs, BusyBack
<1>9. BackWords(lo)'
  BY <1>1, <1>8 DEF Window, BackWords, QuietMove
<1>10. \A p \in Int : BackAt(lo, p)' <=> BackAt(lo, p)
  BY <1>2, <1>3
  DEF BackAt, HolderAt, QuietMove, Threads, Halving, HolderPcs, BusyBack
<1>11. \A p \in Int : OwnerAt(hi, p)' <=> OwnerAt(hi, p)
  BY <1>2, <1>3 DEF OwnerAt, Threads
<1>12. BackClaim(lo, hi)' /\ FrontClaim(lo, hi)'
  BY <1>1, <1>2, <1>3 DEF Window, Ring, BackClaim, HolderClaim, FrontClaim, QuietMove,
     Threads, Halving, HolderPcs, BusyBack, BusyFront, Looks
<1>13. ClaimsApart(lo, hi)' /\ ReadyBetween(lo, hi)' /\ EmptyOutside(lo, hi)'
  BY <1>1, <1>10, <1>11
  DEF Window, Ring, ClaimsApart, ReadyBetween, EmptyOutside, Looks, QuietMove
<1>14. Window(lo, hi)'
  BY <1>1, <1>7, <1>9, <1>12, <1>13 DEF Window, Ring, Fits
<1> QED BY <1>4, <1>5, <1>6, <1>14 DEF IInv

\* A call of Empty, by itself or at the head of PopBack and PopBackHalf.
LEMMA EmptyCallStep ==
  ASSUME IInv, NEW t \in Threads, NEW o \in BackOps \cup {"Empty"},
         t = Owner => o = "Empty", EmptyCall(t, o)
  PROVE  IInv'
<1>1. QuietMove(t, "readBack")
  BY CapacityAssumption
  DEF EmptyCall, QuietMove, Quiet, Reading, Goto, shared, IInv, Control, TypeOK, Word
<1> QED BY <1>1, QuietStep

\* The reads of Empty and its return.
LEMMA EmptyStep ==
  ASSUME IInv, NEW t \in Threads, Empty(t)
  PROVE  IInv'
<1>1. CASE EmptyReadBack(t)
  <2>1. QuietMove(t, "readFront")
    BY <1>1
    DEF EmptyReadBack, QuietMove, Quiet, Reading, Goto, shared, history, IInv, Control,
        TypeOK, Word
  <2> QED BY <2>1, QuietStep
<1>2. CASE EmptyReadFront(t)
  <2>1. PICK to \in {"readBack", "saysEmpty", "saysNotEmpty"} : pc' = [pc EXCEPT ![t] = to]
    BY <1>2 DEF EmptyReadFront, Goto
  <2>2. QuietMove(t, to)
    BY <1>2, <2>1
    DEF EmptyReadFront, QuietMove, Quiet, Reading, shared, history, IInv, Control,
        TypeOK, Word
  <2> QED BY <2>2, QuietStep
<1>3. CASE EmptyReturn(t)
  <2>1. CASE Return(t)
    <3>1. QuietMove(t, "idle")
      BY <1>3, <2>1, Bounds
      DEF EmptyReturn, Return, QuietMove, Quiet, Reading, Goto, shared, IInv, Control,
          TypeOK, Word
    <3> QED BY <3>1, QuietStep
  <2>2. CASE ~Return(t)
    <3>1. QuietMove(t, "lock")
      BY <1>3, <2>2, Bounds
      DEF EmptyReturn, QuietMove, Quiet, Reading, Goto, shared, IInv, Control, TypeOK,
          Word
    <3> QED BY <3>1, QuietStep
  <2> QED BY <2>1, <2>2
<1> QED BY <1>1, <1>2, <1>3 DEF Empty

-------------------------------------------------------------------------------
(***************************************************************************)
(* The thief that holds the lock.                                          *)
(***************************************************************************)
\* A thread that holds nothing claims nothing and constrains no word.
LEMMA NotHolder ==
  ASSUME NEW u \in Thieves, pc[u] \notin HolderPcs
  PROVE  \A lo, hi, p : /\ HolderWords(u, lo) /\ HolderClaim(u, lo, hi)
                        /\ ~HolderAt(u, lo, p)
BY DEF HolderPcs, BusyBack, Halving, Halved, HolderWords, HolderClaim, HolderAt

\* The same after a step.
LEMMA NotHolderNext ==
  ASSUME NEW u \in Thieves, pc'[u] \notin HolderPcs
  PROVE  \A lo, hi, p : /\ HolderWords(u, lo)' /\ HolderClaim(u, lo, hi)'
                        /\ ~HolderAt(u, lo, p)'
BY DEF HolderPcs, BusyBack, Halving, Halved, HolderWords, HolderClaim, HolderAt

\* A step of thief t before, in or after its hold of the lock; the others hold
\* nothing and stand where they stood.
HolderMove(t, to) ==
  /\ pc' = [pc EXCEPT ![t] = to] /\ to \in ThiefPcs /\ to \notin BusyFront
  /\ to \in HolderPcs <=> mMutex' = t
  /\ mMutex' \in {t, Nobody}
  /\ op' \in [Threads -> {"none", "Empty", "PopBack", "PopBackHalf"}]
  /\ front' \in [Threads -> Word] /\ back' \in [Threads -> Word]
  /\ mid' \in [Threads -> -1 .. kCapacity - 1]
  /\ start' \in [Threads -> -1 .. kCapacity - 1]
  /\ front'[Owner] = front[Owner] /\ op'[Owner] = op[Owner]
  /\ mFront' = mFront
  /\ \A u \in Thieves : u # t => pc[u] \notin HolderPcs
  /\ task' \in [Threads -> 0 .. MaxPush]
  /\ \A u \in Threads : u # t => task'[u] = task[u]
  /\ task'[t] # 0 <=> to \in Pushing

\* A step of the holder of mMutex leaves the control of the others and the front
\* words alone.
LEMMA HolderControl ==
  ASSUME IInv, NEW t \in Thieves, NEW to, HolderMove(t, to)
  PROVE  /\ Control'
         /\ pc'[t] = to /\ pc'[Owner] = pc[Owner]
         /\ \A u \in Thieves : u # t => pc'[u] \notin HolderPcs
         /\ \A hi : FrontWords(hi) => FrontWords(hi)'
<1>1. t \in Threads /\ t # Owner /\ Owner \in Threads
  BY CapacityAssumption DEF Threads
<1>2. \A u \in Threads : pc'[u] = IF u = t THEN to ELSE pc[u]
  BY DEF HolderMove, IInv, Control
<1>3. \A u \in Thieves : u \in Threads /\ u # Nobody /\ u # Owner
  BY CapacityAssumption DEF Threads
<1>4. Control'
  <2>1. pc' \in [Threads -> OwnerPcs \cup ThiefPcs]
    BY DEF HolderMove, IInv, Control
  <2>2. pc'[Owner] \in OwnerPcs /\ (pc'[Owner] \in Reading => op'[Owner] = "Empty")
    BY <1>1, <1>2 DEF HolderMove, IInv, Control
  <2>3. \A u \in Thieves : pc'[u] \in ThiefPcs /\ (pc'[u] \in HolderPcs <=> mMutex' = u)
    BY <1>2, <1>3 DEF HolderMove, IInv, Control
  <2>4. \A u \in Threads : task'[u] # 0 <=> pc'[u] \in Pushing
    BY <1>1, <1>2 DEF HolderMove, IInv, Control
  <2> QED BY <2>1, <2>2, <2>3, <2>4 DEF HolderMove, Control
<1>5. \A hi : FrontWords(hi) => FrontWords(hi)'
  BY <1>1, <1>2 DEF FrontWords, HolderMove
<1> QED BY <1>1, <1>2, <1>3, <1>4, <1>5 DEF HolderMove

\* The ring after a step of thief t: it need only say what it did at the back.
HolderDid(t, lo, hi) ==
  /\ Fits(lo, hi) /\ HolderWords(t, lo)' /\ HolderClaim(t, lo, hi)'
  /\ FrontClaim(lo, hi)' /\ EmptyOutside(lo, hi)'
  /\ mMutex' = Nobody => Same(mBack', lo)
  /\ \A p \in lo .. hi - 1 : IF OwnerAt(hi, p) THEN ~HolderAt(t, lo, p)'
                             ELSE HolderAt(t, lo, p)' \/ Looks(p, "kReady", TRUE)'

\* A step of the holder of mMutex keeps the invariant: what it did at the back,
\* and a front that it left alone.
LEMMA HolderStep ==
  ASSUME IInv, NEW t \in Thieves, NEW to, HolderMove(t, to), TypeOK', OnePlace',
         NEW lo \in Int, NEW hi \in Int, FrontWords(hi), HolderDid(t, lo, hi)
  PROVE  IInv'
<1>1. /\ Control' /\ FrontWords(hi)' /\ pc'[Owner] = pc[Owner]
      /\ \A u \in Thieves : u # t => pc'[u] \notin HolderPcs
  BY HolderControl
<1>2. \A u \in Thieves : u # t => /\ HolderWords(u, lo)' /\ HolderClaim(u, lo, hi)'
                                  /\ \A p : ~HolderAt(u, lo, p)'
  BY <1>1, NotHolderNext
<1>3. BackWords(lo)' /\ BackClaim(lo, hi)'
  BY <1>2 DEF HolderDid, BackWords, BackClaim
<1>4. \A p : (BackAt(lo, p)' <=> HolderAt(t, lo, p)') /\ (OwnerAt(hi, p)' <=> OwnerAt(hi, p))
  BY <1>1, <1>2 DEF BackAt, OwnerAt
<1>5. ClaimsApart(lo, hi)' /\ ReadyBetween(lo, hi)'
  BY <1>4 DEF HolderDid, ClaimsApart, ReadyBetween, Looks
<1>6. Window(lo, hi)'
  BY <1>1, <1>3, <1>5 DEF HolderDid, Window, Ring, Fits
<1> QED BY <1>1, <1>6 DEF IInv

\* What a thief that is about to lock, or has the lock, knows of the others.
LEMMA Alone ==
  ASSUME Control, NEW t \in Thieves, mMutex = Nobody \/ pc[t] \in HolderPcs
  PROVE  /\ t \in Threads /\ t # Owner /\ t # Nobody /\ Owner \in Threads
         /\ \A u \in Thieves : u # t => pc[u] \notin HolderPcs
         /\ \A lo, p : BackAt(lo, p) <=> HolderAt(t, lo, p)
<1>1. t \in Threads /\ t # Owner /\ t # Nobody /\ Owner \in Threads
  BY CapacityAssumption DEF Threads
<1>2. \A u \in Thieves : u # t => pc[u] \notin HolderPcs
  BY CapacityAssumption DEF Control
<1>3. \A u \in Thieves : u # t => \A lo, p : ~HolderAt(u, lo, p)
  BY <1>2, NotHolder
<1> QED BY <1>1, <1>2, <1>3 DEF BackAt

\* PushBack's exchange of the state of the slot before mBack, under the lock.
LEMMA PushBackClaimStep ==
  ASSUME IInv, NEW t \in Thieves, PushBackClaim(t)
  PROVE  IInv'
<1>1. PICK lo, hi \in Int : Window(lo, hi)
  BY DEF IInv
<1> DEFINE i == At(mBack - 1)
           r == [state |-> "kBusy", task |-> 0]
<1>2. /\ pc[t] = "idle" /\ mMutex = Nobody
      /\ pushed < MaxPush /\ pushed' = pushed + 1 /\ pushed \in Nat
  BY DEF PushBackClaim, Offer, IInv, TypeOK
<1>3. /\ t \in Threads /\ t # Owner /\ t # Nobody /\ Owner \in Threads
      /\ \A u \in Thieves : pc[u] \notin HolderPcs
      /\ \A l, p : ~BackAt(l, p)
  <2>1. \A u \in Thieves : pc[u] \notin HolderPcs
    BY <1>2, FreeBack DEF IInv
  <2>2. \A l, p : ~HolderAt(t, l, p)
    BY <2>1, NotHolder
  <2> QED BY <1>2, <2>1, <2>2, Alone DEF IInv
<1>4. CASE slot[i].state # "kEmpty"
  BY <1>2, <1>4, RefusedStep DEF PushBackClaim, Refused
<1>5. CASE slot[i].state = "kEmpty"
  <2>1. /\ slot' = [slot EXCEPT ![i] = r] /\ mMutex' = t
        /\ task' = [task EXCEPT ![t] = pushed + 1]
        /\ back' = [back EXCEPT ![t] = Retreat(mBack)]
        /\ pc' = [pc EXCEPT ![t] = "pushBack"]
        /\ UNCHANGED <<popped, mFront, mBack, op, front, mid, start, sawEmpty>>
    BY <1>2, <1>5 DEF PushBackClaim, SetSlot, Goto
  <2>2. Same(mBack, lo) /\ mBack \in Word /\ mBack \in Int
    BY <1>1, <1>2, Bounds DEF Window, BackWords, IInv, TypeOK, Word
  <2>3. i = (lo - 1) % kCapacity
    <3>1. Same(mBack + (-1), lo + (-1))
      BY <2>2, SamePlus
    <3>2. mBack + (-1) = mBack - 1 /\ lo + (-1) = lo - 1 /\ mBack - 1 \in Int /\ lo - 1 \in Int
      BY <2>2
    <3> QED BY <3>1, <3>2, WordAt
  <2>4. slot[i] = View(slot, lo - 1) /\ i \in Slots /\ lo - 1 \in Int
    BY <2>3, SlotOf DEF View
  <2>5. View(slot, lo - 1) = View(slot, lo + kCapacity - 1)
    <3>1. (lo - 1) + kCapacity = lo + kCapacity - 1
      BY Bounds
    <3> QED BY <2>4, <3>1, ViewRound
  <2>6. Retreat(mBack) \in Word /\ Same(Retreat(mBack), lo - 1)
    BY <2>2, RetreatWord
  <2>7. lo <= hi /\ hi < lo + kCapacity
    <3>1. ASSUME hi = lo + kCapacity PROVE FALSE
      <4>1. hi - 1 \in lo .. hi - 1 /\ hi - 1 = lo + kCapacity - 1
        BY <3>1, Bounds
      <4>2. View(slot, hi - 1).state # "kEmpty"
        BY <1>1, <1>3, <4>1 DEF Window, Ring, FrontClaim, ReadyBetween, OwnerAt, Looks
      <4> QED BY <4>1, <4>2, <1>5, <2>4, <2>5
    <3> QED BY <3>1, <1>1, Bounds DEF Window, Ring, Fits
  <2>8. View(slot, lo - 1).task = 0
    BY <1>1, <2>5, <2>7, Bounds DEF Window, Ring, EmptyOutside, Looks
  <2>9. PlaceTypes /\ OnePlace /\ slot \in [Slots -> SlotType] /\ task[t] = 0
    BY <1>2, <1>3, PlaceTyped DEF IInv, PlaceTypes, Control, Pushing
  <2>10. TypeOK'
    BY <1>2, <1>3, <2>1, <2>4, Bounds DEF IInv, TypeOK, Tasks
  <2>11. OnePlace'
    <3>1. \A j \in Slots : slot'[j].task = slot[j].task
      BY <2>1, <2>4, <2>8, <2>9 DEF SlotType
    <3> QED BY <1>2, <1>3, <2>1, <2>9, <3>1, PlaceOffered
  <2>12. \A p \in lo - 1 .. lo + kCapacity - 2 :
           View(slot', p) = IF p = lo - 1 THEN r ELSE View(slot, p)
    <3>1. StoreAt(slot, slot', lo - 1, r)
      BY <2>1, <2>3 DEF StoreAt
    <3>2. /\ lo - 1 \in lo - 1 .. lo - 1 + kCapacity - 1
          /\ lo - 1 + kCapacity - 1 = lo + kCapacity - 2
      BY Bounds
    <3> QED BY <2>4, <2>9, <3>1, <3>2, ViewSet
  <2>13. HolderMove(t, "pushBack")
    BY <1>2, <1>3, <2>1, <2>6, Bounds
    DEF HolderMove, ThiefPcs, HolderPcs, BusyFront, Pushing, IInv, Control, TypeOK
  <2>14. pc'[t] = "pushBack" /\ back'[t] = Retreat(mBack)
    BY <1>3, <2>1 DEF IInv, Control
  <2>15. Fits(lo - 1, hi) /\ HolderWords(t, lo - 1)' /\ HolderClaim(t, lo - 1, hi)'
    <3>1. Fits(lo - 1, hi) /\ (lo - 1) + 1 = lo
      BY <2>7, Bounds DEF Fits
    <3>2. HolderWords(t, lo - 1)'
      BY <2>1, <2>2, <2>6, <2>14, <3>1 DEF HolderWords, Halved, BusyBack
    <3>3. lo - 1 < hi /\ View(slot', lo - 1) = r
      BY <2>7, <2>12, Bounds
    <3> QED BY <2>14, <3>1, <3>2, <3>3 DEF HolderClaim, Halving, BusyBack, Looks
  <2>16. FrontClaim(lo - 1, hi)' /\ EmptyOutside(lo - 1, hi)'
    <3>1. pc'[Owner] = pc[Owner]
      BY <1>3, <2>1 DEF IInv, Control
    <3> QED BY <1>1, <2>7, <2>12, <3>1, Bounds
        DEF Window, Ring, FrontClaim, EmptyOutside, Looks
  <2>17. \A p \in lo - 1 .. hi - 1 : HolderAt(t, lo - 1, p)' <=> p = lo - 1
    BY <2>14 DEF HolderAt, Halving, BusyBack
  <2>18. \A p \in lo .. hi - 1 : ~OwnerAt(hi, p) => Looks(p, "kReady", TRUE)'
    <3>1. \A p \in lo .. hi - 1 : View(slot', p) = View(slot, p)
      BY <2>7, <2>12, Bounds
    <3>2. \A p \in lo .. hi - 1 : ~OwnerAt(hi, p) => Looks(p, "kReady", TRUE)
      BY <1>1, <1>3 DEF Window, Ring, ReadyBetween
    <3> QED BY <3>1, <3>2 DEF Looks
  <2>19. ~OwnerAt(hi, lo - 1)
    BY <1>1 DEF Window, Ring, FrontClaim, OwnerAt
  <2>20. HolderDid(t, lo - 1, hi)
    <3>1. \A p \in lo - 1 .. hi - 1 : p = lo - 1 \/ p \in lo .. hi - 1
      OBVIOUS
    <3> QED BY <1>3, <2>1, <2>15, <2>16, <2>17, <2>18, <2>19, <3>1 DEF HolderDid, Looks
  <2> QED BY <1>1, <2>4, <2>10, <2>11, <2>13, <2>20, HolderStep DEF Window
<1> QED BY <1>4, <1>5

\* A thief that moves mBack or drops the lock without touching a slot.
LEMMA SlotsKept ==
  ASSUME IInv, NEW t \in Thieves, NEW to, HolderMove(t, to),
         mMutex = Nobody \/ pc[t] \in HolderPcs, slot' = slot,
         NEW lo \in Int, NEW hi \in Int, Window(lo, hi),
         HolderWords(t, lo)', HolderClaim(t, lo, hi)', mMutex' = Nobody => Same(mBack', lo),
         \A p \in Int : HolderAt(t, lo, p)' <=> HolderAt(t, lo, p)
  PROVE  HolderDid(t, lo, hi)
<1>1. pc'[Owner] = pc[Owner]
  BY HolderControl
<1>2. \A p : BackAt(lo, p) <=> HolderAt(t, lo, p)
  BY Alone DEF IInv
<1>3. Fits(lo, hi) /\ FrontClaim(lo, hi)' /\ EmptyOutside(lo, hi)'
  BY <1>1 DEF Window, Ring, Fits, FrontClaim, EmptyOutside, Looks
<1>4. \A p \in lo .. hi - 1 : IF OwnerAt(hi, p) THEN ~HolderAt(t, lo, p)'
                              ELSE HolderAt(t, lo, p)' \/ Looks(p, "kReady", TRUE)'
  BY <1>2 DEF Window, Ring, ClaimsApart, ReadyBetween, Looks
<1> QED BY <1>3, <1>4 DEF HolderDid, Looks

\* PushBack stores the new mBack.
LEMMA PushBackMoveStep ==
  ASSUME IInv, NEW t \in Thieves, PushBackMove(t)
  PROVE  IInv'
<1>1. PICK lo, hi \in Int : Window(lo, hi)
  BY DEF IInv
<1>2. /\ pc[t] = "pushBack" /\ pc' = [pc EXCEPT ![t] = "publishBack"] /\ mBack' = back[t]
      /\ UNCHANGED <<mFront, slot, mMutex, op, task, front, back, mid, start, pushed, popped, sawEmpty>>
  BY DEF PushBackMove, Goto, locals, history
<1>3. /\ t \in Threads /\ t # Owner /\ t # Nobody /\ pc[t] \in HolderPcs /\ mMutex = t
      /\ \A u \in Thieves : u # t => pc[u] \notin HolderPcs
  BY <1>2, Alone, OneHolder DEF IInv, HolderPcs
<1>4. Same(back[t], lo) /\ back[t] \in Word
  BY <1>1, <1>2, <1>3 DEF Window, BackWords, HolderWords, BusyBack, IInv, Control
<1>5. TypeOK'
  BY <1>2, <1>4 DEF IInv, TypeOK, Word
<1>6. OnePlace'
  BY <1>2, PlaceKept DEF IInv
<1>7. HolderMove(t, "publishBack")
  BY <1>2, <1>3
  DEF HolderMove, ThiefPcs, HolderPcs, BusyFront, Pushing, IInv, Control, TypeOK
<1>8. pc'[t] = "publishBack"
  BY <1>2, <1>3 DEF IInv, Control
<1>9. HolderWords(t, lo)'
  BY <1>2, <1>4, <1>8 DEF HolderWords, Halved, BusyBack
<1>10. HolderClaim(t, lo, hi)'
  BY <1>1, <1>2, <1>8
  DEF Window, Ring, BackClaim, HolderClaim, Halving, BusyBack, Looks
<1>11. \A p \in Int : HolderAt(t, lo, p)' <=> HolderAt(t, lo, p)
  BY <1>2, <1>8 DEF HolderAt, Halving, BusyBack
<1>12. HolderDid(t, lo, hi)
  BY <1>1, <1>2, <1>3, <1>7, <1>9, <1>10, <1>11, SlotsKept
<1> QED BY <1>1, <1>5, <1>6, <1>7, <1>12, HolderStep DEF Window

\* PushBack stores the task and the state kReady, and unlocks.
LEMMA PushBackPublishStep ==
  ASSUME IInv, NEW t \in Thieves, PushBackPublish(t)
  PROVE  IInv'
<1>1. PICK lo, hi \in Int : Window(lo, hi)
  BY DEF IInv
<1> DEFINE i == At(back[t])
           r == [state |-> "kReady", task |-> task[t]]
<1>2. /\ pc[t] = "publishBack" /\ pc' = [pc EXCEPT ![t] = "idle"]
      /\ slot' = [slot EXCEPT ![i] = r] /\ mMutex' = Nobody
      /\ task' = [task EXCEPT ![t] = 0] /\ op' = [op EXCEPT ![t] = "none"]
      /\ front' = [front EXCEPT ![t] = 0] /\ back' = [back EXCEPT ![t] = 0]
      /\ mid' = [mid EXCEPT ![t] = 0] /\ start' = [start EXCEPT ![t] = 0]
      /\ UNCHANGED <<mFront, mBack, pushed, popped, sawEmpty>>
  BY DEF PushBackPublish, Goto, Return, SetSlot, history
<1>3. /\ t \in Threads /\ t # Owner /\ t # Nobody /\ pc[t] \in HolderPcs /\ Owner \in Threads
      /\ \A u \in Thieves : u # t => pc[u] \notin HolderPcs
      /\ \A p : BackAt(lo, p) <=> HolderAt(t, lo, p)
  BY <1>2, Alone DEF IInv, HolderPcs
<1>4. Same(back[t], lo) /\ back[t] \in Int
  BY <1>1, <1>2, <1>3, Bounds
  DEF Window, BackWords, HolderWords, BusyBack, IInv, Control, Word
<1>5. i = lo % kCapacity
  BY <1>4, WordAt
<1>6. slot[i] = View(slot, lo) /\ i \in Slots
  BY <1>5, SlotOf DEF View
<1>7. PlaceTypes /\ OnePlace /\ slot \in [Slots -> SlotType]
  BY PlaceTyped DEF IInv, PlaceTypes
<1>8. /\ lo < hi /\ hi <= lo + kCapacity
      /\ View(slot, lo).task = 0 /\ task[t] # 0 /\ task[t] \in 0 .. MaxPush
  BY <1>1, <1>2, <1>3
  DEF Window, Ring, Fits, BackClaim, HolderClaim, Looks, BusyBack, IInv, TypeOK,
      Control, Pushing
<1>9. TypeOK'
  BY <1>2, <1>3, <1>6, <1>8, Bounds DEF IInv, TypeOK
<1>10. OnePlace'
  BY <1>2, <1>3, <1>6, <1>7, <1>8, PlacePublished
<1>11. HolderMove(t, "idle")
  BY <1>2, <1>3, Bounds
  DEF HolderMove, ThiefPcs, HolderPcs, BusyFront, Pushing, IInv, Control, TypeOK, Word
<1>12. pc'[t] = "idle" /\ pc'[Owner] = pc[Owner]
  BY <1>2, <1>3 DEF IInv, Control
<1>13. \A p \in lo .. lo + kCapacity - 1 : View(slot', p) = IF p = lo THEN r ELSE View(slot, p)
  <2>1. StoreAt(slot, slot', lo, r) /\ lo \in lo .. lo + kCapacity - 1
    BY <1>2, <1>5, Bounds DEF StoreAt
  <2> QED BY <1>7, <2>1, ViewSet
<1>14. /\ HolderWords(t, lo)' /\ HolderClaim(t, lo, hi)'
       /\ \A p : ~HolderAt(t, lo, p)'
  BY <1>12, NotHolderNext DEF HolderPcs
<1>15. HolderAt(t, lo, lo) /\ ~OwnerAt(hi, lo) /\ \A p \in lo .. hi - 1 : HolderAt(t, lo, p) => p = lo
  BY <1>1, <1>2, <1>3, <1>8 DEF HolderAt, Halving, BusyBack, Window, Ring, ClaimsApart
<1>16. FrontClaim(lo, hi)' /\ EmptyOutside(lo, hi)'
  BY <1>1, <1>8, <1>12, <1>13, <1>15, Bounds
  DEF Window, Ring, FrontClaim, EmptyOutside, Looks, OwnerAt
<1>17. \A p \in lo .. hi - 1 : ~OwnerAt(hi, p) => Looks(p, "kReady", TRUE)'
  <2>1. \A p \in lo .. hi - 1 : p # lo => View(slot', p) = View(slot, p)
    BY <1>8, <1>13, Bounds
  <2>2. \A p \in lo .. hi - 1 : p # lo /\ ~OwnerAt(hi, p) => Looks(p, "kReady", TRUE)
    BY <1>1, <1>3, <1>15 DEF Window, Ring, ReadyBetween
  <2>3. View(slot', lo) = r
    BY <1>13, Bounds
  <2>4. Looks(lo, "kReady", TRUE)'
    BY <2>3, <1>8 DEF Looks
  <2> QED BY <2>1, <2>2, <2>4 DEF Looks
<1>18. Same(mBack', lo)
  BY <1>1, <1>2, <1>3 DEF Window, BackWords, HolderWords, BusyBack
<1>19. HolderDid(t, lo, hi)
  BY <1>8, <1>14, <1>16, <1>17, <1>18 DEF HolderDid, Looks, Fits
<1> QED BY <1>1, <1>9, <1>10, <1>11, <1>19, HolderStep DEF Window

\* Thief t claims the ready position q: it turns busy and keeps its task.
LEMMA ReadyClaimed ==
  ASSUME IInv, NEW t \in Thieves, mMutex = Nobody \/ pc[t] \in HolderPcs,
         NEW lo \in Int, NEW hi \in Int, Window(lo, hi),
         NEW q \in lo .. lo + kCapacity - 1, View(slot, q).state = "kReady",
         StoreAt(slot, slot', q, [state |-> "kBusy", task |-> View(slot, q).task]),
         sawEmpty' \in [Threads -> BOOLEAN],
         UNCHANGED <<mFront, mBack, task, pushed, popped>>, mMutex' = t
  PROVE  /\ TypeOK' /\ OnePlace' /\ q < hi /\ ~OwnerAt(hi, q)
         /\ \A p \in lo .. lo + kCapacity - 1 : p # q => View(slot', p) = View(slot, p)
         /\ Looks(q, "kBusy", TRUE)'
<1> DEFINE r == [state |-> "kBusy", task |-> View(slot, q).task]
<1>1. slot \in [Slots -> SlotType] /\ q \in Int /\ q % kCapacity \in Slots
  BY SlotOf DEF IInv, TypeOK, SlotType
<1>2. View(slot, q) \in SlotType
  BY <1>1, ViewType
<1>3. r \in SlotType /\ r.task = View(slot, q).task /\ r.state = "kBusy"
  BY <1>2 DEF SlotType
<1>4. slot' = [slot EXCEPT ![q % kCapacity] = r]
  BY DEF StoreAt
<1>5. View(slot, q) = slot[q % kCapacity]
  BY DEF View
<1>6. StoreAt(slot, slot', q, r)
  OBVIOUS
<1> HIDE DEF r
<1>7. slot' \in [Slots -> SlotType] /\ \A j \in Slots : slot'[j].task = slot[j].task
  BY <1>1, <1>3, <1>4, <1>5
<1>8. TypeOK'
  BY <1>7 DEF IInv, TypeOK, SlotType
<1>9. OnePlace'
  BY <1>7, PlaceKept DEF IInv
<1>10. q < hi /\ ~OwnerAt(hi, q) /\ View(slot, q).task # 0
  BY ReadyFree DEF IInv, Window
<1>11. \A p \in lo .. lo + kCapacity - 1 : View(slot', p) = IF p = q THEN r ELSE View(slot, p)
  BY <1>1, <1>6, ViewSet
<1>12. View(slot', q) = r
  BY <1>11
<1> QED BY <1>3, <1>8, <1>9, <1>10, <1>11, <1>12 DEF Looks

\* PopBack's exchange of the state of the slot at mBack, under the lock.
LEMMA PopBackClaimStep ==
  ASSUME IInv, NEW t \in Thieves, PopBackClaim(t)
  PROVE  IInv'
<1>1. PICK lo, hi \in Int : Window(lo, hi)
  BY DEF IInv
<1> DEFINE i == At(mBack)
<1>2. pc[t] = "lock" /\ mMutex = Nobody
  BY DEF PopBackClaim
<1>3. /\ t \in Threads /\ t # Owner /\ t # Nobody /\ Owner \in Threads
      /\ \A u \in Thieves : pc[u] \notin HolderPcs
      /\ \A p : ~BackAt(lo, p)
  <2>1. \A u \in Thieves : pc[u] \notin HolderPcs
    BY <1>2, FreeBack DEF IInv
  <2>2. \A l, p : ~HolderAt(t, l, p)
    BY <2>1, NotHolder
  <2> QED BY <1>2, <2>1, <2>2, Alone DEF IInv
<1>4. CASE slot[i].state # "kReady"
  <2>1. Return(t) /\ UNCHANGED <<slot, mMutex, sawEmpty, mFront, mBack, task, pushed, popped>>
    BY <1>4 DEF PopBackClaim
  <2>2. QuietMove(t, "idle")
    BY <1>2, <1>3, <2>1, Bounds
    DEF Return, Goto, QuietMove, Quiet, Reading, IInv, Control, TypeOK, Word
  <2> QED BY <1>3, <2>2, QuietStep
<1>5. CASE slot[i].state = "kReady"
  <2> DEFINE r == [state |-> "kBusy", task |-> slot[i].task]
  <2>1. /\ slot' = [slot EXCEPT ![i] = r] /\ mMutex' = t
        /\ back' = [back EXCEPT ![t] = mBack] /\ pc' = [pc EXCEPT ![t] = "popBack"]
        /\ UNCHANGED <<op, front, mid, start, mFront, mBack, task, pushed, popped>>
    BY <1>5 DEF PopBackClaim, SetSlot, Goto
  <2>2. Same(mBack, lo) /\ mBack \in Word /\ mBack \in Int
    BY <1>1, <1>2, Bounds DEF Window, BackWords, IInv, TypeOK, Word
  <2>3. i = lo % kCapacity
    BY <2>2, WordAt
  <2>4. slot[i] = View(slot, lo) /\ lo \in lo .. lo + kCapacity - 1
    BY <2>3, Bounds DEF View
  <2>5. StoreAt(slot, slot', lo, [state |-> "kBusy", task |-> View(slot, lo).task])
    BY <2>1, <2>3, <2>4 DEF StoreAt
  <2>6. sawEmpty' \in [Threads -> BOOLEAN]
    BY <1>5 DEF PopBackClaim, Claimed
  <2>7. /\ TypeOK' /\ OnePlace' /\ lo < hi /\ ~OwnerAt(hi, lo)
        /\ \A p \in lo .. lo + kCapacity - 1 : p # lo => View(slot', p) = View(slot, p)
        /\ Looks(lo, "kBusy", TRUE)'
    BY <1>1, <1>2, <1>5, <2>1, <2>4, <2>5, <2>6, ReadyClaimed
  <2>8. HolderMove(t, "popBack")
    BY <1>2, <1>3, <2>1, <2>2
    DEF HolderMove, ThiefPcs, HolderPcs, BusyFront, Pushing, IInv, Control, TypeOK
  <2>9. pc'[t] = "popBack" /\ back'[t] = mBack /\ pc'[Owner] = pc[Owner]
    BY <1>3, <2>1 DEF IInv, Control
  <2>10. HolderWords(t, lo)' /\ HolderClaim(t, lo, hi)'
    BY <2>2, <2>7, <2>9 DEF HolderWords, HolderClaim, Halved, Halving, BusyBack, Looks
  <2>11. \A p \in lo .. hi - 1 : HolderAt(t, lo, p)' <=> p = lo
    BY <2>9 DEF HolderAt, Halving, BusyBack
  <2>12. Fits(lo, hi) /\ hi <= lo + kCapacity /\ FrontClaim(lo, hi)' /\ EmptyOutside(lo, hi)'
    BY <1>1, <2>7, <2>9, Bounds
    DEF Window, Ring, Fits, FrontClaim, EmptyOutside, Looks, OwnerAt
  <2>13. \A p \in lo .. hi - 1 : p # lo /\ ~OwnerAt(hi, p) => Looks(p, "kReady", TRUE)'
    <3>1. \A p \in lo .. hi - 1 : p # lo => View(slot', p) = View(slot, p)
      BY <2>7, <2>12, Bounds
    <3>2. \A p \in lo .. hi - 1 : ~OwnerAt(hi, p) => Looks(p, "kReady", TRUE)
      BY <1>1, <1>3 DEF Window, Ring, ReadyBetween
    <3> QED BY <3>1, <3>2 DEF Looks
  <2>14. HolderDid(t, lo, hi)
    BY <1>3, <2>1, <2>7, <2>10, <2>11, <2>12, <2>13 DEF HolderDid, Looks
  <2> QED BY <1>1, <2>7, <2>8, <2>14, HolderStep DEF Window
<1> QED BY <1>4, <1>5

\* Thief t takes the task out of position q, which it has claimed or may claim.
LEMMA TakenOut ==
  ASSUME IInv, NEW t \in Thieves, pc[t] \in HolderPcs, pc[t] \notin Pushing,
         NEW lo \in Int, NEW q \in lo .. lo + kCapacity - 1, View(slot, q).task # 0,
         StoreAt(slot, slot', q, [state |-> "kEmpty", task |-> 0]),
         Take(t, View(slot, q).task), sawEmpty' \in [Threads -> BOOLEAN],
         UNCHANGED <<mFront, mBack, mMutex, pushed>>
  PROVE  /\ TypeOK' /\ OnePlace'
         /\ task' \in [Threads -> 0 .. MaxPush] /\ task'[t] = 0
         /\ \A u \in Threads : u # t => task'[u] = task[u]
         /\ \A p \in lo .. lo + kCapacity - 1 : p # q => View(slot', p) = View(slot, p)
         /\ Looks(q, "kEmpty", FALSE)'
<1> DEFINE r == [state |-> "kEmpty", task |-> 0]
<1>1. slot \in [Slots -> SlotType] /\ q \in Int /\ q % kCapacity \in Slots
  BY SlotOf DEF IInv, TypeOK, SlotType
<1>2. t \in Threads /\ task[t] = 0 /\ PlaceTypes /\ OnePlace
  BY PlaceTyped DEF IInv, Control, Threads
<1>3. r \in SlotType /\ slot' = [slot EXCEPT ![q % kCapacity] = r]
  BY Bounds DEF SlotType, StoreAt
<1>4. View(slot, q) = slot[q % kCapacity]
  BY DEF View
<1>5. task' \in [Threads -> 0 .. MaxPush] /\ popped' \in [Tasks -> Nat]
  BY <1>2, TakeTyped
<1>6. task'[t] = 0 /\ \A u \in Threads : u # t => task'[u] = task[u]
  BY <1>2 DEF Take, PlaceTypes
<1>7. slot' \in [Slots -> SlotType]
  BY <1>1, <1>3
<1>8. TypeOK'
  BY <1>5, <1>7 DEF IInv, TypeOK, SlotType
<1>9. OnePlace'
  BY <1>1, <1>2, <1>3, <1>4, PlaceTaken
<1>10. \A p \in lo .. lo + kCapacity - 1 : View(slot', p) = IF p = q THEN r ELSE View(slot, p)
  BY <1>1, ViewSet
<1>11. View(slot', q) = r
  BY <1>10
<1> QED BY <1>5, <1>6, <1>8, <1>9, <1>10, <1>11 DEF Looks

\* PopBack moves the task out and stores kEmpty.
LEMMA PopBackTakeStep ==
  ASSUME IInv, NEW t \in Thieves, PopBackTake(t)
  PROVE  IInv'
<1>1. PICK lo, hi \in Int : Window(lo, hi)
  BY DEF IInv
<1> DEFINE i == At(back[t])
<1>2. /\ pc[t] = "popBack" /\ pc' = [pc EXCEPT ![t] = "popBackMove"]
      /\ slot' = [slot EXCEPT ![i] = [state |-> "kEmpty", task |-> 0]]
      /\ Take(t, slot[i].task)
      /\ UNCHANGED <<mFront, mBack, mMutex, op, front, back, mid, start, pushed, sawEmpty>>
  BY DEF PopBackTake, Goto, SetSlot, locals
<1>3. /\ t \in Threads /\ t # Owner /\ t # Nobody /\ Owner \in Threads
      /\ pc[t] \in HolderPcs /\ pc[t] \notin Pushing /\ mMutex = t
      /\ \A u \in Thieves : u # t => pc[u] \notin HolderPcs
      /\ \A p : BackAt(lo, p) <=> HolderAt(t, lo, p)
  BY <1>2, Alone, OneHolder DEF IInv, HolderPcs, Pushing
<1>4. Same(back[t], lo) /\ back[t] \in Int
  BY <1>1, <1>2, <1>3, Bounds
  DEF Window, BackWords, HolderWords, BusyBack, IInv, Control, Word
<1>5. i = lo % kCapacity
  BY <1>4, WordAt
<1>6. slot[i] = View(slot, lo) /\ lo \in lo .. lo + kCapacity - 1
  BY <1>5, Bounds DEF View
<1>7. lo < hi /\ hi <= lo + kCapacity /\ View(slot, lo).task # 0
  BY <1>1, <1>2 DEF Window, Ring, Fits, BackClaim, HolderClaim, Looks, BusyBack
<1>8. StoreAt(slot, slot', lo, [state |-> "kEmpty", task |-> 0])
  BY <1>2, <1>5 DEF StoreAt
<1>9. /\ TypeOK' /\ OnePlace'
      /\ task' \in [Threads -> 0 .. MaxPush] /\ task'[t] = 0
      /\ \A u \in Threads : u # t => task'[u] = task[u]
      /\ \A p \in lo .. lo + kCapacity - 1 : p # lo => View(slot', p) = View(slot, p)
      /\ Looks(lo, "kEmpty", FALSE)'
  <2>1. sawEmpty' \in [Threads -> BOOLEAN] /\ Take(t, View(slot, lo).task)
    BY <1>2, <1>6 DEF IInv, TypeOK
  <2> QED BY <1>2, <1>3, <1>6, <1>7, <1>8, <2>1, TakenOut
<1>10. HolderMove(t, "popBackMove")
  BY <1>2, <1>3, <1>9 DEF HolderMove, ThiefPcs, HolderPcs, BusyFront, Pushing, IInv, Control
<1>11. pc'[t] = "popBackMove" /\ pc'[Owner] = pc[Owner]
  BY <1>2, <1>3 DEF IInv, Control
<1>12. PICK l \in Int : l = lo + 1
  OBVIOUS
<1>13. HolderWords(t, l)' /\ HolderClaim(t, l, hi)' /\ \A p : ~HolderAt(t, l, p)'
  <2>1. l - 1 = lo
    BY <1>12
  <2> QED BY <1>2, <1>4, <1>11, <2>1
      DEF HolderWords, HolderClaim, HolderAt, Halved, Halving, BusyBack
<1>14. HolderAt(t, lo, lo) /\ ~OwnerAt(hi, lo) /\ \A p \in lo .. hi - 1 : HolderAt(t, lo, p) => p = lo
  BY <1>1, <1>2, <1>3, <1>7 DEF HolderAt, Halving, BusyBack, Window, Ring, ClaimsApart
<1>15. View(slot', lo + kCapacity) = View(slot', lo)
  BY ViewRound
<1>16. Fits(l, hi) /\ FrontClaim(l, hi)'
  BY <1>1, <1>7, <1>9, <1>11, <1>14, <1>12, Bounds
  DEF Window, Ring, Fits, FrontClaim, Looks, OwnerAt, BusyFront
<1>17. EmptyOutside(l, hi)'
  <2>1. \A p \in hi .. l + kCapacity - 1 :
          p = lo + kCapacity \/ p \in hi .. lo + kCapacity - 1
    BY <1>12, Bounds
  <2>2. \A p \in hi .. lo + kCapacity - 1 : Looks(p, "kEmpty", FALSE)'
    BY <1>1, <1>7, <1>9, Bounds DEF Window, Ring, EmptyOutside, Looks
  <2> QED BY <1>9, <1>15, <2>1, <2>2 DEF EmptyOutside, Looks
<1>18. \A p \in lo .. hi - 1 : p # lo /\ ~OwnerAt(hi, p) => Looks(p, "kReady", TRUE)'
  <2>1. \A p \in lo .. hi - 1 : p # lo => View(slot', p) = View(slot, p)
    BY <1>7, <1>9, Bounds
  <2>2. \A p \in lo .. hi - 1 : p # lo /\ ~OwnerAt(hi, p) => Looks(p, "kReady", TRUE)
    BY <1>1, <1>3, <1>14 DEF Window, Ring, ReadyBetween
  <2> QED BY <2>1, <2>2 DEF Looks
<1>19. \A p \in l .. hi - 1 : ~OwnerAt(hi, p) => Looks(p, "kReady", TRUE)'
  BY <1>18, <1>12 DEF Looks
<1>20. HolderDid(t, l, hi)
  BY <1>2, <1>3, <1>13, <1>16, <1>17, <1>19 DEF HolderDid, Looks
<1> QED BY <1>1, <1>9, <1>10, <1>20, HolderStep DEF Window

\* PopBack stores the new mBack and unlocks.
LEMMA PopBackMoveStep ==
  ASSUME IInv, NEW t \in Thieves, PopBackMove(t)
  PROVE  IInv'
<1>1. PICK lo, hi \in Int : Window(lo, hi)
  BY DEF IInv
<1>2. /\ pc[t] = "popBackMove" /\ pc' = [pc EXCEPT ![t] = "idle"]
      /\ mBack' = Advance(back[t]) /\ mMutex' = Nobody
      /\ op' = [op EXCEPT ![t] = "none"]
      /\ front' = [front EXCEPT ![t] = 0] /\ back' = [back EXCEPT ![t] = 0]
      /\ mid' = [mid EXCEPT ![t] = 0] /\ start' = [start EXCEPT ![t] = 0]
      /\ UNCHANGED <<mFront, slot, task, pushed, popped, sawEmpty>>
  BY DEF PopBackMove, Goto, Return, history
<1>3. /\ t \in Threads /\ t # Owner /\ t # Nobody /\ pc[t] \in HolderPcs
      /\ \A u \in Thieves : u # t => pc[u] \notin HolderPcs
  BY <1>2, Alone DEF IInv, HolderPcs
<1>4. Same(back[t], lo - 1) /\ back[t] \in Int
  BY <1>1, <1>2, <1>3, Bounds DEF Window, BackWords, HolderWords, IInv, Control, Word
<1>5. Advance(back[t]) \in Word /\ Same(Advance(back[t]), lo)
  <2>1. lo - 1 \in Int /\ (lo - 1) + 1 = lo
    OBVIOUS
  <2> QED BY <2>1, <1>4, AdvanceWord
<1>6. TypeOK'
  BY <1>2, <1>5 DEF IInv, TypeOK, Word
<1>7. OnePlace'
  BY <1>2, PlaceKept DEF IInv
<1>8. HolderMove(t, "idle")
  BY <1>2, <1>3, Bounds
  DEF HolderMove, ThiefPcs, HolderPcs, BusyFront, Pushing, IInv, Control, TypeOK, Word
<1>9. pc'[t] = "idle"
  BY <1>2, <1>3 DEF IInv, Control
<1>10. /\ HolderWords(t, lo)' /\ HolderClaim(t, lo, hi)'
       /\ \A p \in Int : HolderAt(t, lo, p)' <=> HolderAt(t, lo, p)
  <2>1. HolderWords(t, lo)' /\ HolderClaim(t, lo, hi)' /\ \A p : ~HolderAt(t, lo, p)'
    BY <1>9, NotHolderNext DEF HolderPcs
  <2>2. \A p : ~HolderAt(t, lo, p)
    BY <1>2 DEF HolderAt, Halving, BusyBack
  <2> QED BY <2>1, <2>2
<1>11. HolderDid(t, lo, hi)
  BY <1>1, <1>2, <1>3, <1>5, <1>8, <1>10, SlotsKept
<1> QED BY <1>1, <1>6, <1>7, <1>8, <1>11, HolderStep DEF Window

\* PopBackHalf takes the lock and computes the middle of the deque.
LEMMA HalfLockStep ==
  ASSUME IInv, NEW t \in Thieves, HalfLock(t)
  PROVE  IInv'
<1>1. PICK lo, hi \in Int : Window(lo, hi)
  BY DEF IInv
<1> DEFINE size == CalculateSize(mFront, mBack)
           n == IF size > kCapacity THEN kCapacity ELSE size
           m == IF n > 1 THEN (n - 1) \div 2 ELSE 0
<1>2. /\ pc[t] = "lock" /\ mMutex = Nobody /\ mMutex' = t
      /\ pc' = [pc EXCEPT ![t] = "half"]
      /\ back' = [back EXCEPT ![t] = mBack]
      /\ mid' = [mid EXCEPT ![t] = m] /\ start' = [start EXCEPT ![t] = -1]
      /\ UNCHANGED <<mFront, mBack, slot, op, task, front, pushed, popped, sawEmpty>>
  BY DEF HalfLock, Goto, history
<1>3. /\ t \in Threads /\ t # Owner /\ t # Nobody
      /\ pc[t] \notin HolderPcs /\ \A u \in Thieves : u # t => pc[u] \notin HolderPcs
  BY <1>2, Alone, FreeBack DEF IInv
<1>4. Same(mBack, lo) /\ mBack \in Word /\ mBack \in Int /\ mFront \in Int
  BY <1>1, <1>2, Bounds DEF Window, BackWords, IInv, TypeOK, Word
<1>5. m \in 0 .. kCapacity - 1
  <2>1. mFront % kMask2 \in 0 .. kMask2 - 1 /\ mBack % kMask2 \in 0 .. kMask2 - 1
    BY <1>4, Bounds, DivMod
  <2>2. size \in Int
    BY <2>1, Bounds DEF CalculateSize
  <2> HIDE DEF size
  <2>3. n \in Int /\ n <= kCapacity
    BY <2>2, Bounds
  <2> HIDE DEF n
  <2>4. n > 1 => (n - 1) \div 2 \in 0 .. n - 1
    BY <2>3, SMT
  <2> QED BY <2>3, <2>4, Bounds
<1> HIDE DEF m
<1>6. TypeOK'
  BY <1>2 DEF IInv, TypeOK
<1>7. OnePlace'
  BY <1>2, PlaceKept DEF IInv
<1>8. HolderMove(t, "half")
  BY <1>2, <1>3, <1>4, <1>5, Bounds
  DEF HolderMove, ThiefPcs, HolderPcs, BusyFront, Pushing, IInv, Control, TypeOK
<1>9. pc'[t] = "half" /\ start'[t] = -1 /\ back'[t] = mBack
  BY <1>2, <1>3 DEF IInv, Control
<1>10. HolderWords(t, lo)' /\ HolderClaim(t, lo, hi)' /\ \A p : ~HolderAt(t, lo, p)'
  BY <1>2, <1>4, <1>9 DEF HolderWords, HolderClaim, HolderAt, Halved, Halving, BusyBack
<1>11. \A p \in Int : HolderAt(t, lo, p)' <=> HolderAt(t, lo, p)
  BY <1>3, <1>10, NotHolder
<1>12. HolderDid(t, lo, hi)
  BY <1>1, <1>2, <1>3, <1>8, <1>10, <1>11, SlotsKept
<1> QED BY <1>1, <1>6, <1>7, <1>8, <1>12, HolderStep DEF Window

\* The slot PopBackHalf looks at is that of the mid-th position.
LEMMA HalfAt ==
  ASSUME IInv, NEW t \in Thieves, pc[t] = "half", mid[t] >= 0,
         NEW lo \in Int, NEW hi \in Int, Window(lo, hi)
  PROVE  /\ Same(mBack, lo) /\ Same(back[t], lo) /\ back[t] \in Int
         /\ mid[t] \in 0 .. kCapacity - 1 /\ start[t] \in -1 .. kCapacity - 1
         /\ lo + mid[t] \in lo .. lo + kCapacity - 1
         /\ HalfIndex(t) = (lo + mid[t]) % kCapacity
         /\ slot[HalfIndex(t)] = View(slot, lo + mid[t])
<1>1. t \in Threads
  BY DEF Threads
<1>2. /\ mid[t] \in 0 .. kCapacity - 1 /\ start[t] \in -1 .. kCapacity - 1
      /\ back[t] \in Int /\ mid[t] \in Int
  BY <1>1, Bounds DEF IInv, Control, Word
<1>3. Same(mBack, lo) /\ Same(back[t], lo)
  BY DEF Window, BackWords, HolderWords, Halved
<1>4. Same(back[t] + mid[t], lo + mid[t])
  BY <1>2, <1>3, SamePlus
<1>5. back[t] + mid[t] \in Int /\ lo + mid[t] \in Int /\ lo + mid[t] \in lo .. lo + kCapacity - 1
  BY <1>2, Bounds
<1>6. HalfIndex(t) = (lo + mid[t]) % kCapacity
  BY <1>4, <1>5, WordAt DEF HalfIndex
<1> QED BY <1>2, <1>3, <1>5, <1>6 DEF View

\* PopBackHalf's exchange at the present slot: the first success fixes where
\* its run starts, a failure before that goes on with the slot below.
LEMMA HalfClaimStep ==
  ASSUME IInv, NEW t \in Thieves, HalfClaim(t)
  PROVE  IInv'
<1>1. PICK lo, hi \in Int : Window(lo, hi)
  BY DEF IInv
<1> DEFINE i == HalfIndex(t)
<1>2. /\ pc[t] = "half" /\ mid[t] >= 0 /\ start[t] = -1
      /\ UNCHANGED <<mFront, mBack, mMutex, pc, op, task, front, back, pushed, popped>>
  BY DEF HalfClaim
<1>3. /\ t \in Threads /\ t # Owner /\ t # Nobody /\ Owner \in Threads
      /\ pc[t] \in HolderPcs /\ mMutex = t
      /\ \A u \in Thieves : u # t => pc[u] \notin HolderPcs
      /\ \A p : BackAt(lo, p) <=> HolderAt(t, lo, p)
  BY <1>2, Alone, OneHolder DEF IInv, HolderPcs
<1>4. PICK q \in lo .. lo + kCapacity - 1 :
        q = lo + mid[t] /\ i = q % kCapacity /\ slot[i] = View(slot, q)
  BY <1>1, <1>2, HalfAt
<1>5. Same(mBack, lo) /\ Same(back[t], lo) /\ mid[t] \in 0 .. kCapacity - 1
  BY <1>1, <1>2, HalfAt
<1>6. pc' = [pc EXCEPT ![t] = "half"] /\ pc'[Owner] = pc[Owner] /\ pc'[t] = "half" /\ q \in Int
  BY <1>2, <1>4, Bounds DEF IInv, Control
<1>7. \A p : ~HolderAt(t, lo, p)
  BY <1>2 DEF HolderAt, Halving, BusyBack
<1>8. CASE slot[i].state # "kReady"
  <2>1. mid' = [mid EXCEPT ![t] = @ - 1] /\ UNCHANGED <<slot, start, sawEmpty>>
    BY <1>8 DEF HalfClaim
  <2>2. TypeOK'
    BY <1>2, <2>1 DEF IInv, TypeOK
  <2>3. OnePlace'
    BY <1>2, <2>1, PlaceKept DEF IInv
  <2>4. HolderMove(t, "half")
    <3>1. mid' \in [Threads -> -1 .. kCapacity - 1]
      BY <1>3, <1>5, <2>1, Bounds DEF IInv, Control
    <3> QED BY <1>2, <1>3, <1>6, <2>1, <3>1
        DEF HolderMove, ThiefPcs, HolderPcs, BusyFront, Pushing, IInv, Control, TypeOK
  <2>5. HolderWords(t, lo)' /\ HolderClaim(t, lo, hi)' /\ \A p : ~HolderAt(t, lo, p)'
    BY <1>2, <1>5, <1>6, <2>1
    DEF HolderWords, HolderClaim, HolderAt, Halved, Halving, BusyBack
  <2>6. HolderDid(t, lo, hi)
    BY <1>1, <1>2, <1>3, <1>7, <2>1, <2>4, <2>5, SlotsKept
  <2> QED BY <1>1, <2>2, <2>3, <2>4, <2>6, HolderStep DEF Window
<1>9. CASE slot[i].state = "kReady"
  <2>1. /\ slot' = [slot EXCEPT ![i] = [state |-> "kBusy", task |-> slot[i].task]]
        /\ Claimed(i) /\ start' = [start EXCEPT ![t] = mid[t]] /\ mid' = mid
    BY <1>9 DEF HalfClaim, SetSlot
  <2>2. StoreAt(slot, slot', q, [state |-> "kBusy", task |-> View(slot, q).task])
    BY <1>4, <2>1 DEF StoreAt
  <2>3. sawEmpty' \in [Threads -> BOOLEAN]
    BY <2>1 DEF Claimed
  <2>4. /\ TypeOK' /\ OnePlace' /\ q < hi /\ ~OwnerAt(hi, q)
        /\ \A p \in lo .. lo + kCapacity - 1 : p # q => View(slot', p) = View(slot, p)
        /\ Looks(q, "kBusy", TRUE)'
    BY <1>1, <1>2, <1>3, <1>4, <1>9, <2>2, <2>3, ReadyClaimed
  <2>5. HolderMove(t, "half")
    <3>1. start' \in [Threads -> -1 .. kCapacity - 1]
      BY <1>3, <1>5, <2>1, Bounds DEF IInv, Control
    <3> QED BY <1>2, <1>3, <1>6, <2>1, <3>1
        DEF HolderMove, ThiefPcs, HolderPcs, BusyFront, Pushing, IInv, Control, TypeOK
  <2>6. mid'[t] = mid[t] /\ start'[t] = mid[t] /\ back'[t] = back[t]
    BY <1>2, <1>3, <2>1 DEF IInv, Control
  <2>7. HolderWords(t, lo)'
    BY <1>2, <1>5, <1>6, <2>6 DEF HolderWords, Halved, BusyBack
  <2>8. HolderClaim(t, lo, hi)'
    <3>1. /\ mid'[t] <= start'[t] /\ lo + start'[t] < hi /\ q = lo + mid'[t]
          /\ \A p \in lo + mid'[t] + 1 .. lo + start'[t] : FALSE
      BY <1>4, <1>5, <2>4, <2>6
    <3> QED BY <1>6, <2>4, <3>1 DEF HolderClaim, Halving, BusyBack, Looks
  <2>9. \A p \in lo .. hi - 1 : HolderAt(t, lo, p)' <=> p = q
    BY <1>4, <1>5, <1>6, <2>6 DEF HolderAt, Halving, BusyBack
  <2>10. Fits(lo, hi) /\ hi <= lo + kCapacity /\ FrontClaim(lo, hi)' /\ EmptyOutside(lo, hi)'
    BY <1>1, <1>6, <2>4, Bounds
    DEF Window, Ring, Fits, FrontClaim, EmptyOutside, Looks, OwnerAt
  <2>11. \A p \in lo .. hi - 1 : p # q /\ ~OwnerAt(hi, p) => Looks(p, "kReady", TRUE)'
    <3>1. \A p \in lo .. hi - 1 : p # q => View(slot', p) = View(slot, p)
      BY <2>4, <2>10, Bounds
    <3>2. \A p \in lo .. hi - 1 : ~OwnerAt(hi, p) => Looks(p, "kReady", TRUE)
      BY <1>1, <1>3, <1>7 DEF Window, Ring, ReadyBetween
    <3> QED BY <3>1, <3>2 DEF Looks
  <2>12. HolderDid(t, lo, hi)
    BY <1>2, <1>3, <2>4, <2>7, <2>8, <2>9, <2>10, <2>11 DEF HolderDid, Looks
  <2> QED BY <1>1, <2>4, <2>5, <2>12, HolderStep DEF Window
<1> QED BY <1>8, <1>9

\* PopBackHalf has emptied its run: it stores mBack beyond it, if there was one, and unlocks.
LEMMA HalfMoveStep ==
  ASSUME IInv, NEW t \in Thieves, HalfMove(t)
  PROVE  IInv'
<1>1. PICK lo, hi \in Int : Window(lo, hi)
  BY DEF IInv
<1>2. /\ pc[t] = "half" /\ mid[t] < 0 /\ pc' = [pc EXCEPT ![t] = "idle"]
      /\ mBack' = IF start[t] = -1 THEN mBack ELSE Advance(back[t] + start[t])
      /\ mMutex' = Nobody /\ op' = [op EXCEPT ![t] = "none"]
      /\ front' = [front EXCEPT ![t] = 0] /\ back' = [back EXCEPT ![t] = 0]
      /\ mid' = [mid EXCEPT ![t] = 0] /\ start' = [start EXCEPT ![t] = 0]
      /\ UNCHANGED <<mFront, slot, task, pushed, popped, sawEmpty>>
  BY DEF HalfMove, Goto, Return, history
<1>3. /\ t \in Threads /\ t # Owner /\ t # Nobody /\ pc[t] \in HolderPcs
      /\ \A u \in Thieves : u # t => pc[u] \notin HolderPcs
  BY <1>2, Alone DEF IInv, HolderPcs
<1>4. mBack' \in Word /\ Same(mBack', lo)
  <2>1. CASE start[t] = -1
    BY <1>1, <1>2, <2>1 DEF Window, BackWords, HolderWords, Halved, IInv, TypeOK, Word
  <2>2. CASE start[t] # -1
    <3>1. mid[t] = -1 /\ back[t] + start[t] \in Int
      BY <1>2, <1>3, Bounds DEF IInv, Control, Word
    <3>2. Same(back[t] + start[t], lo - 1)
      BY <1>1, <1>2, <2>2, <3>1 DEF Window, BackWords, HolderWords, Halved
    <3>3. lo - 1 \in Int /\ (lo - 1) + 1 = lo
      OBVIOUS
    <3> QED BY <1>2, <2>2, <3>1, <3>2, <3>3, AdvanceWord
  <2> QED BY <2>1, <2>2
<1>5. TypeOK'
  BY <1>2, <1>4 DEF IInv, TypeOK, Word
<1>6. OnePlace'
  BY <1>2, PlaceKept DEF IInv
<1>7. HolderMove(t, "idle")
  BY <1>2, <1>3, Bounds
  DEF HolderMove, ThiefPcs, HolderPcs, BusyFront, Pushing, IInv, Control, TypeOK, Word
<1>8. pc'[t] = "idle"
  BY <1>2, <1>3 DEF IInv, Control
<1>9. HolderWords(t, lo)' /\ HolderClaim(t, lo, hi)' /\ \A p : ~HolderAt(t, lo, p)'
  BY <1>8, NotHolderNext DEF HolderPcs
<1>10. \A p : ~HolderAt(t, lo, p)
  BY <1>2, <1>3, Bounds DEF HolderAt, Halving, BusyBack, IInv, Control
<1>11. HolderDid(t, lo, hi)
  BY <1>1, <1>2, <1>3, <1>4, <1>7, <1>9, <1>10, SlotsKept
<1> QED BY <1>1, <1>5, <1>6, <1>7, <1>11, HolderStep DEF Window

\* PopBackHalf takes the task of one slot of its run.
LEMMA HalfTakeStep ==
  ASSUME IInv, NEW t \in Thieves, HalfTake(t)
  PROVE  IInv'
<1>1. PICK lo, hi \in Int : Window(lo, hi)
  BY DEF IInv
<1> DEFINE i == HalfIndex(t)
<1>2. /\ pc[t] = "half" /\ mid[t] >= 0 /\ start[t] # -1
      /\ slot' = [slot EXCEPT ![i] = [state |-> "kEmpty", task |-> 0]]
      /\ Take(t, slot[i].task) /\ Claimed(i) /\ mid' = [mid EXCEPT ![t] = @ - 1]
      /\ UNCHANGED <<mFront, mBack, mMutex, pc, op, front, back, start, pushed>>
  BY DEF HalfTake, SetSlot
<1>3. /\ t \in Threads /\ t # Owner /\ t # Nobody /\ Owner \in Threads
      /\ pc[t] \in HolderPcs /\ mMutex = t /\ pc[t] \notin Pushing
      /\ \A u \in Thieves : u # t => pc[u] \notin HolderPcs
      /\ \A p : BackAt(lo, p) <=> HolderAt(t, lo, p)
  BY <1>2, Alone, OneHolder DEF IInv, HolderPcs, Pushing
<1>4. PICK q \in lo .. lo + kCapacity - 1 :
        q = lo + mid[t] /\ i = q % kCapacity /\ slot[i] = View(slot, q)
  BY <1>1, <1>2, HalfAt
<1>5. /\ Same(mBack, lo) /\ Same(back[t], lo) /\ back[t] \in Int
      /\ mid[t] \in 0 .. kCapacity - 1 /\ start[t] \in 0 .. kCapacity - 1
      /\ mid[t] \in Int /\ start[t] \in Int /\ q \in Int
  BY <1>1, <1>2, <1>4, HalfAt, Bounds
<1>6. /\ Halving(t) /\ mid[t] <= start[t] /\ lo + start[t] < hi /\ hi <= lo + kCapacity
      /\ mid[t] = start[t] => View(slot, q).task # 0
  BY <1>1, <1>2, <1>4 DEF Window, Ring, Fits, BackClaim, HolderClaim, Halving, Looks
<1>7. \A p \in lo .. hi - 1 : HolderAt(t, lo, p) <=>
        /\ lo + mid[t] <= p /\ p <= lo + start[t]
        /\ p = lo + mid[t] => mid[t] = start[t]
  BY <1>2, <1>5, <1>6 DEF HolderAt, BusyBack
<1>8. \A p \in lo .. hi - 1 : OwnerAt(hi, p) => lo + start[t] < p
  <2>1. HolderAt(t, lo, lo + start[t]) /\ lo + start[t] \in lo .. hi - 1
    BY <1>5, <1>6, <1>7
  <2>2. ~OwnerAt(hi, lo + start[t])
    BY <1>1, <1>3, <2>1 DEF Window, Ring, ClaimsApart
  <2> QED BY <1>5, <1>6, <2>2 DEF OwnerAt
<1>9. View(slot, q).task # 0
  <2>1. CASE mid[t] # start[t]
    <3>1. q \in lo .. hi - 1 /\ ~HolderAt(t, lo, q) /\ ~OwnerAt(hi, q)
      BY <1>4, <1>5, <1>6, <1>7, <1>8, <2>1
    <3> QED BY <1>1, <1>3, <3>1 DEF Window, Ring, ReadyBetween, Looks
  <2> QED BY <1>6, <2>1
<1>10. /\ StoreAt(slot, slot', q, [state |-> "kEmpty", task |-> 0])
       /\ Take(t, View(slot, q).task) /\ sawEmpty' \in [Threads -> BOOLEAN]
  BY <1>2, <1>4 DEF StoreAt, Claimed
<1>11. /\ TypeOK' /\ OnePlace'
       /\ task' \in [Threads -> 0 .. MaxPush] /\ task'[t] = 0
       /\ \A u \in Threads : u # t => task'[u] = task[u]
       /\ \A p \in lo .. lo + kCapacity - 1 : p # q => View(slot', p) = View(slot, p)
       /\ Looks(q, "kEmpty", FALSE)'
  BY <1>2, <1>3, <1>9, <1>10, TakenOut
<1>12. /\ pc' = [pc EXCEPT ![t] = "half"] /\ pc'[Owner] = pc[Owner] /\ pc'[t] = "half"
       /\ mid'[t] = mid[t] - 1 /\ start'[t] = start[t] /\ back'[t] = back[t]
  BY <1>2, <1>3 DEF IInv, Control
<1>13. HolderMove(t, "half")
  <2>1. mid' \in [Threads -> -1 .. kCapacity - 1]
    BY <1>2, <1>3, <1>5, Bounds DEF IInv, Control
  <2> QED BY <1>2, <1>3, <1>11, <1>12, <2>1
      DEF HolderMove, ThiefPcs, HolderPcs, BusyFront, Pushing, IInv, Control
<1>14. \A p \in lo + mid[t] .. lo + start[t] : Looks(p, "kEmpty", FALSE)'
  <2>1. \A p \in lo + mid[t] .. lo + start[t] :
          p = q \/ (p # q /\ p \in lo + mid[t] + 1 .. lo + start[t] /\ p \in lo .. lo + kCapacity - 1)
    BY <1>4, <1>5, <1>6, Bounds
  <2>2. \A p \in lo + mid[t] + 1 .. lo + start[t] : Looks(p, "kEmpty", FALSE)
    BY <1>1, <1>6 DEF Window, Ring, BackClaim, HolderClaim
  <2> QED BY <1>11, <2>1, <2>2 DEF Looks
<1>15. \A p \in lo .. hi - 1 :
         (p < lo + mid[t] \/ lo + start[t] < p) /\ ~OwnerAt(hi, p) => Looks(p, "kReady", TRUE)'
  <2>1. \A p \in lo .. hi - 1 : p # q => View(slot', p) = View(slot, p)
    BY <1>6, <1>11, Bounds
  <2>2. \A p \in lo .. hi - 1 : ~HolderAt(t, lo, p) /\ ~OwnerAt(hi, p) => Looks(p, "kReady", TRUE)
    BY <1>1, <1>3 DEF Window, Ring, ReadyBetween
  <2>3. \A p \in lo .. hi - 1 :
          (p < lo + mid[t] \/ lo + start[t] < p) => p # q /\ ~HolderAt(t, lo, p)
    BY <1>4, <1>5, <1>6, <1>7
  <2> QED BY <2>1, <2>2, <2>3 DEF Looks
<1>16. FrontClaim(lo, hi)' /\ EmptyOutside(lo, hi)' /\ (pc[Owner] \in BusyFront => lo + start[t] < hi - 1)
  <2>1. pc[Owner] \in BusyFront => lo + start[t] < hi - 1
    BY <1>5, <1>6, <1>8 DEF OwnerAt
  <2>2. EmptyOutside(lo, hi)'
    <3> SUFFICES ASSUME NEW p \in hi .. lo + kCapacity - 1
                 PROVE  Looks(p, "kEmpty", FALSE)'
      BY DEF EmptyOutside
    <3>1. p \in lo .. lo + kCapacity - 1 /\ p # q
      BY <1>4, <1>5, <1>6, Bounds
    <3>2. Looks(p, "kEmpty", FALSE)
      BY <1>1 DEF Window, Ring, EmptyOutside
    <3> QED BY <1>11, <3>1, <3>2 DEF Looks
  <2>3. CASE pc[Owner] \in BusyFront
    <3>1. hi - 1 \in lo .. lo + kCapacity - 1 /\ hi - 1 # q /\ lo < hi
      BY <1>4, <1>5, <1>6, <2>1, <2>3, Bounds
    <3>2. Looks(hi - 1, "kBusy", pc[Owner] = "popFront")
      BY <1>1, <2>3 DEF Window, Ring, FrontClaim
    <3>3. View(slot', hi - 1) = View(slot, hi - 1)
      BY <1>11, <3>1
    <3> QED BY <1>12, <2>1, <2>2, <3>1, <3>2, <3>3 DEF FrontClaim, Looks
  <2>4. CASE pc[Owner] \notin BusyFront
    BY <1>12, <2>1, <2>2, <2>4 DEF FrontClaim
  <2> QED BY <2>3, <2>4
<1>17. CASE mid[t] > 0
  <2>1. HolderWords(t, lo)'
    BY <1>2, <1>5, <1>12, <1>17 DEF HolderWords, Halved, BusyBack
  <2>2. HolderClaim(t, lo, hi)'
    <3>1. /\ mid'[t] <= start'[t] /\ lo + start'[t] < hi /\ mid'[t] # start'[t]
          /\ lo + mid'[t] + 1 = lo + mid[t]
      BY <1>5, <1>6, <1>12
    <3>2. \A p \in lo + mid'[t] + 1 .. lo + start'[t] : Looks(p, "kEmpty", FALSE)'
      BY <1>12, <1>14, <3>1 DEF Looks
    <3> QED BY <1>12, <3>1, <3>2 DEF HolderClaim, BusyBack, Looks
  <2>3. \A p \in lo .. hi - 1 : HolderAt(t, lo, p)' <=> lo + mid[t] <= p /\ p <= lo + start[t]
    BY <1>2, <1>5, <1>6, <1>12, <1>17 DEF HolderAt, Halving, BusyBack
  <2>4. Fits(lo, hi)
    BY <1>1 DEF Window, Ring
  <2>5. \A p \in lo .. hi - 1 : IF OwnerAt(hi, p) THEN ~HolderAt(t, lo, p)'
                               ELSE HolderAt(t, lo, p)' \/ Looks(p, "kReady", TRUE)'
    <3> TAKE p \in lo .. hi - 1
    <3>1. CASE OwnerAt(hi, p)
      BY <1>5, <1>8, <2>3, <3>1
    <3>2. CASE ~OwnerAt(hi, p) /\ lo + mid[t] <= p /\ p <= lo + start[t]
      BY <2>3, <3>2
    <3>3. CASE ~OwnerAt(hi, p) /\ (p < lo + mid[t] \/ lo + start[t] < p)
      BY <1>15, <3>3 DEF Looks
    <3> QED BY <1>5, <3>1, <3>2, <3>3 DEF Looks
  <2>6. HolderDid(t, lo, hi)
    BY <1>2, <1>3, <1>16, <2>1, <2>2, <2>4, <2>5 DEF HolderDid, Looks
  <2> QED BY <1>1, <1>11, <1>13, <2>6, HolderStep DEF Window
<1>18. CASE mid[t] = 0
  <2>1. PICK l \in Int : l = lo + start[t] + 1
    BY <1>5
  <2>2. HolderWords(t, l)'
    <3>1. Same(back[t] + start[t], lo + start[t]) /\ l - 1 = lo + start[t]
      BY <1>5, <2>1, SamePlus
    <3> QED BY <1>2, <1>12, <1>18, <3>1 DEF HolderWords, Halved, BusyBack
  <2>3. HolderClaim(t, l, hi)' /\ \A p : ~HolderAt(t, l, p)'
    BY <1>12, <1>18 DEF HolderClaim, HolderAt, Halving, BusyBack
  <2>4. Fits(l, hi) /\ FrontClaim(l, hi)'
    BY <1>5, <1>6, <1>12, <1>16, <2>1, Bounds DEF Fits, FrontClaim, Looks
  <2>5. EmptyOutside(l, hi)'
    <3>1. ASSUME NEW p \in hi .. l + kCapacity - 1, p > lo + kCapacity - 1
          PROVE  Looks(p, "kEmpty", FALSE)'
      <4>1. PICK k \in Int : k = p - kCapacity
        BY Bounds
      <4>2. k + kCapacity = p /\ k \in lo + mid[t] .. lo + start[t]
        BY <1>5, <1>18, <2>1, <3>1, <4>1, Bounds
      <4>3. View(slot', p) = View(slot', k)
        BY <4>2, ViewRound
      <4> QED BY <1>14, <4>2, <4>3 DEF Looks
    <3>2. \A p \in hi .. l + kCapacity - 1 : p > lo + kCapacity - 1 \/ p \in hi .. lo + kCapacity - 1
      BY <2>1, Bounds
    <3> QED BY <1>16, <3>1, <3>2 DEF EmptyOutside, Looks
  <2>6. \A p \in l .. hi - 1 : ~OwnerAt(hi, p) => Looks(p, "kReady", TRUE)'
    BY <1>5, <1>15, <2>1 DEF Looks
  <2>7. HolderDid(t, l, hi)
    BY <1>2, <1>3, <2>2, <2>3, <2>4, <2>5, <2>6 DEF HolderDid, Looks
  <2> QED BY <1>1, <1>11, <1>13, <2>7, HolderStep DEF Window
<1> QED BY <1>5, <1>17, <1>18

-------------------------------------------------------------------------------
(***************************************************************************)
(* The invariant and what it says.                                         *)
(***************************************************************************)
LEMMA InitInv ==
  ASSUME Init
  PROVE  IInv
<1>1. 0 \in Word /\ 0 \in 0 .. MaxPush /\ 0 \in -1 .. kCapacity - 1 /\ 0 \in 0 .. IndexMod - 1
  BY Bounds DEF Word
<1>2. TypeOK
  BY <1>1 DEF Init, TypeOK
<1>3. Control
  BY <1>1, CapacityAssumption
  DEF Init, Control, OwnerPcs, ThiefPcs, HolderPcs, Reading, Pushing, Threads
<1>4. OnePlace
  BY DEF Init, OnePlace, Unoffered, HandsApart, SlotsApart, HandOrSlot, OutOrIn,
         Somewhere, Tasks
<1>5. \A p \in Int : Looks(p, "kEmpty", FALSE)
  BY SlotOf DEF Init, Looks, View
<1>6. pc[Owner] = "idle" /\ \A t \in Thieves : pc[t] \notin HolderPcs
  BY DEF Init, Threads, HolderPcs
<1>7. FrontWords(0) /\ BackWords(0)
  BY <1>6, NotHolder DEF Init, FrontWords, BackWords, BusyFront, Same
<1>8. Ring(0, 0)
  <2>1. Fits(0, 0) /\ FrontClaim(0, 0) /\ BackClaim(0, 0)
    BY <1>6, NotHolder, Bounds DEF Fits, FrontClaim, BackClaim, BusyFront
  <2>2. ClaimsApart(0, 0) /\ ReadyBetween(0, 0) /\ EmptyOutside(0, 0)
    BY <1>5, Bounds DEF ClaimsApart, ReadyBetween, EmptyOutside, Looks
  <2> QED BY <2>1, <2>2 DEF Ring
<1> QED BY <1>2, <1>3, <1>4, <1>7, <1>8 DEF IInv, Window

\* Every step keeps the invariant.
LEMMA NextInv ==
  ASSUME IInv, [Next]_vars
  PROVE  IInv'
<1>1. CASE UNCHANGED vars
  <2>1. PICK lo, hi \in Int : Window(lo, hi)
    BY DEF IInv
  <2>2. TypeOK' /\ Control' /\ OnePlace'
    BY <1>1 DEF IInv, vars, TypeOK, Control, OnePlace, Unoffered, HandsApart, SlotsApart,
       HandOrSlot, OutOrIn, Somewhere
  <2>3. Window(lo, hi)'
    BY <1>1, <2>1
    DEF vars, Window, FrontWords, BackWords, HolderWords, Ring, Fits, FrontClaim, 
       BackClaim, HolderClaim, ClaimsApart, ReadyBetween, EmptyOutside, Looks, OwnerAt,
       BackAt, HolderAt, Halving, Halved
  <2> QED BY <2>2, <2>3 DEF IInv
<1>2. CASE OwnerStep
  <2>1. Owner \in Threads
    BY DEF Threads
  <2>2. CASE PushFront
    BY <2>2, PushFrontClaimStep, PushFrontMoveStep, PushFrontPublishStep DEF PushFront
  <2>3. CASE PopFront
    BY <2>3, PopFrontClaimStep, PopFrontTakeStep, PopFrontMoveStep DEF PopFront
  <2>4. CASE EmptyCall(Owner, "Empty")
    BY <2>1, <2>4, EmptyCallStep
  <2>5. CASE Empty(Owner)
    BY <2>1, <2>5, EmptyStep
  <2> QED BY <1>2, <2>2, <2>3, <2>4, <2>5 DEF OwnerStep
<1>3. ASSUME NEW t \in Thieves, ThiefStep(t) PROVE IInv'
  <2>1. t \in Threads /\ t # Owner
    BY CapacityAssumption DEF Threads
  <2>2. CASE PushBack(t)
    BY <2>2, PushBackClaimStep, PushBackMoveStep, PushBackPublishStep DEF PushBack
  <2>3. CASE PopBack(t)
    BY <2>3, PopBackClaimStep, PopBackTakeStep, PopBackMoveStep DEF PopBack
  <2>4. CASE PopBackHalf(t)
    BY <2>4, HalfLockStep, HalfClaimStep, HalfTakeStep, HalfMoveStep DEF PopBackHalf
  <2>5. ASSUME NEW o \in BackOps \cup {"Empty"}, EmptyCall(t, o) PROVE IInv'
    BY <2>1, <2>5, EmptyCallStep
  <2>6. CASE Empty(t)
    BY <2>1, <2>6, EmptyStep
  <2> QED BY <1>3, <2>2, <2>3, <2>4, <2>5, <2>6 DEF ThiefStep
<1> QED BY <1>1, <1>2, <1>3 DEF Next

\* The invariant behind DequeIntact, for every capacity, every set of thieves
\* and every number of pushes: there is a window of at most kCapacity positions
\* in which every slot is what the claims of the owner and of the one holder of
\* mMutex say, the index words stand for its ends, and every task is in one place.
THEOREM DequeInvariant == Spec => []IInv
<1>1. Init => IInv
  BY InitInv
<1>2. IInv /\ [Next]_vars => IInv'
  BY NextInv
<1> QED BY <1>1, <1>2, PTL DEF Spec

\* Every task is in exactly one place: none is lost, none duplicated.
LEMMA OnePlaceCount ==
  ASSUME IInv
  PROVE  NoTaskLostOrDuplicated
<1> SUFFICES ASSUME NEW x \in 1 .. pushed PROVE Places(x) = 1
  BY DEF NoTaskLostOrDuplicated
<1> DEFINE H == {t \in Threads : task[t] = x}
           S == {i \in Slots : slot[i].task = x}
<1>1. x \in Tasks /\ x # 0 /\ popped[x] \in {0, 1}
  BY Bounds DEF IInv, TypeOK, OnePlace, OutOrIn, Tasks
<1>2. Places(x) = Cardinality(H) + Cardinality(S) + popped[x]
  BY DEF Places
<1>3. Cardinality({}) = 0 /\ \A e : Cardinality({e}) = 1
  BY FS_EmptySet, FS_Singleton
<1>4. CASE popped[x] = 1
  <2>1. H = {} /\ S = {}
    BY <1>1, <1>4 DEF IInv, OnePlace, OutOrIn
  <2> HIDE DEF H, S
  <2> QED BY <1>3, <1>4, <1>2, <2>1
<1>5. ASSUME popped[x] = 0, NEW t \in Threads, task[t] = x PROVE Places(x) = 1
  <2>1. H = {t}
    BY <1>1, <1>5 DEF IInv, OnePlace, HandsApart
  <2>2. S = {}
    BY <1>1, <1>5 DEF IInv, OnePlace, HandOrSlot
  <2> HIDE DEF H, S
  <2>3. Cardinality(H) = 1 /\ Cardinality(S) = 0
    BY <1>3, <2>1, <2>2
  <2> QED BY <1>5, <1>2, <2>3
<1>6. ASSUME popped[x] = 0, NEW i \in Slots, slot[i].task = x PROVE Places(x) = 1
  <2>1. S = {i}
    BY <1>1, <1>6 DEF IInv, OnePlace, SlotsApart
  <2>2. H = {}
    BY <1>1, <1>6 DEF IInv, OnePlace, HandOrSlot
  <2> HIDE DEF H, S
  <2>3. Cardinality(H) = 0 /\ Cardinality(S) = 1
    BY <1>3, <2>1, <2>2
  <2> QED BY <1>6, <1>2, <2>3
<1> QED BY <1>1, <1>4, <1>5, <1>6 DEF IInv, OnePlace, Somewhere

\* The size that two words give is the distance of the positions they stand for.
LEMMA SizeOfWindow ==
  ASSUME NEW f \in Int, NEW b \in Int, NEW lo \in Int, NEW hi \in Int,
         Same(f, hi), Same(b, lo), lo <= hi, hi <= lo + kCapacity
  PROVE  CalculateSize(f, b) = hi - lo
<1> DEFINE x == f % kMask2
           y == b % kMask2
           size == CalculateSize(f, b)
<1>1. x \in 0 .. kMask2 - 1 /\ y \in 0 .. kMask2 - 1
  BY Bounds, DivMod
<1>2. x = hi % kMask2 /\ y = lo % kMask2
  BY DEF Same
<1>3. size = IF x - y < 0 THEN x - y + kMask2 ELSE x - y
  BY DEF CalculateSize
<1> HIDE DEF x, y, size
<1>4. size \in 0 .. kMask2 - 1 /\ y + size \in Int
      /\ (y + size = x \/ y + size = x + kMask2)
  BY <1>1, <1>3, Bounds
<1>5. y % kMask2 = lo % kMask2 /\ x % kMask2 = hi % kMask2
  BY <1>2, Bounds, RemainderRange
<1>6. (lo + size) % kMask2 = (y + size) % kMask2
  <2>1. size \in Int /\ y \in Int /\ kMask2 \in Nat \ {0}
    BY <1>1, <1>4, Bounds
  <2>2. lo % kMask2 = y % kMask2
    BY <1>5
  <2>3. Apart(lo, y, kMask2)
    BY <2>1, <2>2, SameRemainder
  <2>4. PICK u, v \in Int : u = lo + size /\ v = y + size
    BY <2>1
  <2>5. Apart(u, v, kMask2)
    BY <2>1, <2>3, <2>4 DEF Apart
  <2>6. u % kMask2 = v % kMask2
    BY <2>1, <2>5, SameRemainder
  <2> QED BY <2>4, <2>6
<1>7. (y + size) % kMask2 = x % kMask2
  <2>1. PICK k \in Int : (y + size) - x = k * kMask2
    <3>1. (y + size) - x = 0 * kMask2 \/ (y + size) - x = 1 * kMask2
      BY <1>1, <1>4, Bounds
    <3> QED BY <3>1
  <2>2. PICK z \in Int : z = y + size
    BY <1>4
  <2>3. Apart(z, x, kMask2)
    BY <2>1, <2>2 DEF Apart
  <2> QED BY <1>1, <2>2, <2>3, Bounds, SameRemainder
<1>8. (lo + size) % kMask2 = hi % kMask2
  BY <1>5, <1>6, <1>7
<1>9. PICK z \in Int : z = lo + size
  BY <1>4
<1>10. z = hi
  BY <1>4, <1>8, <1>9, Bounds, SameRemainderClose
<1>11. size = hi - lo
  BY <1>4, <1>9, <1>10
<1> QED BY <1>11 DEF size

\* With nobody in the middle of an operation the ready slots are the window.
LEMMA WindowContiguous ==
  ASSUME IInv
  PROVE  ContiguousWhenQuiet
<1> SUFFICES ASSUME \A t \in Threads : pc[t] \in Quiet
             PROVE  /\ CalculateSize(mFront, mBack) <= kCapacity
                    /\ \A n \in 0 .. kCapacity - 1 :
                         slot[At(mBack + n)].state =
                           IF n < CalculateSize(mFront, mBack) THEN "kReady" ELSE "kEmpty"
  BY DEF ContiguousWhenQuiet, Quiet, Reading
<1>1. PICK lo, hi \in Int : Window(lo, hi)
  BY DEF IInv
<1>2. /\ \A t \in Thieves : pc[t] \notin HolderPcs
      /\ pc[Owner] \notin BusyFront /\ pc[Owner] # "popFrontMove" /\ pc[Owner] # "pushFront"
  BY DEF Quiet, Reading, HolderPcs, BusyFront, Threads
<1>3. mMutex = Nobody
  BY <1>2 DEF IInv, TypeOK, Control
<1>4. /\ Same(mFront, hi) /\ Same(mBack, lo) /\ mFront \in Int /\ mBack \in Int
      /\ lo <= hi /\ hi <= lo + kCapacity
  BY <1>1, <1>2, <1>3, Bounds DEF Window, FrontWords, BackWords, Ring, Fits, IInv, TypeOK
<1>5. CalculateSize(mFront, mBack) = hi - lo
  BY <1>4, SizeOfWindow
<1>6. \A p : ~OwnerAt(hi, p) /\ ~BackAt(lo, p)
  BY <1>2, NotHolder DEF OwnerAt, BackAt
<1>7. ASSUME NEW n \in 0 .. kCapacity - 1
      PROVE  slot[At(mBack + n)].state = IF n < hi - lo THEN "kReady" ELSE "kEmpty"
  <2>1. n \in Int /\ mBack + n \in Int /\ lo + n \in Int
    BY <1>4, Bounds
  <2>2. At(mBack + n) = (lo + n) % kCapacity
    BY <1>4, <2>1, SamePlus, WordAt
  <2>3. slot[At(mBack + n)] = View(slot, lo + n)
    BY <2>2 DEF View
  <2>4. CASE n < hi - lo
    <3>1. lo + n \in lo .. hi - 1
      BY <2>1, <2>4
    <3>2. View(slot, lo + n).state = "kReady"
      BY <1>1, <1>6, <3>1 DEF Window, Ring, ReadyBetween, Looks
    <3> QED BY <2>3, <2>4, <3>2
  <2>5. CASE ~(n < hi - lo)
    <3>1. lo + n \in hi .. lo + kCapacity - 1
      BY <2>1, <2>5, Bounds
    <3>2. View(slot, lo + n).state = "kEmpty"
      BY <1>1, <3>1 DEF Window, Ring, EmptyOutside, Looks
    <3> QED BY <2>3, <2>5, <3>2
  <2> QED BY <2>4, <2>5
<1> QED BY <1>4, <1>5, <1>7, Bounds

\* The deque stays intact whoever meets at its ends: no task is lost or taken
\* twice by PushFront, PushBack, PopFront, PopBack and PopBackHalf, and between
\* operations the ready slots run from mBack to mFront.
THEOREM DequeIsIntact == Spec => []DequeIntact
<1>1. IInv => DequeIntact
  BY OnePlaceCount, WindowContiguous DEF DequeIntact, IInv
<1> QED BY <1>1, DequeInvariant, PTL

-------------------------------------------------------------------------------
(***************************************************************************)
(* Empty.  Between two reads of mFront the front has moved forward a times *)
(* and back r times; its modification counter has ticked e times, once or  *)
(* twice for each step forward (the index may carry) and never for a step  *)
(* back.  The tasks that can be popped meanwhile are those that occupied a *)
(* slot and those pushed since.                                            *)
(***************************************************************************)
Counter(w) == w \div kMask2
Occupied == Cardinality({i \in Slots : slot[i].state # "kEmpty"})
Pending(s) == IF pc[Owner] = s THEN 1 ELSE 0

\* The copies the owner and the holder of the lock work with are current.
OwnerCopy ==
  /\ pc[Owner] = "pushFront" => front[Owner] = mFront
  /\ pc[Owner] \in {"popFront", "popFrontMove"} => front[Owner] = Retreat(mFront)
HolderCopy(t) ==
  /\ pc[t] \in {"popBack", "popBackMove", "half"} => back[t] = mBack
  /\ pc[t] = "half" => 2 * mid[t] < kCapacity /\ 2 * start[t] < kCapacity
Copies == OwnerCopy /\ \A t \in Thieves : HolderCopy(t)

Looking == {"readBack", "readFront"}

\* Thread t read mFront when n tasks or more had been offered.
Moved(t, n, a, r, e) ==
  /\ a <= e /\ e <= 2 * a
  /\ Counter(mFront) % CounterMod = (Counter(front[t]) + e) % CounterMod
  /\ Same(mFront, (front[t] + a) - r)
  /\ a + Pending("pushFront") <= (pushed - n) + 1
  /\ r + Occupied + Pending("popFrontMove") <= kCapacity + 1 + (pushed - n)
  /\ pc[t] = "readFront" /\ a = 0 /\ r = 0 /\ MaybeZero(front[t], back[t]) => sawEmpty[t]

Noticed(t) == InDeque = {} => sawEmpty[t]

\* What holds of a call of Empty that began with n tasks offered, as long as
\* fewer than m have been offered since.
CallInv(t, n, m) ==
  /\ n <= pushed
  /\ pc[t] \in Looking =>
       Noticed(t) /\ \E a, r, e \in Nat : Moved(t, n, a, r, e)
  /\ pc[t] = "saysEmpty" /\ pushed < n + m => sawEmpty[t]

\* A quotient and a remainder determine the quotient.
LEMMA DivUnique ==
  ASSUME NEW a \in Int, NEW n \in Nat \ {0}, NEW q \in Int, NEW r \in 0 .. n - 1,
         a = q * n + r
  PROVE  a \div n = q
<1> DEFINE k == (a \div n) - q
<1>1. a % n = r
  BY ModUnique
<1>2. a \div n \in Int /\ a = (a \div n) * n + (a % n)
  BY DivMod
<1>3. k \in Int /\ k * n = 0
  BY <1>1, <1>2, SMT
<1>4. a \div n = k + q
  BY <1>2
<1> HIDE DEF k
<1>5. k = 0
  BY <1>3, SmallMultiple
<1> QED BY <1>4, <1>5

\* A step back leaves the counter alone.
LEMMA CounterRetreat ==
  ASSUME NEW w \in Word
  PROVE  Counter(Retreat(w)) = Counter(w)
<1> DEFINE r == (w - 1) % kMask2
           q == w \div kMask2
<1>1. w \in Int /\ w - 1 \in Int
  BY Bounds DEF Word
<1>2. r \in 0 .. kMask2 - 1 /\ q \in Int
  BY <1>1, Bounds, DivMod
<1>3. Retreat(w) = r + q * kMask2
  BY DEF Retreat
<1> HIDE DEF r, q
<1>4. PICK v \in Int : v = r + q * kMask2
  BY <1>2, Bounds, SMT
<1>5. v = q * kMask2 + r
  BY <1>2, <1>4, Bounds, SMT
<1>6. v \div kMask2 = q
  BY <1>2, <1>5, Bounds, DivUnique
<1> QED BY <1>3, <1>4, <1>6 DEF Counter, q

\* A step forward makes it tick once, or twice when the index carries.
LEMMA CounterAdvance ==
  ASSUME NEW w \in Word
  PROVE  \E d \in {1, 2} :
           Counter(Advance(w)) % CounterMod = (Counter(w) + d) % CounterMod
<1> DEFINE q == w \div kMask2
           i == w % kMask2
           C == CounterMod
           K == kMask2
<1>1. w \in Int /\ C \in Nat \ {0} /\ K \in Nat \ {0} /\ IndexMod = C * K
  BY Bounds DEF Word
<1>2. i \in 0 .. K - 1 /\ q \in Int /\ w = q * K + i
  BY <1>1, DivMod
<1>3. Advance(w) = (w + K + 1) % (C * K)
  BY <1>1 DEF Advance, kIncrement
<1>4. PICK u \in Int : u = w + K + 1
  BY <1>1
<1> HIDE DEF q, i, C, K
<1>5. PICK d \in {1, 2}, j \in 0 .. K - 1 : u = (q + d) * K + j
  <2>1. CASE i < K - 1
    <3>1. i + 1 \in 0 .. K - 1 /\ u = (q + 1) * K + (i + 1)
      BY <1>1, <1>2, <1>4, <2>1, SMT
    <3> QED BY <3>1
  <2>2. CASE i = K - 1
    <3>1. 0 \in 0 .. K - 1 /\ u = (q + 2) * K + 0
      BY <1>1, <1>2, <1>4, <2>2, SMT
    <3> QED BY <3>1
  <2> QED BY <1>1, <1>2, <2>1, <2>2
<1>6. PICK z \in Int : z = q + d
  BY <1>2
<1>7. PICK s \in Int, y \in 0 .. C - 1 : z = s * C + y /\ z % C = y
  BY <1>1, <1>6, DivMod
<1>8. u = s * (C * K) + (y * K + j)
  <2>1. u = (s * C + y) * K + j
    BY <1>5, <1>6, <1>7
  <2> QED BY <1>1, <1>5, <1>7, <2>1, SMT
<1>9. y * K + j \in 0 .. C * K - 1 /\ C * K \in Nat \ {0}
  <2>1. C * K \in Nat \ {0} /\ y * K \in Int /\ y * K >= 0
    BY <1>1, <1>7, SMT
  <2>2. y * K <= (C - 1) * K
    BY <1>1, <1>7, SMT
  <2>3. (C - 1) * K = C * K - K
    BY <1>1, SMT
  <2> QED BY <1>1, <1>5, <2>1, <2>2, <2>3
<1>10. PICK v \in Int : v = y * K + j
  BY <1>9
<1>11. u % (C * K) = v
  <2>1. PICK n \in Nat \ {0} : n = C * K
    BY <1>9
  <2>2. v \in 0 .. n - 1 /\ u = s * n + v
    BY <1>8, <1>9, <1>10, <2>1
  <2>3. u % n = v
    BY <1>7, <2>2, ModUnique
  <2> QED BY <2>1, <2>3
<1>12. v \div K = y
  BY <1>1, <1>5, <1>7, <1>10, DivUnique
<1>13. Advance(w) = v
  BY <1>3, <1>4, <1>11
<1>14. y % C = y
  BY <1>1, <1>6, <1>7, RemainderRange
<1>15. Counter(Advance(w)) = y
  BY <1>12, <1>13 DEF Counter, K
<1>16. y % C = (q + d) % C
  BY <1>6, <1>7, <1>14
<1> QED BY <1>15, <1>16 DEF Counter, q, C

\* A step of thread t leaves the locals of the others alone.
Mine(t) ==
  \A u \in Threads :
    u # t => /\ pc'[u] = pc[u] /\ front'[u] = front[u] /\ back'[u] = back[u]
             /\ mid'[u] = mid[u] /\ start'[u] = start[u]

\* A step of the owner changes no other thread's locals.
LEMMA OwnerMine ==
  ASSUME IInv, OwnerStep
  PROVE  Mine(Owner)
<1> USE DEF IInv, Control, Mine, Goto, Return, locals
<1>1. CASE PushFront
  BY <1>1 DEF PushFront, PushFrontClaim, PushFrontMove, PushFrontPublish
<1>2. CASE PopFront
  BY <1>2 DEF PopFront, PopFrontClaim, PopFrontTake, PopFrontMove
<1>3. CASE EmptyCall(Owner, "Empty")
  BY <1>3 DEF EmptyCall
<1>4. CASE Empty(Owner)
  BY <1>4 DEF Empty, EmptyReadBack, EmptyReadFront, EmptyReturn
<1> QED BY <1>1, <1>2, <1>3, <1>4 DEF OwnerStep

\* A step of a thief changes no other thread's locals.
LEMMA ThiefMine ==
  ASSUME IInv, NEW t \in Thieves, ThiefStep(t)
  PROVE  Mine(t)
<1> USE DEF IInv, Control, Mine, Goto, Return, locals
<1>1. CASE PushBack(t)
  BY <1>1 DEF PushBack, PushBackClaim, PushBackMove, PushBackPublish
<1>2. CASE PopBack(t)
  BY <1>2 DEF PopBack, PopBackClaim, PopBackTake, PopBackMove
<1>3. CASE PopBackHalf(t)
  BY <1>3 DEF PopBackHalf, HalfLock, HalfClaim, HalfTake, HalfMove
<1>4. CASE \E o \in BackOps \cup {"Empty"} : EmptyCall(t, o)
  BY <1>4 DEF EmptyCall
<1>5. CASE Empty(t)
  BY <1>5 DEF Empty, EmptyReadBack, EmptyReadFront, EmptyReturn
<1> QED BY <1>1, <1>2, <1>3, <1>4, <1>5 DEF ThiefStep

\* mFront belongs to the owner, mBack to the holder of the lock.
LEMMA OwnerWords ==
  ASSUME IInv, Copies, OwnerStep
  PROVE  mBack' = mBack /\ OwnerCopy'
<1> USE DEF IInv, Control, TypeOK, Copies, OwnerCopy, Goto, Return, locals, Threads
<1>1. CASE PushFront
  BY <1>1 DEF PushFront, PushFrontClaim, PushFrontMove, PushFrontPublish
<1>2. CASE PopFront
  BY <1>2 DEF PopFront, PopFrontClaim, PopFrontTake, PopFrontMove
<1>3. CASE EmptyCall(Owner, "Empty")
  BY <1>3 DEF EmptyCall, shared
<1>4. CASE Empty(Owner)
  BY <1>4 DEF Empty, EmptyReadBack, EmptyReadFront, EmptyReturn, shared
<1> QED BY <1>1, <1>2, <1>3, <1>4 DEF OwnerStep

\* The middle PopBackHalf computes is less than half the capacity.
LEMMA HalfBound ==
  ASSUME NEW n \in 0 .. kCapacity
  PROVE  2 * (IF n > 1 THEN (n - 1) \div 2 ELSE 0) < kCapacity
BY Bounds

\* A thief never stores mFront, and mBack only under the lock.
LEMMA ThiefWords ==
  ASSUME IInv, Copies, NEW t \in Thieves, ThiefStep(t)
  PROVE  /\ mFront' = mFront /\ (mBack' = mBack \/ pc[t] \in HolderPcs)
         /\ HolderCopy(t)'
<1> USE DEF Goto, Return, Threads, HolderCopy, HolderPcs
<1>1. /\ HolderCopy(t) /\ pc \in [Threads -> OwnerPcs \cup ThiefPcs] /\ back \in [Threads -> Word]
      /\ mid \in [Threads -> -1 .. kCapacity - 1] /\ start \in [Threads -> -1 .. kCapacity - 1]
      /\ t \in Threads
  BY DEF Copies, IInv, Control
<1>2. CASE PushBack(t)
  BY <1>1, <1>2 DEF PushBack, PushBackClaim, PushBackMove, PushBackPublish, locals
<1>3. CASE PopBack(t)
  BY <1>1, <1>3 DEF PopBack, PopBackClaim, PopBackTake, PopBackMove, locals
<1>4. CASE HalfLock(t)
  <2> DEFINE n == IF CalculateSize(mFront, mBack) > kCapacity THEN kCapacity
                  ELSE CalculateSize(mFront, mBack)
  <2>1. mid'[t] = (IF n > 1 THEN (n - 1) \div 2 ELSE 0) /\ start'[t] = -1
    BY <1>1, <1>4 DEF HalfLock
  <2>2. CalculateSize(mFront, mBack) \in Nat
    <3>1. mFront \in Int /\ mBack \in Int
      BY Bounds DEF IInv, TypeOK
    <3>2. mFront % kMask2 \in 0 .. kMask2 - 1 /\ mBack % kMask2 \in 0 .. kMask2 - 1
      BY <3>1, Bounds, DivMod
    <3> QED BY <3>2, Bounds DEF CalculateSize
  <2>3. n \in 0 .. kCapacity
    BY <2>2, Bounds
  <2>4. /\ mFront' = mFront /\ mBack' = mBack /\ pc'[t] = "half"
        /\ back'[t] = mBack
    BY <1>1, <1>4 DEF HalfLock
  <2> HIDE DEF n
  <2>5. 2 * mid'[t] < kCapacity
    BY <2>1, <2>3, HalfBound
  <2> QED BY <2>1, <2>4, <2>5, Bounds
<1>5. CASE HalfClaim(t) \/ HalfTake(t)
  BY <1>1, <1>5, Bounds DEF HalfClaim, HalfTake
<1>6. CASE HalfMove(t)
  BY <1>1, <1>6 DEF HalfMove
<1>7. CASE \E o \in BackOps \cup {"Empty"} : EmptyCall(t, o)
  BY <1>1, <1>7 DEF EmptyCall, shared
<1>8. CASE Empty(t)
  BY <1>1, <1>8 DEF Empty, EmptyReadBack, EmptyReadFront, EmptyReturn, shared
<1> QED BY <1>2, <1>3, <1>4, <1>5, <1>6, <1>7, <1>8 DEF ThiefStep, PopBackHalf

\* The copies the owner and the holder work with stay current.
LEMMA CopiesStep ==
  ASSUME IInv, Copies, [Next]_vars
  PROVE  Copies'
<1>1. CASE UNCHANGED vars
  BY <1>1 DEF vars, Copies, OwnerCopy, HolderCopy
<1>2. CASE OwnerStep
  <2>1. Mine(Owner) /\ mBack' = mBack /\ OwnerCopy'
    BY <1>2, OwnerMine, OwnerWords
  <2>2. \A u \in Thieves : HolderCopy(u)'
    BY <2>1, CapacityAssumption DEF Mine, Copies, HolderCopy, Threads
  <2> QED BY <2>1, <2>2 DEF Copies
<1>3. ASSUME NEW t \in Thieves, ThiefStep(t) PROVE Copies'
  <2>1. /\ Mine(t) /\ mFront' = mFront /\ (mBack' = mBack \/ pc[t] \in HolderPcs)
        /\ HolderCopy(t)'
    BY <1>3, ThiefMine, ThiefWords
  <2>2. OwnerCopy'
    BY <2>1, CapacityAssumption DEF Mine, Copies, OwnerCopy, Threads
  <2>3. ASSUME NEW u \in Thieves, u # t PROVE HolderCopy(u)'
    <3>1. pc[t] \in HolderPcs => pc[u] \notin HolderPcs
      BY <2>3 DEF IInv, Control
    <3> QED BY <2>1, <2>3, <3>1 DEF Mine, Copies, HolderCopy, Threads, HolderPcs
  <2> QED BY <2>1, <2>2, <2>3 DEF Copies
<1> QED BY <1>1, <1>2, <1>3 DEF Next

\* Where the position of mFront and that of mBack meet, nothing is ready: what
\* is left between them is being pushed.
LEMMA NothingWhereTheyMeet ==
  ASSUME IInv, Copies, kCapacity > 3, Same(mFront, mBack)
  PROVE  InDeque = {}
<1>1. PICK lo, hi \in Int : Window(lo, hi)
  BY DEF IInv
<1>2. /\ mFront \in Int /\ mBack \in Int /\ lo <= hi /\ hi <= lo + kCapacity
  BY <1>1, Bounds DEF IInv, TypeOK, Window, Ring, Fits
<1>3. PICK f \in {-1, 0, 1} : /\ Same(mFront, hi + f)
                              /\ f = -1 => pc[Owner] = "pushFront"
  <2>1. CASE pc[Owner] = "pushFront"
    BY <1>1, <2>1 DEF Window, FrontWords
  <2>2. CASE pc[Owner] = "popFrontMove"
    BY <1>1, <2>2 DEF Window, FrontWords
  <2>3. CASE pc[Owner] # "pushFront" /\ pc[Owner] # "popFrontMove"
    <3>1. Same(mFront, hi + 0)
      BY <1>1, <2>3 DEF Window, FrontWords
    <3> QED BY <3>1
  <2> QED BY <2>1, <2>2, <2>3
<1>4. PICK b \in Int : /\ Same(mBack, lo + b)
                       /\ b <= 1 /\ 2 * b >= -(kCapacity + 1)
                       /\ b = 1 => \E t \in Thieves : pc[t] = "pushBack"
  <2>1. CASE mMutex = Nobody
    <3>1. Same(mBack, lo + 0)
      BY <1>1, <2>1 DEF Window, BackWords
    <3> QED BY <3>1, Bounds
  <2>2. CASE mMutex # Nobody
    <3>1. PICK t \in Thieves : mMutex = t /\ pc[t] \in HolderPcs
      BY <2>2 DEF IInv, TypeOK, Control
    <3>2. HolderWords(t, lo) /\ HolderCopy(t)
      BY <1>1 DEF Window, BackWords, Copies
    <3>3. CASE pc[t] = "pushBack"
      BY <3>2, <3>3, Bounds DEF HolderWords
    <3>4. CASE pc[t] \in {"publishBack", "popBack"} \/ (pc[t] = "half" /\ ~Halved(t))
      <4>1. Same(mBack, lo + 0)
        BY <3>2, <3>4 DEF HolderWords, HolderCopy, BusyBack
      <4> QED BY <4>1, Bounds
    <3>5. CASE pc[t] = "popBackMove"
      <4>1. Same(mBack, lo + (-1))
        BY <3>2, <3>5 DEF HolderWords, HolderCopy
      <4> QED BY <4>1, Bounds
    <3>6. CASE Halved(t)
      <4>1. /\ Same(mBack + start[t], lo - 1) /\ 2 * start[t] < kCapacity
            /\ start[t] \in -1 .. kCapacity - 1
        BY <3>2, <3>6 DEF HolderWords, HolderCopy, Halved, IInv, Control, Threads
      <4>2. PICK c \in Int : c = -start[t]
        BY <4>1, Bounds
      <4>3. PICK w, p \in Int : w = mBack + start[t] /\ p = lo - 1
        BY <1>2, <4>1, Bounds
      <4>4. Same(w + c, p + c)
        BY <4>1, <4>2, <4>3, SamePlus
      <4>5. w + c = mBack /\ p + c = lo + (c - 1)
        BY <1>2, <4>1, <4>2, <4>3, Bounds
      <4>6. PICK b \in Int : b = c - 1
        BY <4>2
      <4>7. Same(mBack, lo + b) /\ b <= 1 /\ 2 * b >= -(kCapacity + 1) /\ b # 1
        BY <4>1, <4>2, <4>4, <4>5, <4>6, Bounds
      <4> QED BY <4>7
    <3> QED BY <3>1, <3>3, <3>4, <3>5, <3>6 DEF HolderPcs
  <2> QED BY <2>1, <2>2
<1>5. hi + f = lo + b
  <2>1. PICK x, y \in Int : x = hi + f /\ y = lo + b
    BY <1>3, <1>4
  <2>2. x % kMask2 = y % kMask2
    BY <1>3, <1>4, <2>1 DEF Same
  <2>3. -kMask2 < x - y /\ x - y < kMask2
    BY <1>2, <1>3, <1>4, <2>1, Bounds
  <2> QED BY <2>1, <2>2, <2>3, Bounds, SameRemainderClose
<1>6. ASSUME NEW p \in lo .. hi - 1 PROVE View(slot, p).state # "kReady"
  <2>1. \/ p = hi - 1 /\ pc[Owner] = "pushFront"
        \/ p = lo /\ b = 1
    BY <1>2, <1>3, <1>4, <1>5, <1>6
  <2>2. CASE p = hi - 1 /\ pc[Owner] = "pushFront"
    BY <1>1, <2>2 DEF Window, Ring, FrontClaim, BusyFront, Looks
  <2>3. CASE p = lo /\ b = 1
    <3>1. PICK t \in Thieves : pc[t] = "pushBack"
      BY <1>4, <2>3
    <3> QED BY <1>1, <2>3, <3>1 DEF Window, Ring, BackClaim, HolderClaim, BusyBack, Looks
  <2> QED BY <2>1, <2>2, <2>3
<1>7. ASSUME NEW i \in Slots PROVE slot[i].state # "kReady"
  <2>1. PICK p \in lo .. lo + kCapacity - 1 : p % kCapacity = i
    BY ViewAll
  <2>2. CASE p < hi
    BY <1>2, <1>6, <2>1, <2>2, Bounds DEF View
  <2>3. CASE p >= hi
    <3>1. p \in hi .. lo + kCapacity - 1
      BY <1>2, <2>1, <2>3, Bounds
    <3>2. View(slot, p).state = "kEmpty"
      BY <1>1, <3>1 DEF Window, Ring, EmptyOutside, Looks
    <3> QED BY <2>1, <3>2 DEF View
  <2> QED BY <1>2, <2>1, <2>2, <2>3, Bounds
<1> QED BY <1>7 DEF InDeque

\* The occupied slots are finitely many, kCapacity at most.
LEMMA OccupiedType ==
  Occupied \in 0 .. kCapacity /\ IsFiniteSet({i \in Slots : slot[i].state # "kEmpty"})
<1>1. IsFiniteSet(Slots) /\ Cardinality(Slots) = kCapacity
  BY Bounds, FS_Interval DEF Slots
<1>2. {i \in Slots : slot[i].state # "kEmpty"} \subseteq Slots
  OBVIOUS
<1> QED BY <1>1, <1>2, FS_Subset, FS_CardinalityType, Bounds DEF Occupied

\* What a store to one slot does to the number of occupied ones.
LEMMA OccupiedSet ==
  ASSUME slot \in [Slots -> SlotType], NEW i \in Slots, NEW s, NEW x, SetSlot(i, s, x)
  PROVE  /\ Occupied' \in Nat /\ Occupied' <= Occupied + 1
         /\ s = "kEmpty" \/ slot[i].state # "kEmpty" => Occupied' <= Occupied
         /\ s = "kEmpty" /\ slot[i].state # "kEmpty" => Occupied' = Occupied - 1
<1> DEFINE S == {j \in Slots : slot[j].state # "kEmpty"}
           T == {j \in Slots : slot'[j].state # "kEmpty"}
<1>1. \A j \in Slots : slot'[j].state = IF j = i THEN s ELSE slot[j].state
  BY DEF SetSlot, SlotType
<1>2. IsFiniteSet(S) /\ Occupied = Cardinality(S) /\ Cardinality(S) \in Nat
  BY OccupiedType, FS_CardinalityType DEF Occupied
<1>3. Occupied' = Cardinality(T)
  BY DEF Occupied
<1>4. T = IF s = "kEmpty" THEN S \ {i} ELSE S \cup {i}
  BY <1>1
<1>5. i \in S <=> slot[i].state # "kEmpty"
  OBVIOUS
<1> HIDE DEF S, T
<1>6. CASE s = "kEmpty"
  <2>1. Cardinality(T) = IF i \in S THEN Cardinality(S) - 1 ELSE Cardinality(S)
    BY <1>2, <1>4, <1>6, FS_RemoveElement
  <2>2. Cardinality(T) \in Nat
    BY <1>2, <1>4, <1>6, FS_RemoveElement, FS_CardinalityType
  <2> QED BY <1>2, <1>3, <1>5, <1>6, <2>1, <2>2
<1>7. CASE s # "kEmpty"
  <2>1. Cardinality(T) = IF i \in S THEN Cardinality(S) ELSE Cardinality(S) + 1
    BY <1>2, <1>4, <1>7, FS_AddElement
  <2> QED BY <1>2, <1>3, <1>5, <1>7, <2>1
<1> QED BY <1>6, <1>7

\* A store to a slot takes out of the deque at most the task that was ready there.
LEMMA InDequeSet ==
  ASSUME slot \in [Slots -> SlotType], NEW i \in Slots, NEW s, NEW x, SetSlot(i, s, x)
  PROVE  InDeque \subseteq InDeque' \cup (IF slot[i].state = "kReady" THEN {slot[i].task} ELSE {})
<1> SUFFICES ASSUME NEW y \in InDeque, y \notin InDeque'
             PROVE  slot[i].state = "kReady" /\ y = slot[i].task
  OBVIOUS
<1>1. PICK j \in Slots : slot[j] = [state |-> "kReady", task |-> y]
  BY DEF InDeque
<1>2. slot'[j] # slot[j]
  BY <1>1 DEF InDeque
<1>3. j = i
  BY <1>2 DEF SetSlot
<1> QED BY <1>1, <1>3

\* A step of another thread that does not move mFront.
Unmoved(t) ==
  /\ mFront' = mFront /\ pushed' \in Int /\ pushed <= pushed'
  /\ pc'[t] = pc[t] /\ front'[t] = front[t] /\ back'[t] = back[t]
  /\ Pending("pushFront")' <= Pending("pushFront") + (pushed' - pushed)
  /\ Occupied' \in Int
  /\ Occupied' + Pending("popFrontMove")'
       <= Occupied + Pending("popFrontMove") + (pushed' - pushed)
  /\ sawEmpty[t] => sawEmpty'[t]
  /\ pc[t] \in Looking /\ InDeque' = {} => InDeque = {} \/ sawEmpty'[t]

\* A step that neither moves the front nor changes t's locals keeps what t's call
\* has counted.
LEMMA Carried ==
  ASSUME IInv, NEW t \in Threads, NEW n \in Nat, NEW m \in Nat, CallInv(t, n, m), Unmoved(t)
  PROVE  CallInv(t, n, m)'
<1>1. pushed \in Int /\ n <= pushed'
  BY DEF IInv, TypeOK, CallInv, Unmoved
<1>2. ASSUME pc'[t] \in Looking
      PROVE  Noticed(t)' /\ \E a, r, e \in Nat : Moved(t, n, a, r, e)'
  <2>1. pc[t] \in Looking
    BY <1>2 DEF Unmoved
  <2>2. Noticed(t)'
    BY <2>1 DEF CallInv, Noticed, Unmoved
  <2>3. PICK a, r, e \in Nat : Moved(t, n, a, r, e)
    BY <2>1 DEF CallInv
  <2>4. Occupied \in Int /\ kCapacity \in Int
    BY OccupiedType, Bounds
  <2>5. \A s : Pending(s) \in Int /\ Pending(s)' \in Int
    BY DEF Pending
  <2>6. a + Pending("pushFront")' <= (pushed' - n) + 1
    BY <1>1, <2>3, <2>5 DEF Moved, Unmoved
  <2>7. r + Occupied' + Pending("popFrontMove")' <= kCapacity + 1 + (pushed' - n)
    BY <1>1, <2>3, <2>4, <2>5 DEF Moved, Unmoved
  <2>8. Moved(t, n, a, r, e)'
    BY <2>3, <2>6, <2>7 DEF Moved, Unmoved, MaybeZero, Same, Counter
  <2> QED BY <2>2, <2>8
<1>3. pc'[t] = "saysEmpty" /\ pushed' < n + m => sawEmpty'[t]
  BY <1>1 DEF CallInv, Unmoved
<1> QED BY <1>1, <1>2, <1>3 DEF CallInv

\* The slot the owner has claimed is busy.
LEMMA OwnerSlotBusy ==
  ASSUME IInv, pc[Owner] \in BusyFront
  PROVE  At(front[Owner]) \in Slots /\ slot[At(front[Owner])].state = "kBusy"
<1>1. PICK lo, hi \in Int : Window(lo, hi)
  BY DEF IInv
<1>2. front[Owner] \in Int /\ hi - 1 \in Int /\ Same(front[Owner], hi - 1)
  BY <1>1, Bounds DEF IInv, Control, Word, Threads, Window, FrontWords
<1>3. At(front[Owner]) = (hi - 1) % kCapacity
  BY <1>2, WordAt
<1>4. View(slot, hi - 1).state = "kBusy"
  BY <1>1 DEF Window, Ring, FrontClaim, Looks
<1> QED BY <1>2, <1>3, <1>4, SlotOf DEF View

\* The slot the holder of the lock has claimed is busy.
LEMMA HolderSlotBusy ==
  ASSUME IInv, NEW t \in Thieves, pc[t] \in BusyBack
  PROVE  At(back[t]) \in Slots /\ slot[At(back[t])].state = "kBusy"
<1>1. PICK lo, hi \in Int : Window(lo, hi)
  BY DEF IInv
<1>2. back[t] \in Int /\ Same(back[t], lo)
  BY <1>1, Bounds DEF IInv, Control, Word, Threads, Window, BackWords, HolderWords
<1>3. At(back[t]) = lo % kCapacity
  BY <1>2, WordAt
<1>4. View(slot, lo).state = "kBusy"
  BY <1>1 DEF Window, Ring, BackClaim, HolderClaim, Looks
<1> QED BY <1>1, <1>2, <1>3, <1>4, SlotOf DEF View

\* A claim that empties the deque is noticed by everybody who is looking.
LEMMA ClaimNoticed ==
  ASSUME IInv, NEW t \in Threads, NEW i \in Slots, NEW s, NEW x,
         Claimed(i), SetSlot(i, s, x)
  PROVE  /\ sawEmpty[t] => sawEmpty'[t]
         /\ pc[t] \in Looking /\ InDeque' = {} => InDeque = {} \/ sawEmpty'[t]
<1>1. sawEmpty'[t] = (sawEmpty[t] \/ (pc[t] \in Looking /\ InDeque \subseteq {slot[i].task}))
  BY DEF Claimed, Looking
<1>2. InDeque \subseteq InDeque' \cup {slot[i].task}
  BY InDequeSet DEF IInv, TypeOK, SlotType
<1> QED BY <1>1, <1>2

\* The slots and the owner's place stay as they are.
Kept(t) ==
  /\ slot' = slot /\ mFront' = mFront /\ pushed' = pushed
  /\ pc'[t] = pc[t] /\ front'[t] = front[t] /\ back'[t] = back[t]
  /\ pc'[Owner] \in {"pushFront", "popFrontMove"} => pc'[Owner] = pc[Owner]
  /\ sawEmpty'[t] = sawEmpty[t]

\* A step that leaves the words and the slots alone moves nothing.
LEMMA QuietlyUnmoved ==
  ASSUME IInv, NEW t \in Threads, Kept(t)
  PROVE  Unmoved(t)
<1>1. slot' = slot
  BY DEF Kept
<1>2. Occupied' = Occupied /\ InDeque' = InDeque
  BY <1>1 DEF Occupied, InDeque
<1>3. Occupied \in Int /\ pushed \in Int
  BY OccupiedType, Bounds DEF IInv, TypeOK
<1>4. \A s \in {"pushFront", "popFrontMove"} : Pending(s)' <= Pending(s)
  BY DEF Pending, Kept
<1>5. \A s : Pending(s) \in Int /\ Pending(s)' \in Int
  BY DEF Pending
<1> QED BY <1>2, <1>3, <1>4, <1>5 DEF Unmoved, Kept

\* The owner's steps other than its stores to mFront do not move the front.
LEMMA OwnerUnmoved ==
  ASSUME IInv, NEW t \in Thieves, OwnerStep, ~PushFrontMove, ~PopFrontMove
  PROVE  Unmoved(t)
<1>1. /\ t \in Threads /\ Owner \in Threads /\ t # Owner
      /\ slot \in [Slots -> SlotType] /\ pushed \in Int /\ pc \in [Threads -> OwnerPcs \cup ThiefPcs]
      /\ mFront \in Int /\ Occupied \in Int
  BY CapacityAssumption, Bounds, OccupiedType
  DEF Threads, IInv, TypeOK, Control, SlotType
<1>2. Mine(Owner)
  BY OwnerMine
<1>3. pc'[t] = pc[t] /\ front'[t] = front[t] /\ back'[t] = back[t]
  BY <1>1, <1>2 DEF Mine
<1>4. At(mFront) \in Slots /\ At(mFront - 1) \in Slots
  BY <1>1, SlotOf DEF At
<1>5. CASE PushFrontClaim
  <2>1. CASE slot[At(mFront)].state = "kEmpty"
    <3>1. /\ SetSlot(At(mFront), "kBusy", 0) /\ pc'[Owner] = "pushFront"
          /\ pushed' = pushed + 1 /\ mFront' = mFront /\ sawEmpty' = sawEmpty
      BY <1>1, <1>5, <2>1 DEF PushFrontClaim, Offer, Goto
    <3>2. Occupied' \in Nat /\ Occupied' <= Occupied + 1
      BY <1>1, <1>4, <3>1, OccupiedSet
    <3>3. InDeque' = {} => InDeque = {}
      BY <1>1, <1>4, <2>1, <3>1, InDequeSet
    <3>4. /\ Pending("pushFront")' = 1 /\ Pending("popFrontMove")' = 0
          /\ Pending("pushFront") \in 0 .. 1 /\ Pending("popFrontMove") \in 0 .. 1
      BY <3>1 DEF Pending
    <3> QED BY <1>1, <1>3, <3>1, <3>2, <3>3, <3>4 DEF Unmoved
  <2>2. CASE slot[At(mFront)].state # "kEmpty"
    <3>1. /\ slot' = slot /\ pc' = pc /\ sawEmpty' = sawEmpty
          /\ pushed' = pushed + 1 /\ mFront' = mFront
      BY <1>5, <2>2 DEF PushFrontClaim, Offer
    <3>2. Occupied' = Occupied /\ InDeque' = InDeque /\ \A s : Pending(s)' = Pending(s)
      BY <3>1 DEF Occupied, InDeque, Pending
    <3>3. \A s : Pending(s) \in Int
      BY DEF Pending
    <3> QED BY <1>1, <1>3, <3>1, <3>2, <3>3 DEF Unmoved
  <2> QED BY <2>1, <2>2
<1>6. CASE PushFrontPublish
  <2>1. /\ pc[Owner] \in BusyFront /\ SetSlot(At(front[Owner]), "kReady", task[Owner])
        /\ pc'[Owner] = "idle" /\ pushed' = pushed /\ mFront' = mFront /\ sawEmpty' = sawEmpty
    BY <1>1, <1>6 DEF PushFrontPublish, Return, Goto, BusyFront, history
  <2>2. At(front[Owner]) \in Slots /\ slot[At(front[Owner])].state = "kBusy"
    BY <2>1, OwnerSlotBusy
  <2>3. Occupied' \in Nat /\ Occupied' <= Occupied
    BY <1>1, <2>1, <2>2, OccupiedSet
  <2>4. InDeque' = {} => InDeque = {}
    BY <1>1, <2>1, <2>2, InDequeSet
  <2>5. /\ Pending("pushFront")' = 0 /\ Pending("popFrontMove")' = 0
        /\ Pending("pushFront") \in 0 .. 1 /\ Pending("popFrontMove") \in 0 .. 1
    BY <2>1 DEF Pending
  <2> QED BY <1>1, <1>3, <2>1, <2>3, <2>4, <2>5 DEF Unmoved
<1>7. CASE PopFrontClaim
  <2> DEFINE i == At(mFront - 1)
  <2>1. /\ i \in Slots /\ slot[i].state = "kReady" /\ SetSlot(i, "kBusy", slot[i].task)
        /\ Claimed(i) /\ pc'[Owner] = "popFront" /\ pushed' = pushed /\ mFront' = mFront
    BY <1>1, <1>4, <1>7 DEF PopFrontClaim, Goto
  <2> HIDE DEF i
  <2>2. Occupied' \in Nat /\ Occupied' <= Occupied
    BY <1>1, <2>1, OccupiedSet
  <2>3. /\ sawEmpty[t] => sawEmpty'[t]
        /\ pc[t] \in Looking /\ InDeque' = {} => InDeque = {} \/ sawEmpty'[t]
    BY <1>1, <2>1, ClaimNoticed
  <2>4. /\ Pending("pushFront")' = 0 /\ Pending("popFrontMove")' = 0
        /\ Pending("pushFront") \in 0 .. 1 /\ Pending("popFrontMove") \in 0 .. 1
    BY <2>1 DEF Pending
  <2> QED BY <1>1, <1>3, <2>1, <2>2, <2>3, <2>4 DEF Unmoved
<1>8. CASE PopFrontTake
  <2>1. /\ pc[Owner] \in BusyFront /\ pc[Owner] = "popFront"
        /\ SetSlot(At(front[Owner]), "kEmpty", 0)
        /\ pc'[Owner] = "popFrontMove" /\ pushed' = pushed /\ mFront' = mFront
        /\ sawEmpty' = sawEmpty
    BY <1>1, <1>8 DEF PopFrontTake, Goto, BusyFront
  <2>2. At(front[Owner]) \in Slots /\ slot[At(front[Owner])].state = "kBusy"
    BY <2>1, OwnerSlotBusy
  <2>3. Occupied' \in Nat /\ Occupied' = Occupied - 1
    BY <1>1, <2>1, <2>2, OccupiedSet
  <2>4. InDeque' = {} => InDeque = {}
    BY <1>1, <2>1, <2>2, InDequeSet
  <2>5. /\ Pending("pushFront")' = 0 /\ Pending("popFrontMove")' = 1
        /\ Pending("pushFront") = 0 /\ Pending("popFrontMove") = 0
    BY <2>1 DEF Pending
  <2> QED BY <1>1, <1>3, <2>1, <2>3, <2>4, <2>5 DEF Unmoved
<1>9. CASE EmptyCall(Owner, "Empty")
  <2>1. /\ slot' = slot /\ mFront' = mFront /\ pushed' = pushed
        /\ pc'[Owner] \notin {"pushFront", "popFrontMove"} /\ sawEmpty'[t] = sawEmpty[t]
    BY <1>1, <1>9 DEF EmptyCall, Goto, shared, IInv, TypeOK
  <2>2. Kept(t)
    BY <1>3, <2>1 DEF Kept
  <2> QED BY <1>1, <2>2, QuietlyUnmoved
<1>10. CASE Empty(Owner)
  <2>1. /\ slot' = slot /\ mFront' = mFront /\ pushed' = pushed
        /\ pc'[Owner] \notin {"pushFront", "popFrontMove"} /\ sawEmpty'[t] = sawEmpty[t]
    BY <1>1, <1>10 DEF Empty, EmptyReadBack, EmptyReadFront, EmptyReturn, Return, Goto,
       shared, history, IInv, TypeOK
  <2>2. Kept(t)
    BY <1>3, <2>1 DEF Kept
  <2> QED BY <1>1, <2>2, QuietlyUnmoved
<1> QED BY <1>5, <1>6, <1>7, <1>8, <1>9, <1>10 DEF OwnerStep, PushFront, PopFront

\* A thief's steps do not move the front.
LEMMA ThiefUnmoved ==
  ASSUME IInv, Copies, NEW u \in Thieves, NEW t \in Threads, t # u, ThiefStep(u)
  PROVE  Unmoved(t)
<1>1. /\ u \in Threads /\ slot \in [Slots -> SlotType] /\ pushed \in Int
      /\ pc \in [Threads -> OwnerPcs \cup ThiefPcs]
      /\ mBack \in Int /\ back[u] \in Int /\ mid[u] \in Int /\ Occupied \in Int
  BY CapacityAssumption, Bounds, OccupiedType
  DEF Threads, IInv, TypeOK, Control, SlotType, Word
<1>2. Mine(u) /\ mFront' = mFront
  BY ThiefMine, ThiefWords
<1>3. /\ pc'[t] = pc[t] /\ front'[t] = front[t] /\ back'[t] = back[t]
      /\ pc'[Owner] = pc[Owner]
  BY <1>2, CapacityAssumption DEF Mine, Threads
<1>4. \A s : Pending(s)' = Pending(s) /\ Pending(s) \in Int
  BY <1>3 DEF Pending
<1>5. CASE PushBackClaim(u)
  <2> DEFINE i == At(mBack - 1)
  <2>1. i \in Slots
    BY <1>1, SlotOf DEF At
  <2>2. pushed' = pushed + 1 /\ sawEmpty' = sawEmpty
    BY <1>5 DEF PushBackClaim, Offer
  <2>3. CASE slot[i].state = "kEmpty"
    <3>1. SetSlot(i, "kBusy", 0)
      BY <1>5, <2>3 DEF PushBackClaim
    <3> HIDE DEF i
    <3>2. Occupied' \in Nat /\ Occupied' <= Occupied + 1
      BY <1>1, <2>1, <3>1, OccupiedSet
    <3>3. InDeque' = {} => InDeque = {}
      BY <1>1, <2>1, <2>3, <3>1, InDequeSet
    <3> QED BY <1>1, <1>2, <1>3, <1>4, <2>2, <3>2, <3>3 DEF Unmoved
  <2>4. CASE slot[i].state # "kEmpty"
    <3>1. slot' = slot
      BY <1>5, <2>4 DEF PushBackClaim
    <3>2. Occupied' = Occupied /\ InDeque' = InDeque
      BY <3>1 DEF Occupied, InDeque
    <3> QED BY <1>1, <1>2, <1>3, <1>4, <2>2, <3>2 DEF Unmoved
  <2> QED BY <2>3, <2>4
<1>6. CASE PushBackPublish(u) \/ PopBackTake(u)
  <2>1. PICK s, x : SetSlot(At(back[u]), s, x)
    BY <1>6 DEF PushBackPublish, PopBackTake
  <2>2. pc[u] \in BusyBack /\ pushed' = pushed /\ sawEmpty' = sawEmpty
    BY <1>6 DEF PushBackPublish, PopBackTake, BusyBack, history
  <2>3. At(back[u]) \in Slots /\ slot[At(back[u])].state = "kBusy"
    BY <2>2, HolderSlotBusy
  <2>4. Occupied' \in Nat /\ Occupied' <= Occupied
    BY <1>1, <2>1, <2>3, OccupiedSet
  <2>5. InDeque' = {} => InDeque = {}
    BY <1>1, <2>1, <2>3, InDequeSet
  <2> QED BY <1>1, <1>2, <1>3, <1>4, <2>2, <2>4, <2>5 DEF Unmoved
<1>7. ASSUME NEW i \in Slots, NEW s, NEW x, SetSlot(i, s, x), Claimed(i), pushed' = pushed,
             s = "kEmpty" \/ slot[i].state # "kEmpty"
      PROVE  Unmoved(t)
  <2>1. Occupied' \in Nat /\ Occupied' <= Occupied
    BY <1>1, <1>7, OccupiedSet
  <2>2. /\ sawEmpty[t] => sawEmpty'[t]
        /\ pc[t] \in Looking /\ InDeque' = {} => InDeque = {} \/ sawEmpty'[t]
    BY <1>7, ClaimNoticed
  <2> QED BY <1>1, <1>2, <1>3, <1>4, <1>7, <2>1, <2>2 DEF Unmoved
<1>8. CASE slot' = slot /\ pushed' = pushed /\ sawEmpty'[t] = sawEmpty[t]
  <2>1. Kept(t)
    BY <1>2, <1>3, <1>8 DEF Kept
  <2> QED BY <2>1, QuietlyUnmoved
<1>9. CASE PushBackMove(u) \/ PopBackMove(u) \/ HalfLock(u) \/ HalfMove(u)
  BY <1>8, <1>9 DEF PushBackMove, PopBackMove, HalfLock, HalfMove, history
<1>10. CASE PopBackClaim(u)
  <2>1. At(mBack) \in Slots
    BY <1>1, SlotOf DEF At
  <2>2. CASE slot[At(mBack)].state = "kReady"
    BY <1>7, <1>10, <2>1, <2>2 DEF PopBackClaim
  <2>3. CASE slot[At(mBack)].state # "kReady"
    BY <1>8, <1>10, <2>3 DEF PopBackClaim
  <2> QED BY <2>2, <2>3
<1>11. CASE HalfClaim(u)
  <2>1. HalfIndex(u) \in Slots
    BY <1>1, SlotOf DEF At, HalfIndex
  <2>2. CASE slot[HalfIndex(u)].state = "kReady"
    BY <1>7, <1>11, <2>1, <2>2 DEF HalfClaim
  <2>3. CASE slot[HalfIndex(u)].state # "kReady"
    BY <1>8, <1>11, <2>3 DEF HalfClaim
  <2> QED BY <2>2, <2>3
<1>12. CASE HalfTake(u)
  <2>1. HalfIndex(u) \in Slots
    BY <1>1, SlotOf DEF At, HalfIndex
  <2> QED BY <1>7, <1>12, <2>1 DEF HalfTake
<1>13. CASE \E o \in BackOps \cup {"Empty"} : EmptyCall(u, o)
  BY <1>8, <1>13 DEF EmptyCall, shared, IInv, TypeOK
<1>14. CASE Empty(u)
  BY <1>8, <1>14 DEF Empty, EmptyReadBack, EmptyReadFront, EmptyReturn, shared, history,
     IInv, TypeOK
<1> QED BY <1>5, <1>6, <1>9, <1>10, <1>11, <1>12, <1>13, <1>14
        DEF ThiefStep, PushBack, PopBack, PopBackHalf

\* PushFront moves the front forward, with one tick or two.
LEMMA PushFrontMoved ==
  ASSUME IInv, Copies, NEW t \in Thieves, NEW n \in Nat, NEW m \in Nat,
         CallInv(t, n, m), PushFrontMove
  PROVE  CallInv(t, n, m)'
<1>1. /\ t \in Threads /\ t # Owner /\ Owner \in Threads /\ mFront \in Word /\ mFront \in Int
      /\ front[t] \in Int /\ pushed \in Int /\ pc \in [Threads -> OwnerPcs \cup ThiefPcs]
      /\ Counter(front[t]) \in Int /\ Counter(mFront) \in Int
  <2>1. /\ t \in Threads /\ t # Owner /\ Owner \in Threads /\ mFront \in Word /\ mFront \in Int
        /\ front[t] \in Int /\ pushed \in Int /\ pc \in [Threads -> OwnerPcs \cup ThiefPcs]
    BY CapacityAssumption, Bounds DEF Threads, IInv, TypeOK, Control, Word
  <2> QED BY <2>1, Bounds, DivMod DEF Counter
<1>2. /\ pc[Owner] = "pushFront" /\ pc'[Owner] = "publishFront" /\ mFront' = Advance(mFront)
      /\ slot' = slot /\ pushed' = pushed /\ sawEmpty' = sawEmpty
      /\ pc'[t] = pc[t] /\ front'[t] = front[t] /\ back'[t] = back[t]
  BY <1>1 DEF PushFrontMove, Goto, locals, history, Copies, OwnerCopy
<1>3. ASSUME pc[t] \in Looking
      PROVE  Noticed(t)' /\ \E a, r, e \in Nat : Moved(t, n, a, r, e)'
  <2>1. PICK a, r, e \in Nat : Moved(t, n, a, r, e)
    BY <1>3 DEF CallInv
  <2>2. PICK d \in {1, 2} : Counter(mFront') % CounterMod = (Counter(mFront) + d) % CounterMod
    BY <1>1, <1>2, CounterAdvance
  <2>3. mFront' \in Int /\ Same(mFront', mFront + 1)
    BY <1>1, <1>2, AdvanceWord, Bounds DEF Same, Word
  <2>4. PICK b, g \in Nat : b = a + 1 /\ g = e + d
    OBVIOUS
  <2>5. Same(mFront', (front[t] + b) - r)
    <3>1. PICK p \in Int : p = (front[t] + a) - r
      BY <1>1
    <3>2. Same(mFront, p)
      BY <2>1, <3>1 DEF Moved
    <3>3. PICK c \in Int : c = 1
      OBVIOUS
    <3>4. Same(mFront + c, p + c)
      BY <1>1, <3>2, SamePlus
    <3>5. p + c = (front[t] + b) - r
      BY <1>1, <2>4, <3>1, <3>3
    <3>6. Same(mFront', mFront + c)
      BY <2>3, <3>3
    <3> QED BY <3>4, <3>5, <3>6 DEF Same
  <2>6. Counter(mFront') % CounterMod = (Counter(front[t]) + g) % CounterMod
    <3>1. PICK x, y \in Int : x = Counter(mFront) /\ y = Counter(front[t]) + e
      BY <1>1
    <3>2. (x + d) % CounterMod = (y + d) % CounterMod
      BY <2>1, <3>1, Bounds, SameRemainderPlus DEF Moved
    <3>3. y + d = Counter(front[t]) + g
      BY <1>1, <2>4, <3>1
    <3> QED BY <2>2, <3>1, <3>2, <3>3
  <2>7. Occupied' = Occupied /\ InDeque' = InDeque
    BY <1>2 DEF Occupied, InDeque
  <2>8. /\ Pending("pushFront") = 1 /\ Pending("pushFront")' = 0
        /\ Pending("popFrontMove") = 0 /\ Pending("popFrontMove")' = 0
    BY <1>2 DEF Pending
  <2>9. b # 0 /\ b <= g /\ g <= 2 * b
    BY <2>1, <2>4 DEF Moved
  <2>10. b + 0 <= (pushed - n) + 1
    BY <1>1, <2>1, <2>4, <2>8 DEF Moved
  <2>11. Moved(t, n, b, r, g)'
    BY <1>2, <2>1, <2>5, <2>6, <2>7, <2>8, <2>9, <2>10 DEF Moved, Counter, Same
  <2>12. Noticed(t)'
    BY <1>2, <1>3, <2>7 DEF CallInv, Noticed
  <2> QED BY <2>11, <2>12
<1> QED BY <1>2, <1>3 DEF CallInv

\* PopFront moves it back, without.
LEMMA PopFrontMoved ==
  ASSUME IInv, Copies, NEW t \in Thieves, NEW n \in Nat, NEW m \in Nat,
         CallInv(t, n, m), PopFrontMove
  PROVE  CallInv(t, n, m)'
<1>1. /\ t \in Threads /\ t # Owner /\ Owner \in Threads /\ mFront \in Word /\ mFront \in Int
      /\ front[t] \in Int /\ pushed \in Int /\ pc \in [Threads -> OwnerPcs \cup ThiefPcs]
      /\ front \in [Threads -> Word] /\ back \in [Threads -> Word]
  BY CapacityAssumption, Bounds DEF Threads, IInv, TypeOK, Control, Word
<1>2. /\ pc[Owner] = "popFrontMove" /\ pc'[Owner] = "idle" /\ mFront' = Retreat(mFront)
      /\ slot' = slot /\ pushed' = pushed /\ sawEmpty' = sawEmpty
      /\ pc'[t] = pc[t] /\ front'[t] = front[t] /\ back'[t] = back[t]
  BY <1>1 DEF PopFrontMove, Return, Goto, history, Copies, OwnerCopy
<1>3. ASSUME pc[t] \in Looking
      PROVE  Noticed(t)' /\ \E a, r, e \in Nat : Moved(t, n, a, r, e)'
  <2>1. PICK a, r, e \in Nat : Moved(t, n, a, r, e)
    BY <1>3 DEF CallInv
  <2>2. Counter(mFront') = Counter(mFront)
    BY <1>1, <1>2, CounterRetreat
  <2>3. mFront' \in Int /\ Same(mFront', mFront - 1)
    BY <1>1, <1>2, RetreatWord, Bounds DEF Same, Word
  <2>4. PICK s \in Nat : s = r + 1
    OBVIOUS
  <2>5. PICK c \in Int : c = -1
    OBVIOUS
  <2>6. Same(mFront', mFront + c)
    BY <1>1, <2>3, <2>5
  <2>7. Same(mFront', (front[t] + a) - s)
    <3>1. PICK p \in Int : p = (front[t] + a) - r
      BY <1>1
    <3>2. Same(mFront, p)
      BY <2>1, <3>1 DEF Moved
    <3>3. Same(mFront + c, p + c)
      BY <1>1, <3>2, SamePlus
    <3>4. p + c = (front[t] + a) - s
      BY <1>1, <2>4, <2>5, <3>1
    <3> QED BY <2>6, <3>3, <3>4 DEF Same
  <2>8. Occupied' = Occupied /\ InDeque' = InDeque
    BY <1>2 DEF Occupied, InDeque
  <2>9. /\ Pending("pushFront") = 0 /\ Pending("pushFront")' = 0
        /\ Pending("popFrontMove") = 1 /\ Pending("popFrontMove")' = 0
    BY <1>2 DEF Pending
  <2>10. s # 0 /\ s + Occupied + 0 <= kCapacity + 1 + (pushed - n)
    BY <1>1, <2>1, <2>4, <2>9, OccupiedType, Bounds DEF Moved
  <2>11. Moved(t, n, a, s, e)'
    BY <1>2, <2>1, <2>2, <2>7, <2>8, <2>9, <2>10 DEF Moved, Same
  <2>12. Noticed(t)'
    BY <1>2, <1>3, <2>8 DEF CallInv, Noticed
  <2> QED BY <2>11, <2>12
<1> QED BY <1>2, <1>3 DEF CallInv

\* The answer "empty": mFront was read twice with the same word, so its counter
\* has not ticked, the front has not moved forward, and it has not moved back by
\* a whole round unless everything has been taken.
LEMMA EmptyIsTrue ==
  ASSUME IInv, NEW t \in Threads, NEW n \in Nat, NEW m \in Nat,
         m <= kCapacity, 2 * m < CounterMod, n <= pushed, pushed < n + m,
         pc[t] = "readFront", Noticed(t), front[t] = mFront,
         MaybeZero(front[t], back[t]), \E a, r, e \in Nat : Moved(t, n, a, r, e)
  PROVE  sawEmpty[t]
<1>1. PICK a, r, e \in Nat : Moved(t, n, a, r, e)
  OBVIOUS
<1>2. pushed \in Int /\ mFront \in Int /\ Occupied \in 0 .. kCapacity
  BY OccupiedType, Bounds DEF IInv, TypeOK
<1>3. Pending("pushFront") \in 0 .. 1 /\ Pending("popFrontMove") \in 0 .. 1
  BY DEF Pending
<1>4. a = 0
  <2>1. PICK c \in Int : c = Counter(mFront)
    BY <1>2, Bounds, DivMod DEF Counter
  <2>2. e < CounterMod
    BY <1>1, <1>2, <1>3, Bounds DEF Moved
  <2>3. PICK x \in Int : x = c + e
    BY <2>1
  <2>4. x % CounterMod = c % CounterMod
    BY <1>1, <2>1, <2>3 DEF Moved
  <2>5. x = c
    BY <2>2, <2>3, <2>4, Bounds, SameRemainderClose
  <2> QED BY <1>1, <2>1, <2>3, <2>5 DEF Moved
<1>5. r + Occupied <= 2 * kCapacity
  BY <1>1, <1>2, <1>3, Bounds DEF Moved
<1>6. CASE r = kMask2
  <2>1. Occupied = 0
    BY <1>2, <1>5, <1>6, Bounds
  <2>2. {i \in Slots : slot[i].state # "kEmpty"} = {}
    BY <2>1, OccupiedType, FS_EmptySet DEF Occupied
  <2>3. InDeque = {}
    BY <2>2 DEF InDeque
  <2> QED BY <2>3 DEF Noticed
<1>7. CASE r # kMask2
  <2>1. PICK y \in Int : y = mFront - r
    BY <1>2
  <2>2. mFront % kMask2 = y % kMask2
    BY <1>1, <1>2, <1>4, <2>1 DEF Moved, Same
  <2>3. -kMask2 < mFront - y /\ mFront - y < kMask2
    BY <1>2, <1>5, <1>7, <2>1, Bounds
  <2>4. mFront = y
    BY <1>2, <2>2, <2>3, Bounds, SameRemainderClose
  <2>5. r = 0
    BY <1>2, <2>1, <2>4
  <2> QED BY <1>1, <1>4, <2>5 DEF Moved
<1> QED BY <1>6, <1>7

\* A fresh look at mFront.
LEMMA FreshLook ==
  ASSUME IInv, NEW t \in Threads, NEW n \in Nat, n <= pushed,
         front'[t] = mFront, mFront' = mFront, slot' = slot, pushed' = pushed,
         pc'[t] = "readBack", t = Owner \/ pc'[Owner] = pc[Owner]
  PROVE  Moved(t, n, 0, 0, 0)'
<1>1. pushed \in Int /\ mFront \in Int /\ Occupied \in 0 .. kCapacity
  BY OccupiedType, Bounds DEF IInv, TypeOK
<1>2. Occupied' = Occupied
  BY DEF Occupied
<1>3. \A s : Pending(s)' \in 0 .. 1
  BY DEF Pending
<1>4. Counter(mFront) \in Int
  BY <1>1, Bounds, DivMod DEF Counter
<1>5. (mFront + 0) - 0 = mFront /\ Counter(mFront) + 0 = Counter(mFront)
  BY <1>1, <1>4
<1>6. 0 + Pending("pushFront")' <= (pushed - n) + 1
  BY <1>1, <1>3
<1>7. 0 + Occupied + Pending("popFrontMove")' <= kCapacity + 1 + (pushed - n)
  BY <1>1, <1>3, Bounds
<1> QED BY <1>2, <1>5, <1>6, <1>7 DEF Moved, Same, Counter

\* The steps of Empty itself.
LEMMA OwnEmptyStep ==
  ASSUME IInv, Copies, kCapacity > 3, NEW t \in Threads, NEW n \in Nat, NEW m \in Nat,
         m <= kCapacity, 2 * m < CounterMod, CallInv(t, n, m), Empty(t)
  PROVE  CallInv(t, n, m)'
<1>1. /\ pushed \in Int /\ n <= pushed /\ mFront \in Int /\ mBack \in Int
      /\ pc \in [Threads -> OwnerPcs \cup ThiefPcs]
      /\ front \in [Threads -> Word] /\ back \in [Threads -> Word]
      /\ front[t] \in Int /\ back[t] \in Int
  BY Bounds DEF IInv, TypeOK, Control, CallInv, Word
<1>2. CASE EmptyReadBack(t)
  <2>1. /\ pc[t] = "readBack" /\ pc'[t] = "readFront" /\ back'[t] = mBack
        /\ front' = front /\ mFront' = mFront /\ slot' = slot /\ pushed' = pushed
        /\ sawEmpty' = sawEmpty
        /\ \A s \in {"pushFront", "popFrontMove"} : pc'[Owner] = s <=> pc[Owner] = s
    BY <1>1, <1>2 DEF EmptyReadBack, Goto, shared, history, Threads
  <2>2. Occupied' = Occupied /\ InDeque' = InDeque
    BY <2>1 DEF Occupied, InDeque
  <2>3. \A s \in {"pushFront", "popFrontMove"} : Pending(s)' = Pending(s)
    BY <2>1 DEF Pending
  <2>4. Noticed(t) /\ Noticed(t)'
    BY <2>1, <2>2 DEF CallInv, Noticed, Looking
  <2>5. PICK a, r, e \in Nat : Moved(t, n, a, r, e)
    BY <2>1 DEF CallInv, Looking
  <2>6. ASSUME a = 0, r = 0, MaybeZero(front[t], mBack) PROVE sawEmpty[t]
    <3>1. Same(mFront, (front[t] + 0) - 0) /\ (front[t] + 0) - 0 = front[t]
      BY <1>1, <2>5, <2>6 DEF Moved
    <3>2. Same(mFront, mBack)
      BY <2>6, <3>1 DEF Same, MaybeZero
    <3>3. InDeque = {}
      BY <3>2, NothingWhereTheyMeet
    <3> QED BY <2>4, <3>3 DEF Noticed
  <2>7. Moved(t, n, a, r, e)'
    BY <2>1, <2>2, <2>3, <2>5, <2>6 DEF Moved, Same, Counter, MaybeZero
  <2> QED BY <1>1, <2>1, <2>4, <2>7 DEF CallInv, Looking
<1>3. CASE EmptyReadFront(t)
  <2>1. /\ pc[t] = "readFront" /\ front'[t] = mFront /\ mFront' = mFront /\ slot' = slot
        /\ pushed' = pushed /\ sawEmpty' = sawEmpty /\ back' = back
        /\ t = Owner \/ pc'[Owner] = pc[Owner]
        /\ pc'[t] = (IF front[t] # mFront THEN "readBack"
                     ELSE IF MaybeZero(front[t], back[t]) THEN "saysEmpty"
                     ELSE "saysNotEmpty")
    BY <1>1, <1>3 DEF EmptyReadFront, Goto, shared, history, Threads
  <2>2. Noticed(t) /\ \E a, r, e \in Nat : Moved(t, n, a, r, e)
    BY <2>1 DEF CallInv, Looking
  <2>3. CASE pc'[t] = "readBack"
    <3>1. Moved(t, n, 0, 0, 0)'
      BY <1>1, <2>1, <2>3, FreshLook
    <3>2. InDeque' = InDeque
      BY <2>1 DEF InDeque
    <3>3. Noticed(t)'
      BY <2>1, <2>2, <3>2 DEF Noticed
    <3>4. \E a, r, e \in Nat : Moved(t, n, a, r, e)'
      BY <3>1
    <3> QED BY <1>1, <2>1, <2>3, <3>3, <3>4 DEF CallInv
  <2>4. CASE pc'[t] = "saysEmpty"
    <3>1. pushed < n + m => sawEmpty[t]
      BY <1>1, <2>1, <2>2, <2>4, EmptyIsTrue
    <3> QED BY <1>1, <2>1, <2>4, <3>1 DEF CallInv, Looking
  <2>5. CASE pc'[t] = "saysNotEmpty"
    BY <1>1, <2>1, <2>5 DEF CallInv, Looking
  <2> QED BY <2>1, <2>3, <2>4, <2>5
<1>4. CASE EmptyReturn(t)
  <2>1. pc'[t] \in {"idle", "lock"} /\ pushed' = pushed
    BY <1>1, <1>4 DEF EmptyReturn, Return, Goto
  <2> QED BY <1>1, <2>1 DEF CallInv, Looking
<1> QED BY <1>2, <1>3, <1>4 DEF Empty

\* The first read of a call of Empty starts the count.
LEMMA OwnCallStep ==
  ASSUME IInv, NEW t \in Threads, NEW n \in Nat, NEW m \in Nat,
         CallInv(t, n, m), NEW o, EmptyCall(t, o)
  PROVE  CallInv(t, n, m)'
<1>1. /\ pc \in [Threads -> OwnerPcs \cup ThiefPcs] /\ sawEmpty \in [Threads -> BOOLEAN]
      /\ front \in [Threads -> Word] /\ n <= pushed
  BY DEF IInv, TypeOK, Control, CallInv
<1>2. /\ front'[t] = mFront /\ mFront' = mFront /\ slot' = slot /\ pushed' = pushed
      /\ pc'[t] = "readBack" /\ (t = Owner \/ pc'[Owner] = pc[Owner])
      /\ sawEmpty'[t] = (InDeque = {})
  BY <1>1 DEF EmptyCall, Goto, shared
<1>3. Moved(t, n, 0, 0, 0)'
  BY <1>1, <1>2, FreshLook
<1>4. \E a, r, e \in Nat : Moved(t, n, a, r, e)'
  BY <1>3
<1>5. InDeque' = InDeque
  BY <1>2 DEF InDeque
<1>6. Noticed(t)'
  BY <1>2, <1>5 DEF Noticed
<1> QED BY <1>1, <1>2, <1>4, <1>6 DEF CallInv

\* The other operations of the thread itself: it is not in Empty.
LEMMA OwnOtherStep ==
  ASSUME IInv, NEW t \in Threads, NEW n \in Nat, NEW m \in Nat, CallInv(t, n, m),
         \/ t = Owner /\ (PushFront \/ PopFront)
         \/ t \in Thieves /\ (PushBack(t) \/ PopBack(t) \/ PopBackHalf(t))
  PROVE  CallInv(t, n, m)'
<1>1. pc \in [Threads -> OwnerPcs \cup ThiefPcs] /\ pushed \in Int /\ n <= pushed
  BY DEF IInv, TypeOK, Control, CallInv
<1>2. pc'[t] \notin Looking \cup {"saysEmpty"} /\ pushed <= pushed' /\ pushed' \in Int
  <2> USE <1>1 DEF Looking, Goto, Return, history, Offer
  <2>1. CASE t = Owner /\ PushFront
    BY <2>1 DEF PushFront, PushFrontClaim, PushFrontMove, PushFrontPublish
  <2>2. CASE t = Owner /\ PopFront
    BY <2>2 DEF PopFront, PopFrontClaim, PopFrontTake, PopFrontMove
  <2>3. CASE PushBack(t)
    BY <2>3 DEF PushBack, PushBackClaim, PushBackMove, PushBackPublish
  <2>4. CASE PopBack(t)
    BY <2>4 DEF PopBack, PopBackClaim, PopBackTake, PopBackMove
  <2>5. CASE PopBackHalf(t)
    BY <2>5 DEF PopBackHalf, HalfLock, HalfClaim, HalfTake, HalfMove
  <2> QED BY <2>1, <2>2, <2>3, <2>4, <2>5
<1> QED BY <1>1, <1>2 DEF CallInv

\* Every step keeps the count of a call of Empty.
LEMMA CallStep ==
  ASSUME IInv, Copies, kCapacity > 3, NEW t \in Threads, NEW n \in Nat, NEW m \in Nat,
         m <= kCapacity, 2 * m < CounterMod, CallInv(t, n, m), [Next]_vars
  PROVE  CallInv(t, n, m)'
<1>1. CASE UNCHANGED vars
  BY <1>1 DEF vars, CallInv, Noticed, Moved, InDeque, Same, Counter, Occupied, Pending,
     MaybeZero
<1>2. CASE OwnerStep
  <2>1. CASE t = Owner
    BY <1>2, <2>1, OwnOtherStep, OwnCallStep, OwnEmptyStep DEF OwnerStep
  <2>2. CASE t \in Thieves
    <3>1. CASE PushFrontMove
      BY <2>2, <3>1, PushFrontMoved
    <3>2. CASE PopFrontMove
      BY <2>2, <3>2, PopFrontMoved
    <3>3. CASE ~PushFrontMove /\ ~PopFrontMove
      BY <1>2, <2>2, <3>3, OwnerUnmoved, Carried
    <3> QED BY <3>1, <3>2, <3>3
  <2> QED BY <2>1, <2>2 DEF Threads
<1>3. ASSUME NEW u \in Thieves, ThiefStep(u) PROVE CallInv(t, n, m)'
  <2>1. CASE t = u
    BY <1>3, <2>1, OwnOtherStep, OwnCallStep, OwnEmptyStep DEF ThiefStep
  <2>2. CASE t # u
    BY <1>3, <2>2, ThiefUnmoved, Carried
  <2> QED BY <2>1, <2>2
<1> QED BY <1>1, <1>2, <1>3 DEF Next

\* The copies of mFront and mBack that the owner and the holder of the lock work
\* with are current: a call of Empty always begins in such a state.
THEOREM CopiesAreCurrent == Spec => [](IInv /\ Copies)
<1>1. Init => IInv /\ Copies
  BY InitInv DEF Init, Copies, OwnerCopy, HolderCopy, Threads
<1>2. IInv /\ Copies /\ [Next]_vars => (IInv /\ Copies)'
  BY NextInv, CopiesStep
<1> QED BY <1>1, <1>2, PTL DEF Spec

\* Empty() does not claim that a non-empty deque is empty.  From any state of the
\* deque in which thread t is not in a call, with n tasks offered so far: while
\* fewer than m more are pushed, an answer "empty" of t means that the deque was
\* empty at some moment of the call.  m is at most kCapacity, so that the front
\* cannot retreat a whole round over tasks that are still there, and at most half
\* the range of the modification counter, so that the counter cannot come round.
THEOREM EmptyCallIsHonest ==
  ASSUME NEW t \in Threads, NEW n \in Nat, NEW m \in Nat,
         kCapacity > 3, m <= kCapacity, 2 * m < CounterMod
  PROVE  (IInv /\ Copies /\ pc[t] = "idle" /\ pushed = n) /\ [][Next]_vars
           => [](pc[t] = "saysEmpty" /\ pushed < n + m => sawEmpty[t])
<1> DEFINE Begin == IInv /\ Copies /\ pc[t] = "idle" /\ pushed = n
           J == IInv /\ Copies /\ CallInv(t, n, m)
           Honest == pc[t] = "saysEmpty" /\ pushed < n + m => sawEmpty[t]
<1>1. Begin => J
  BY DEF CallInv, Looking
<1>2. J /\ [Next]_vars => J'
  BY NextInv, CopiesStep, CallStep
<1>3. J => Honest
  BY DEF CallInv
<1>4. Begin /\ [][Next]_vars => []Honest
  <2> HIDE DEF Begin, J, Honest
  <2> QED BY <1>1, <1>2, <1>3, PTL
<1> QED BY <1>4
-------------------------------------------------------------------------------
(***************************************************************************)
(* TaskQueue.  Its parameters and state are prefixed with q.               *)
(***************************************************************************)
CONSTANTS QThreads, QCapacity, QIndexMod, QStart, QMaxPush
VARIABLES qFront, qBack, qElem, qPc, qTask, qIndex, qOther, qPushed, qOrder,
          qTaken, qRank, qReal

Q == INSTANCE TaskQueue WITH
       Threads <- QThreads, kCapacity <- QCapacity, IndexMod <- QIndexMod,
       Start <- QStart, MaxPush <- QMaxPush,
       mFront <- qFront, mBack <- qBack, elem <- qElem, pc <- qPc, task <- qTask,
       index <- qIndex, other <- qOther, pushed <- qPushed, order <- qOrder,
       taken <- qTaken, rank <- qRank, real <- qReal

\* The assumption of TaskQueue, and fewer pushes than an index has values: a
\* thread that slept between its load and its exchange while the index came
\* round would find the value it expects.
FewerThanIndices == Q!QueueAssumption /\ QMaxPush < QIndexMod

\* The position of the next task to push and of the next task to pop.  The turn
\* of a position is its ticket; position p uses element p % QCapacity.
Hi == QStart + Len(qOrder)
Lo == QStart + qTaken
Turn(p) == p % QIndexMod
Cell(e, p) == e[p % QCapacity]
Nth(p) == qOrder[(p - QStart) + 1]

QPcs == {"idle", "push", "pushCas", "pushStore", "pop", "popCas", "popStore",
         "sizeBack", "sizeFront", "sizeKnown"}
ElemType == [state : 0 .. QIndexMod - 1, task : 0 .. QMaxPush]

QTypes ==
  /\ qFront \in 0 .. QIndexMod - 1 /\ qBack \in 0 .. QIndexMod - 1
  /\ qElem \in [Q!Slots -> ElemType]
  /\ qPc \in [QThreads -> QPcs]
  /\ qTask \in [QThreads -> 0 .. QMaxPush]
  /\ qIndex \in [QThreads -> 0 .. QIndexMod - 1]
  /\ qOther \in [QThreads -> Int] /\ qRank \in [QThreads -> Int]
  /\ qReal \in [QThreads -> Int]
  /\ qPushed \in 0 .. QMaxPush /\ qTaken \in Nat
  /\ qOrder \in Seq(0 .. QMaxPush)

\* At most QCapacity positions are between the two ends, and every push that has
\* claimed a position or is about to was counted.
Pushers == {t \in QThreads : qPc[t] \in {"push", "pushCas"}}
Ends ==
  /\ qFront = Turn(Hi) /\ qBack = Turn(Lo)
  /\ Lo <= Hi /\ Hi <= Lo + QCapacity
  /\ Len(qOrder) + Cardinality(Pushers) <= qPushed

\* The last QCapacity positions, one for each element: free for its push, ready
\* with its task, or free for the push one round later.
Free(p) == Cell(qElem, p).state = Turn(p)
Ready(p) == Cell(qElem, p).state = Turn(p + 1) /\ Cell(qElem, p).task = Nth(p)
Cleared(p) == Cell(qElem, p).state = Turn(p + QCapacity)
Cells ==
  \A p \in Hi - QCapacity .. Hi - 1 :
    /\ p >= Lo => Free(p) \/ Ready(p)
    /\ p < Lo => Cell(qElem, p).state = Turn(p + 1) \/ Cleared(p)

\* What a thread holds in its locals, by where it is.
TriesPush(t) ==
  \E p \in QStart .. Hi : /\ qIndex[t] = Turn(p)
                          /\ qPc[t] = "pushCas" /\ p = Hi => Free(p)
Storing(t) ==
  \E p \in Lo .. Hi - 1 : qIndex[t] = Turn(p) /\ qTask[t] = Nth(p) /\ Free(p)
TriesPop(t) ==
  \E p \in QStart .. Lo :
    /\ qIndex[t] = Turn(p)
    /\ qPc[t] = "popCas" /\ p = Lo => Cell(qElem, p).state = Turn(p + 1)
Clearing(t) ==
  \E p \in Hi - QCapacity .. Lo - 1 :
    p >= QStart /\ qRank[t] = (p - QStart) + 1 /\ qIndex[t] = Turn(p) /\ Ready(p)
LooksFront(t) == \E p \in QStart .. Hi : qIndex[t] = Turn(p)
LooksBack(t) ==
  \E p \in QStart .. Hi, q \in QStart .. Lo :
    /\ qIndex[t] = Turn(p) /\ qOther[t] = Turn(q)
    /\ p = Hi => p - q <= QCapacity /\ qReal[t] <= p - q
Knows(t) ==
  \E p, q \in Int :
    /\ qIndex[t] = Turn(p) /\ qOther[t] = Turn(q)
    /\ q <= p /\ p - q <= QCapacity /\ qReal[t] <= p - q
AtWork(t) ==
  /\ qPc[t] \in {"push", "pushCas"} => TriesPush(t)
  /\ qPc[t] = "pushStore" => Storing(t)
  /\ qPc[t] \in {"pop", "popCas"} => TriesPop(t)
  /\ qPc[t] = "popStore" => Clearing(t)
  /\ qPc[t] = "sizeBack" => LooksFront(t)
  /\ qPc[t] = "sizeFront" => LooksBack(t)
  /\ qPc[t] = "sizeKnown" => Knows(t)
  /\ qReal[t] <= Hi - Lo

\* Nobody else stores to the element a thread has claimed.
Claims == {"pushStore", "popStore"}
ClaimsDiffer ==
  \A t, u \in QThreads :
    t # u /\ qPc[t] = qPc[u] /\ qPc[t] \in Claims => qIndex[t] # qIndex[u]

QInv == QTypes /\ Ends /\ Cells /\ ClaimsDiffer /\ \A t \in QThreads : AtWork(t)

\* What the assumptions say of the constants.
LEMMA QBounds ==
  ASSUME FewerThanIndices
  PROVE  /\ QCapacity \in Nat \ {0} /\ QCapacity > 2
         /\ QIndexMod \in Nat \ {0} /\ QIndexMod > QCapacity
         /\ QStart \in Nat /\ QMaxPush \in Nat /\ QMaxPush < QIndexMod
         /\ IsFiniteSet(QThreads) /\ QIndexMod % QCapacity = 0
<1>1. QIndexMod % QCapacity = 0
  BY Zenon DEF FewerThanIndices, Q!QueueAssumption
<1>2. IsFiniteSet(QThreads)
  BY Zenon DEF FewerThanIndices, Q!QueueAssumption, Q!IsFiniteSet, IsFiniteSet
<1>3. /\ QCapacity \in Nat /\ QCapacity > 2 /\ QIndexMod \in Nat /\ QIndexMod > QCapacity
      /\ QStart \in Nat /\ QMaxPush \in Nat /\ QMaxPush < QIndexMod
  BY Zenon DEF FewerThanIndices, Q!QueueAssumption
<1> QED BY <1>2, <1>1, <1>3

\* A turn is a value of an unsigned.
LEMMA TurnType ==
  ASSUME FewerThanIndices, NEW p \in Int
  PROVE  Turn(p) \in 0 .. QIndexMod - 1 /\ Turn(Turn(p)) = Turn(p)
BY QBounds, DivMod, RemainderRange DEF Turn

\* Different positions less than QIndexMod apart have different turns.
LEMMA TurnsDiffer ==
  ASSUME FewerThanIndices, NEW p \in Int, NEW q \in Int, Turn(p) = Turn(q),
         -QIndexMod < p - q, p - q < QIndexMod
  PROVE  p = q
BY QBounds, SameRemainderClose DEF Turn

\* Adding to a turn is adding to its position.
LEMMA TurnPlus ==
  ASSUME FewerThanIndices, NEW p \in Int, NEW c \in Int
  PROVE  Q!Plus(Turn(p), c) = Turn(p + c)
<1>1. PICK i \in Int : i = Turn(p)
  BY TurnType, QBounds
<1>2. i % QIndexMod = p % QIndexMod
  BY <1>1, TurnType DEF Turn
<1>3. (i + c) % QIndexMod = (p + c) % QIndexMod
  BY <1>2, QBounds, SameRemainderPlus
<1> QED BY <1>1, <1>3 DEF Q!Plus, Turn

\* A turn finds the element of its position.
LEMMA TurnCell ==
  ASSUME FewerThanIndices, NEW p \in Int
  PROVE  Q!At(Turn(p)) = p % QCapacity /\ p % QCapacity \in Q!Slots
<1>1. PICK m \in Int : QIndexMod = m * QCapacity
  <2>1. PICK r \in Int : r = QIndexMod % QCapacity
    BY QBounds
  <2>2. PICK m \in Int : QIndexMod = m * QCapacity + r
    <3>1. QIndexMod \in Int /\ QCapacity \in Nat \ {0}
      BY QBounds
    <3>2. /\ QIndexMod \div QCapacity \in Int
          /\ QIndexMod = (QIndexMod \div QCapacity) * QCapacity + (QIndexMod % QCapacity)
      BY <3>1, DivMod, Zenon
    <3> QED BY <2>1, <3>2, Zenon
  <2>3. r = 0
    BY <2>1, QBounds, Zenon
  <2> QED BY <2>2, <2>3, QBounds
<1>2. m \in Nat \ {0}
  BY <1>1, QBounds, SMT
<1>3. PICK i \in Int : i = Turn(p)
  BY TurnType, QBounds
<1>4. i % (m * QCapacity) = p % (m * QCapacity)
  BY <1>1, <1>3, TurnType DEF Turn
<1>5. i % QCapacity = p % QCapacity
  BY <1>2, <1>4, QBounds, SameRemainderFactor
<1>6. p % QCapacity \in 0 .. QCapacity - 1
  BY QBounds, DivMod
<1> QED BY <1>3, <1>5, <1>6 DEF Q!At, Q!Slots

\* Two of QCapacity consecutive positions use different elements.
LEMMA CellsDiffer ==
  ASSUME FewerThanIndices, NEW p \in Int, NEW q \in Int,
         p % QCapacity = q % QCapacity, -QCapacity < p - q, p - q < QCapacity
  PROVE  p = q
BY QBounds, SameRemainderClose

\* A position and the one a round before use the same element.
LEMMA CellRound ==
  ASSUME FewerThanIndices, NEW p \in Int
  PROVE  (p - QCapacity) % QCapacity = p % QCapacity
<1>1. PICK q \in Int : q = p - QCapacity
  BY QBounds
<1>2. p - q = 1 * QCapacity
  BY <1>1, QBounds
<1>3. Apart(p, q, QCapacity)
  BY <1>2 DEF Apart
<1> QED BY <1>1, <1>3, QBounds, SameRemainder

\* The ends are integers in order, and no more were claimed than pushed.
LEMMA EndTypes ==
  ASSUME FewerThanIndices, QInv
  PROVE  /\ Hi \in Int /\ Lo \in Int /\ Len(qOrder) \in Nat /\ qTaken \in Nat
         /\ QStart <= Lo /\ Lo <= Hi /\ Hi <= Lo + QCapacity
         /\ Hi = QStart + Len(qOrder) /\ Len(qOrder) <= QMaxPush
         /\ IsFiniteSet(Pushers) /\ Cardinality(Pushers) \in Nat
<1>1. Len(qOrder) \in Nat /\ qTaken \in Nat /\ qPushed \in 0 .. QMaxPush
  BY DEF QInv, QTypes
<1>2. IsFiniteSet(Pushers) /\ Cardinality(Pushers) \in Nat
  <2>1. Pushers \subseteq QThreads
    BY DEF Pushers
  <2> QED BY <2>1, QBounds, FS_Subset, FS_CardinalityType
<1>3. /\ Lo <= Hi /\ Hi <= Lo + QCapacity /\ Len(qOrder) + Cardinality(Pushers) <= qPushed
  BY Zenon DEF QInv, Ends
<1>4. /\ Hi \in Int /\ Lo \in Int /\ QStart <= Lo /\ Hi = QStart + Len(qOrder)
  BY <1>1, QBounds DEF Hi, Lo
<1>5. Len(qOrder) <= QMaxPush
  BY <1>1, <1>2, <1>3, QBounds
<1> QED BY <1>1, <1>2, <1>3, <1>4, <1>5

\* A step of thread t that changes its own locals only.
Local(t) ==
  /\ qElem' = qElem /\ qOrder' = qOrder /\ qTaken' = qTaken
  /\ qFront' = qFront /\ qBack' = qBack
  /\ \A u \in QThreads :
       u # t => /\ qPc'[u] = qPc[u] /\ qTask'[u] = qTask[u] /\ qIndex'[u] = qIndex[u]
                /\ qOther'[u] = qOther[u] /\ qRank'[u] = qRank[u] /\ qReal'[u] = qReal[u]

\* A thread whose locals are kept, in a queue that is kept, is where it was.
LEMMA WorkKept ==
  ASSUME NEW t \in QThreads, AtWork(t), qElem' = qElem, qOrder' = qOrder, qTaken' = qTaken,
         qPc'[t] = qPc[t], qTask'[t] = qTask[t], qIndex'[t] = qIndex[t],
         qOther'[t] = qOther[t], qRank'[t] = qRank[t], qReal'[t] = qReal[t]
  PROVE  AtWork(t)'
BY DEF AtWork, TriesPush, Storing, TriesPop, Clearing, LooksFront, LooksBack, Knows,
   Free, Ready, Cell, Nth, Turn, Hi, Lo

\* A step that changes only the locals of its thread keeps the invariant if that
\* thread is still where its locals say.
LEMMA LocalStep ==
  ASSUME FewerThanIndices, QInv, NEW t \in QThreads, Local(t), QTypes', AtWork(t)',
         qPc'[t] \notin Claims, Len(qOrder) + Cardinality(Pushers') <= qPushed'
  PROVE  QInv'
<1>1. Cells'
  BY DEF QInv, Cells, Local, Free, Ready, Cleared, Cell, Nth, Turn, Hi, Lo
<1>2. Ends'
  <2>1. Cardinality(Pushers)' = Cardinality(Pushers')
    OBVIOUS
  <2> QED BY <2>1 DEF QInv, Ends, Local, Turn, Hi, Lo
<1>3. ClaimsDiffer'
  BY DEF QInv, ClaimsDiffer, Local
<1>4. ASSUME NEW u \in QThreads PROVE AtWork(u)'
  <2>1. CASE u = t
    BY <2>1
  <2>2. CASE u # t
    BY <2>2, WorkKept DEF QInv, Local
  <2> QED BY <2>1, <2>2
<1> QED BY <1>1, <1>2, <1>3, <1>4 DEF QInv

\* A step that starts no push keeps the number of pushes in bounds.
LEMMA FewerPushers ==
  ASSUME FewerThanIndices, QInv, Pushers' \subseteq Pushers, qPushed' = qPushed
  PROVE  Len(qOrder) + Cardinality(Pushers') <= qPushed'
<1>1. IsFiniteSet(Pushers') /\ Cardinality(Pushers') <= Cardinality(Pushers)
      /\ Cardinality(Pushers') \in Nat
  BY EndTypes, FS_Subset, FS_CardinalityType
<1> QED BY <1>1, EndTypes DEF QInv, Ends, QTypes

\* The turn a thread reads in mFront or mBack.
LEMMA ReadsEnd ==
  ASSUME FewerThanIndices, QInv
  PROVE  /\ Hi \in QStart .. Hi /\ qFront = Turn(Hi)
         /\ Lo \in QStart .. Lo /\ qBack = Turn(Lo)
BY EndTypes, QBounds DEF QInv, Ends

-------------------------------------------------------------------------------
(***************************************************************************)
(* Steps that change only the locals of their thread.                      *)
(***************************************************************************)
LEMMA PushFrontLocal ==
  ASSUME FewerThanIndices, QInv, NEW t \in QThreads, Q!PushFront(t)
  PROVE  QInv'
<1>1. /\ qPc[t] = "idle" /\ qPushed < QMaxPush /\ qPushed' = qPushed + 1
      /\ qTask' = [qTask EXCEPT ![t] = qPushed + 1]
      /\ qIndex' = [qIndex EXCEPT ![t] = qFront] /\ qPc' = [qPc EXCEPT ![t] = "push"]
      /\ UNCHANGED <<qFront, qBack, qElem, qOther, qOrder, qTaken, qRank, qReal>>
  BY DEF Q!PushFront, Q!Load, Q!Goto, Q!shared
<1>2. QTypes'
  <2>1. qPushed' \in 0 .. QMaxPush /\ qTask' \in [QThreads -> 0 .. QMaxPush]
    <3>1. qPushed \in 0 .. QMaxPush /\ qTask \in [QThreads -> 0 .. QMaxPush]
      BY DEF QInv, QTypes
    <3>2. qPushed + 1 \in 0 .. QMaxPush
      BY <1>1, <3>1, QBounds
    <3> QED BY <1>1, <3>1, <3>2
  <2>2. qIndex' \in [QThreads -> 0 .. QIndexMod - 1] /\ qPc' \in [QThreads -> QPcs]
    BY <1>1 DEF QInv, QTypes, QPcs
  <2> QED BY <1>1, <2>1, <2>2 DEF QInv, QTypes
<1>3. Local(t) /\ qPc'[t] = "push" /\ qIndex'[t] = qFront /\ qReal'[t] = qReal[t]
  BY <1>1 DEF Local, QInv, QTypes
<1>4. AtWork(t)'
  <2>1. TriesPush(t)'
    BY <1>1, <1>3, ReadsEnd DEF TriesPush, Hi, Turn
  <2> QED BY <1>1, <1>3, <2>1 DEF AtWork, QInv, Hi, Lo
<1>5. Len(qOrder) + Cardinality(Pushers') <= qPushed'
  <2>1. t \notin Pushers /\ Pushers' = Pushers \cup {t}
    BY <1>1 DEF Pushers, QInv, QTypes
  <2>2. Cardinality(Pushers') = Cardinality(Pushers) + 1
    BY <2>1, EndTypes, FS_AddElement
  <2> QED BY <1>1, <2>2, EndTypes DEF QInv, Ends, QTypes
<1> QED BY <1>2, <1>3, <1>4, <1>5, LocalStep DEF Claims

\* A return to the caller without a claim.
LEMMA ReturnLocal ==
  ASSUME FewerThanIndices, QInv, NEW t \in QThreads, Q!Return(t),
         qPc[t] \notin Claims, UNCHANGED <<qFront, qBack, qElem, qPushed, qOrder, qTaken, qRank>>,
         qTask' = qTask \/ qTask' = [qTask EXCEPT ![t] = 0],
         qReal' = qReal \/ qReal' = [qReal EXCEPT ![t] = 0]
  PROVE  QInv'
<1>1. /\ qPc' = [qPc EXCEPT ![t] = "idle"]
      /\ qIndex' = [qIndex EXCEPT ![t] = 0] /\ qOther' = [qOther EXCEPT ![t] = 0]
  BY DEF Q!Return, Q!Goto
<1>2. QTypes'
  <2>1. 0 \in 0 .. QIndexMod - 1 /\ 0 \in 0 .. QMaxPush /\ 0 \in Int
    BY QBounds
  <2>2. qTask' \in [QThreads -> 0 .. QMaxPush] /\ qReal' \in [QThreads -> Int]
    <3>1. qTask \in [QThreads -> 0 .. QMaxPush] /\ qReal \in [QThreads -> Int]
      BY DEF QInv, QTypes
    <3>2. qTask' \in [QThreads -> 0 .. QMaxPush]
      BY <2>1, <3>1, Zenon
    <3>3. qReal' \in [QThreads -> Int]
      BY <2>1, <3>1, Zenon
    <3> QED BY <3>2, <3>3
  <2>3. /\ qIndex' \in [QThreads -> 0 .. QIndexMod - 1] /\ qOther' \in [QThreads -> Int]
        /\ qPc' \in [QThreads -> QPcs]
    BY <1>1, <2>1 DEF QInv, QTypes, QPcs
  <2> QED BY <2>2, <2>3 DEF QInv, QTypes
<1>3. Local(t) /\ qPc'[t] = "idle"
  BY <1>1 DEF Local, QInv, QTypes
<1>4. qReal'[t] <= Hi - Lo
  BY EndTypes DEF QInv, AtWork, QTypes
<1>5. AtWork(t)'
  BY <1>3, <1>4 DEF AtWork, Hi, Lo
<1>6. Pushers' \subseteq Pushers
  BY <1>1 DEF Pushers, QInv, QTypes
<1> QED BY <1>2, <1>3, <1>5, <1>6, FewerPushers, LocalStep DEF Claims

\* Going back to the head of the loop with the current mFront or mBack.
LEMMA ReloadLocal ==
  ASSUME FewerThanIndices, QInv, NEW t \in QThreads,
         UNCHANGED <<qFront, qBack, qElem, qTask, qOther, qPushed, qOrder, qTaken, qRank, qReal>>,
         \/ /\ qPc[t] \in {"push", "pushCas"} /\ qPc' = [qPc EXCEPT ![t] = "push"]
            /\ qIndex' = [qIndex EXCEPT ![t] = qFront]
         \/ /\ qPc[t] \in {"idle", "pop", "popCas"} /\ qPc' = [qPc EXCEPT ![t] = "pop"]
            /\ qIndex' = [qIndex EXCEPT ![t] = qBack]
  PROVE  QInv'
<1>1. QTypes'
  BY DEF QInv, QTypes, QPcs
<1>2. Local(t) /\ qReal'[t] = qReal[t]
  BY DEF Local, QInv, QTypes
<1>3. \/ qPc'[t] = "push" /\ qIndex'[t] = qFront
      \/ qPc'[t] = "pop" /\ qIndex'[t] = qBack
  BY DEF QInv, QTypes
<1>4. AtWork(t)'
  <2>1. qPc'[t] = "push" => TriesPush(t)'
    BY <1>3, ReadsEnd DEF TriesPush, Hi, Turn
  <2>2. qPc'[t] = "pop" => TriesPop(t)'
    BY <1>3, ReadsEnd DEF TriesPop, Lo, Turn
  <2> QED BY <1>2, <1>3, <2>1, <2>2 DEF AtWork, QInv, Hi, Lo
<1>5. Pushers' \subseteq Pushers
  BY DEF Pushers, QInv, QTypes
<1> QED BY <1>1, <1>2, <1>3, <1>4, <1>5, FewerPushers, LocalStep DEF Claims

\* PushFront reads the ticket: free, full, or its index is old.
LEMMA PushLoadLocal ==
  ASSUME FewerThanIndices, QInv, NEW t \in QThreads, Q!PushLoad(t)
  PROVE  QInv'
<1>1. /\ qPc[t] = "push"
      /\ UNCHANGED <<qFront, qBack, qElem, qPushed, qOrder, qTaken, qRank, qReal>>
  BY DEF Q!PushLoad, Q!shared, Q!history
<1>2. CASE Q!PushDiff(t) = 0 /\ Q!Goto(t, "pushCas") /\ UNCHANGED <<qTask, qIndex, qOther>>
  <2>1. /\ qPc' = [qPc EXCEPT ![t] = "pushCas"] /\ qPc'[t] = "pushCas"
    BY <1>2 DEF Q!Goto, QInv, QTypes
  <2>2. PICK p \in QStart .. Hi : qIndex[t] = Turn(p)
    BY <1>1 DEF QInv, AtWork, TriesPush
  <2>3. p \in Int /\ Q!At(Turn(p)) = p % QCapacity /\ p % QCapacity \in Q!Slots
    BY EndTypes, QBounds, TurnCell
  <2>4. Free(p)
    <3>1. qElem[p % QCapacity].state \in Int /\ qIndex[t] \in Int
      BY <2>3, QBounds DEF QInv, QTypes, ElemType
    <3>2. qElem[p % QCapacity].state - qIndex[t] = 0
      BY <1>2, <2>2, <2>3 DEF Q!PushDiff
    <3> QED BY <2>2, <3>1, <3>2 DEF Free, Cell
  <2>5. TriesPush(t)'
    BY <1>1, <1>2, <2>2, <2>4 DEF TriesPush, Hi, Turn, Free, Cell
  <2>6. AtWork(t)'
    BY <1>1, <2>1, <2>5 DEF AtWork, QInv, Hi, Lo
  <2>7. QTypes' /\ Local(t)
    BY <1>1, <1>2, <2>1 DEF QInv, QTypes, QPcs, Local
  <2>8. Pushers' \subseteq Pushers
    BY <1>1, <2>1 DEF Pushers, QInv, QTypes
  <2> QED BY <1>1, <2>1, <2>6, <2>7, <2>8, FewerPushers, LocalStep DEF Claims
<1>3. CASE Q!Return(t) /\ qTask' = [qTask EXCEPT ![t] = 0]
  BY <1>1, <1>3, ReturnLocal DEF Claims
<1>4. CASE Q!Load(t, qFront) /\ UNCHANGED <<qPc, qTask, qOther>>
  <2>1. qIndex' = [qIndex EXCEPT ![t] = qFront] /\ qPc' = [qPc EXCEPT ![t] = "push"]
    BY <1>1, <1>4 DEF Q!Load, QInv, QTypes
  <2> QED BY <1>1, <1>4, <2>1, ReloadLocal
<1> QED BY <1>2, <1>3, <1>4 DEF Q!PushLoad

\* PopBack reads the ticket: ready, empty, or its index is old.
LEMMA PopLoadLocal ==
  ASSUME FewerThanIndices, QInv, NEW t \in QThreads, Q!PopLoad(t)
  PROVE  QInv'
<1>1. /\ qPc[t] = "pop"
      /\ UNCHANGED <<qFront, qBack, qElem, qTask, qPushed, qOrder, qTaken, qRank, qReal>>
  BY DEF Q!PopLoad, Q!shared, Q!history
<1>2. CASE Q!PopDiff(t) = 0 /\ Q!Goto(t, "popCas") /\ UNCHANGED <<qIndex, qOther>>
  <2>1. /\ qPc' = [qPc EXCEPT ![t] = "popCas"] /\ qPc'[t] = "popCas"
    BY <1>2 DEF Q!Goto, QInv, QTypes
  <2>2. PICK p \in QStart .. Lo : qIndex[t] = Turn(p)
    BY <1>1 DEF QInv, AtWork, TriesPop
  <2>3. p \in Int /\ Q!At(Turn(p)) = p % QCapacity /\ p % QCapacity \in Q!Slots
    BY EndTypes, QBounds, TurnCell
  <2>4. Cell(qElem, p).state = Turn(p + 1)
    <3>1. PICK c \in Int : c = 1
      OBVIOUS
    <3>2. Q!Plus(Turn(p), c) = Turn(p + c) /\ Turn(p + c) \in Int
      BY <2>3, <3>1, TurnPlus, TurnType, QBounds
    <3>3. qElem[p % QCapacity].state \in Int
      BY <2>3, QBounds DEF QInv, QTypes, ElemType
    <3>4. qElem[p % QCapacity].state - Turn(p + c) = 0
      BY <1>2, <2>2, <2>3, <3>1, <3>2 DEF Q!PopDiff
    <3> QED BY <3>1, <3>2, <3>3, <3>4 DEF Cell
  <2>5. TriesPop(t)'
    BY <1>1, <1>2, <2>2, <2>4 DEF TriesPop, Lo, Turn, Cell
  <2>6. AtWork(t)'
    BY <1>1, <2>1, <2>5 DEF AtWork, QInv, Hi, Lo
  <2>7. QTypes' /\ Local(t)
    BY <1>1, <1>2, <2>1 DEF QInv, QTypes, QPcs, Local
  <2>8. Pushers' \subseteq Pushers
    BY <1>1, <2>1 DEF Pushers, QInv, QTypes
  <2> QED BY <1>1, <2>1, <2>6, <2>7, <2>8, FewerPushers, LocalStep DEF Claims
<1>3. CASE Q!Return(t)
  BY <1>1, <1>3, ReturnLocal DEF Claims
<1>4. CASE Q!Load(t, qBack) /\ UNCHANGED <<qPc, qOther>>
  <2>1. qIndex' = [qIndex EXCEPT ![t] = qBack] /\ qPc' = [qPc EXCEPT ![t] = "pop"]
    BY <1>1, <1>4 DEF Q!Load, QInv, QTypes
  <2> QED BY <1>1, <1>4, <2>1, ReloadLocal
<1> QED BY <1>2, <1>3, <1>4 DEF Q!PopLoad

\* The steps of Size.
LEMMA SizeLocal ==
  ASSUME FewerThanIndices, QInv, NEW t \in QThreads,
         Q!Size(t) \/ Q!SizeBack(t) \/ Q!SizeFront(t) \/ Q!SizeReturn(t)
  PROVE  QInv'
<1>1. /\ Hi \in Int /\ Lo \in Int /\ Len(qOrder) \in Nat /\ qTaken \in Nat
      /\ Hi - Lo = Len(qOrder) - qTaken /\ Hi - Lo <= QCapacity /\ Lo <= Hi
      /\ qReal[t] \in Int /\ qReal[t] <= Hi - Lo /\ QStart \in Int /\ QCapacity \in Int
  <2>1. qReal[t] \in Int /\ qReal[t] <= Hi - Lo
    BY Zenon DEF QInv, QTypes, AtWork
  <2>2. Hi - Lo = Len(qOrder) - qTaken
    BY EndTypes, QBounds DEF Hi, Lo
  <2> QED BY <2>1, <2>2, EndTypes, QBounds
<1>2. CASE Q!Size(t)
  <2>1. /\ qPc[t] = "idle" /\ qPc' = [qPc EXCEPT ![t] = "sizeBack"]
        /\ qIndex' = [qIndex EXCEPT ![t] = qFront]
        /\ qReal' = [qReal EXCEPT ![t] = Len(qOrder) - qTaken]
        /\ UNCHANGED <<qFront, qBack, qElem, qTask, qOther, qPushed, qOrder, qTaken, qRank>>
    BY <1>2 DEF Q!Size, Q!Load, Q!Goto, Q!shared
  <2>2. QTypes' /\ Local(t)
    BY <1>1, <2>1 DEF QInv, QTypes, QPcs, Local
  <2>3. qPc'[t] = "sizeBack" /\ qIndex'[t] = qFront /\ qReal'[t] = Len(qOrder) - qTaken
    BY <2>1 DEF QInv, QTypes
  <2>4. LooksFront(t)'
    BY <2>1, <2>3, ReadsEnd DEF LooksFront, Hi, Turn
  <2>5. (Hi - Lo)' = Hi - Lo
    BY <2>1 DEF Hi, Lo
  <2>6. AtWork(t)'
    BY <1>1, <2>3, <2>4, <2>5 DEF AtWork
  <2>7. Pushers' \subseteq Pushers
    BY <2>1 DEF Pushers, QInv, QTypes
  <2> QED BY <2>1, <2>2, <2>3, <2>6, <2>7, FewerPushers, LocalStep DEF Claims
<1>3. CASE Q!SizeBack(t)
  <2>1. /\ qPc[t] = "sizeBack" /\ qPc' = [qPc EXCEPT ![t] = "sizeFront"]
        /\ qOther' = [qOther EXCEPT ![t] = qBack]
        /\ UNCHANGED <<qFront, qBack, qElem, qTask, qIndex, qPushed, qOrder, qTaken, qRank,
                       qReal>>
    BY <1>3 DEF Q!SizeBack, Q!Goto, Q!shared, Q!history
  <2>2. QTypes' /\ Local(t)
    BY <2>1, QBounds DEF QInv, QTypes, QPcs, Local
  <2>3. qPc'[t] = "sizeFront" /\ qOther'[t] = Turn(Lo)
    BY <2>1, ReadsEnd DEF QInv, QTypes
  <2>4. PICK p \in QStart .. Hi : qIndex[t] = Turn(p)
    BY <2>1 DEF QInv, AtWork, LooksFront
  <2>5. p = Hi => p - Lo <= QCapacity /\ qReal[t] <= p - Lo
    BY <1>1
  <2>6. LooksBack(t)'
    BY <2>1, <2>3, <2>4, <2>5, ReadsEnd DEF LooksBack, Hi, Lo, Turn
  <2>7. AtWork(t)'
    BY <1>1, <2>1, <2>3, <2>6 DEF AtWork, Hi, Lo
  <2>8. Pushers' \subseteq Pushers
    BY <2>1 DEF Pushers, QInv, QTypes
  <2> QED BY <2>1, <2>2, <2>3, <2>7, <2>8, FewerPushers, LocalStep DEF Claims
<1>4. CASE Q!SizeFront(t)
  <2>1. /\ qPc[t] = "sizeFront" /\ qIndex' = [qIndex EXCEPT ![t] = qFront]
        /\ qPc' = [qPc EXCEPT ![t] = IF qFront = qIndex[t] THEN "sizeKnown" ELSE "sizeBack"]
        /\ UNCHANGED <<qFront, qBack, qElem, qTask, qOther, qPushed, qOrder, qTaken, qRank,
                       qReal>>
    BY <1>4 DEF Q!SizeFront, Q!Load, Q!Goto, Q!shared, Q!history
  <2>2. QTypes' /\ Local(t)
    BY <2>1 DEF QInv, QTypes, QPcs, Local
  <2>3. /\ qIndex'[t] = Turn(Hi)
        /\ qPc'[t] = IF qFront = qIndex[t] THEN "sizeKnown" ELSE "sizeBack"
    BY <2>1, ReadsEnd DEF QInv, QTypes
  <2>4. LooksFront(t)'
    BY <2>1, <2>3, ReadsEnd DEF LooksFront, Hi, Turn
  <2>5. qFront = qIndex[t] => Knows(t)'
    <3> SUFFICES ASSUME qFront = qIndex[t] PROVE Knows(t)'
      OBVIOUS
    <3>1. PICK p \in QStart .. Hi, q \in QStart .. Lo :
            /\ qIndex[t] = Turn(p) /\ qOther[t] = Turn(q)
            /\ p = Hi => p - q <= QCapacity /\ qReal[t] <= p - q
      BY <2>1 DEF QInv, AtWork, LooksBack
    <3>2. p \in Int /\ q \in Int /\ -QIndexMod < p - Hi /\ p - Hi < QIndexMod
      BY <1>1, EndTypes, QBounds
    <3>3. p = Hi
      BY <1>1, <3>1, <3>2, ReadsEnd, TurnsDiffer
    <3>4. q <= p
      BY <1>1, <3>1, <3>2, <3>3
    <3>5. qReal' = qReal /\ qOther' = qOther
      BY <2>1
    <3> QED BY <2>3, <3>1, <3>2, <3>3, <3>4, <3>5 DEF Knows, Turn
  <2>6. AtWork(t)'
    BY <1>1, <2>1, <2>3, <2>4, <2>5 DEF AtWork, Hi, Lo
  <2>7. Pushers' \subseteq Pushers
    BY <2>1 DEF Pushers, QInv, QTypes
  <2> QED BY <2>1, <2>2, <2>3, <2>6, <2>7, FewerPushers, LocalStep DEF Claims
<1>5. CASE Q!SizeReturn(t)
  BY <1>5, ReturnLocal DEF Q!SizeReturn, Q!shared, Claims
<1> QED BY <1>2, <1>3, <1>4, <1>5

-------------------------------------------------------------------------------
(***************************************************************************)
(* What a ticket says of the ends.                                         *)
(***************************************************************************)
\* The element of the next push is free: its last task has been popped, and
\* nobody is clearing it.
LEMMA FreeAhead ==
  ASSUME FewerThanIndices, QInv, Free(Hi)
  PROVE  /\ Hi < Lo + QCapacity
         /\ Cell(qElem, Hi - QCapacity).state # Turn((Hi - QCapacity) + 1)
         /\ Cell(qElem, Hi - QCapacity).state # Turn(Hi - QCapacity)
<1>1. PICK c \in Int : c = Hi - QCapacity
  BY EndTypes, QBounds
<1>2. Cell(qElem, c) = Cell(qElem, Hi)
  BY <1>1, EndTypes, CellRound DEF Cell
<1>3. Cell(qElem, c).state = Turn(Hi)
  BY <1>2 DEF Free
<1>4. Turn(c) # Turn(Hi)
  BY <1>1, EndTypes, QBounds, TurnsDiffer
<1>5. PICK d \in Int : d = c + 1
  OBVIOUS
<1>6. Turn(d) # Turn(Hi)
  <2>1. Hi \in Int /\ d = (Hi - QCapacity) + 1
    BY <1>1, <1>5, EndTypes
  <2>2. -QIndexMod < d - Hi /\ d - Hi < QIndexMod /\ d # Hi
    BY <2>1, QBounds
  <2> QED BY <2>1, <2>2, TurnsDiffer
<1>7. c < Lo
  <2> SUFFICES ASSUME c >= Lo PROVE FALSE
    BY EndTypes
  <2>1. Free(c) \/ Ready(c)
    BY <1>1, EndTypes, QBounds DEF QInv, Cells
  <2> QED BY <1>3, <1>4, <1>5, <1>6, <2>1 DEF Free, Ready
<1>8. Hi < Lo + QCapacity
  BY <1>1, <1>7, EndTypes, QBounds
<1>9. Cell(qElem, c).state # Turn(c + 1) /\ Cell(qElem, c).state # Turn(c)
  BY <1>3, <1>4, <1>5, <1>6
<1> QED BY <1>1, <1>8, <1>9

\* The element of the next pop has the ticket of a full one: it is ready.
LEMMA ReadyAhead ==
  ASSUME FewerThanIndices, QInv, Cell(qElem, Lo).state = Turn(Lo + 1)
  PROVE  Lo < Hi /\ Ready(Lo) /\ ~Free(Lo)
<1>1. PICK d \in Int : d = Lo + 1
  BY EndTypes
<1>2. Turn(Lo) # Turn(d)
  BY <1>1, EndTypes, QBounds, TurnsDiffer
<1>3. Lo < Hi
  <2> SUFFICES ASSUME Lo = Hi PROVE FALSE
    BY EndTypes
  <2>1. PICK c \in Int : c = Lo - QCapacity
    BY EndTypes, QBounds
  <2>2. Cell(qElem, c) = Cell(qElem, Lo)
    BY <2>1, EndTypes, CellRound DEF Cell
  <2>3. PICK b \in Int : b = c + 1
    OBVIOUS
  <2>4. Turn(b) # Turn(d)
    <3>1. Lo \in Int /\ d = Lo + 1 /\ b = (Lo - QCapacity) + 1
      BY <1>1, <2>1, <2>3, EndTypes
    <3>2. -QIndexMod < b - d /\ b - d < QIndexMod /\ b # d
      BY <3>1, QBounds
    <3> QED BY <3>2, TurnsDiffer
  <2>5. c + QCapacity = Lo
    BY <2>1, EndTypes, QBounds
  <2>6. Cell(qElem, c).state = Turn(c + 1) \/ Cleared(c)
    <3>1. c \in Hi - QCapacity .. Hi - 1 /\ c < Lo
      BY <2>1, EndTypes, QBounds
    <3> QED BY <3>1 DEF QInv, Cells
  <2> QED BY <1>1, <1>2, <2>2, <2>3, <2>4, <2>5, <2>6 DEF Cleared
<1>4. Free(Lo) \/ Ready(Lo)
  <2>1. Lo \in Hi - QCapacity .. Hi - 1 /\ Lo >= Lo
    BY <1>3, EndTypes, QBounds
  <2>2. Cells
    BY DEF QInv
  <2> QED BY <2>1, <2>2 DEF Cells
<1> QED BY <1>1, <1>2, <1>3, <1>4 DEF Free

-------------------------------------------------------------------------------
(***************************************************************************)
(* Storing to a claimed element.                                           *)
(***************************************************************************)
StoredAt(p, r) == qElem' = [qElem EXCEPT ![p % QCapacity] = r]
LocalsKept(u) ==
  /\ qPc'[u] = qPc[u] /\ qTask'[u] = qTask[u] /\ qIndex'[u] = qIndex[u]
  /\ qOther'[u] = qOther[u] /\ qRank'[u] = qRank[u] /\ qReal'[u] = qReal[u]

\* The element of the position that is stored to.
LEMMA CellStored ==
  ASSUME FewerThanIndices, QInv, NEW p \in Int, NEW r, StoredAt(p, r)
  PROVE  Cell(qElem', p) = r
<1>1. p % QCapacity \in Q!Slots
  BY TurnCell
<1> QED BY <1>1 DEF QInv, QTypes, StoredAt, Cell

\* A store to one of QCapacity consecutive positions leaves the others alone.
LEMMA CellKept ==
  ASSUME FewerThanIndices, QInv, NEW p \in Int, NEW r, StoredAt(p, r), NEW q \in Int,
         p # q, -QCapacity < p - q, p - q < QCapacity
  PROVE  Cell(qElem', q) = Cell(qElem, q)
<1>1. p % QCapacity # q % QCapacity
  BY CellsDiffer
<1>2. p % QCapacity \in Q!Slots /\ q % QCapacity \in Q!Slots
  BY TurnCell
<1> QED BY <1>1, <1>2 DEF QInv, QTypes, StoredAt, Cell

\* Two threads with a claim have claimed different elements.
LEMMA ClaimedApart ==
  ASSUME FewerThanIndices, QInv, NEW t \in QThreads, NEW u \in QThreads, t # u,
         qPc[t] \in Claims, qPc[u] \in Claims
  PROVE  qIndex[t] # qIndex[u]
<1>1. ASSUME NEW s \in QThreads, NEW v \in QThreads, qPc[s] = "pushStore", qPc[v] = "popStore"
      PROVE  qIndex[s] # qIndex[v]
  <2>1. PICK p \in Lo .. Hi - 1 : qIndex[s] = Turn(p)
    BY <1>1 DEF QInv, AtWork, Storing
  <2>2. PICK q \in Hi - QCapacity .. Lo - 1 : qIndex[v] = Turn(q)
    BY <1>1 DEF QInv, AtWork, Clearing
  <2>3. /\ p \in Int /\ q \in Int /\ Lo \in Int /\ Hi \in Int /\ QCapacity \in Int
        /\ Lo <= p /\ p < Hi /\ q < Lo /\ Hi - QCapacity <= q
    <3>1. Lo \in Int /\ Hi \in Int /\ QCapacity \in Int
      BY EndTypes, QBounds
    <3> QED BY <3>1
  <2>4. p # q /\ -QCapacity < p - q /\ p - q < QCapacity
    BY <2>3
  <2>5. -QIndexMod < p - q /\ p - q < QIndexMod
    BY <2>3, <2>4, QBounds
  <2> QED BY <2>1, <2>2, <2>3, <2>4, <2>5, TurnsDiffer
<1>2. CASE qPc[t] = qPc[u]
  BY <1>2 DEF QInv, ClaimsDiffer
<1>3. CASE qPc[t] # qPc[u]
  BY <1>1, <1>3 DEF Claims
<1> QED BY <1>2, <1>3

\* Another thread's claim, and what it has read of the ends, are as before.
LEMMA OthersKept ==
  ASSUME FewerThanIndices, QInv, NEW t \in QThreads, NEW u \in QThreads, t # u,
         NEW p \in Hi - QCapacity .. Hi - 1, NEW r, StoredAt(p, r), qIndex[t] = Turn(p),
         qPc[t] \in Claims, qOrder' = qOrder, qTaken' = qTaken, LocalsKept(u),
         Free(Hi) => p # Hi - QCapacity,
         Cell(qElem, Lo).state = Turn(Lo + 1) => p # Lo
  PROVE  AtWork(u)'
<1>1. /\ Hi' = Hi /\ Lo' = Lo /\ p \in Int /\ Hi \in Int /\ Lo \in Int /\ AtWork(u)
      /\ QStart \in Int /\ QCapacity \in Int /\ QStart <= Lo /\ Lo <= Hi /\ Hi <= Lo + QCapacity
  BY EndTypes, QBounds DEF Hi, Lo, QInv
<1>2. \A q : Nth(q)' = Nth(q)
  BY DEF Nth
<1>3. ASSUME NEW q \in Int, p # q, q < p + QCapacity, p < q + QCapacity
      PROVE  Cell(qElem', q) = Cell(qElem, q)
  <2>1. -QCapacity < p - q /\ p - q < QCapacity
    BY <1>1, <1>3
  <2> QED BY <1>1, <1>3, <2>1, CellKept
<1>4. qPc[u] \in Claims => qIndex[u] # Turn(p)
  BY ClaimedApart
<1>5. qPc[u] \in {"push", "pushCas"} => TriesPush(u)'
  <2> SUFFICES ASSUME qPc[u] \in {"push", "pushCas"} PROVE TriesPush(u)'
    OBVIOUS
  <2>1. PICK q \in QStart .. Hi : /\ qIndex[u] = Turn(q)
                                  /\ qPc[u] = "pushCas" /\ q = Hi => Free(q)
    BY <1>1 DEF AtWork, TriesPush
  <2>2. qPc[u] = "pushCas" /\ q = Hi => Cell(qElem', q).state = Turn(q)
    <3> SUFFICES ASSUME qPc[u] = "pushCas", q = Hi PROVE Cell(qElem', q).state = Turn(q)
      OBVIOUS
    <3>1. Cell(qElem, q).state = Turn(q) /\ p # Hi - QCapacity
      BY <2>1 DEF Free
    <3>2. Cell(qElem', q) = Cell(qElem, q)
      BY <1>1, <1>3, <3>1
    <3> QED BY <3>1, <3>2
  <2> QED BY <1>1, <2>1, <2>2 DEF TriesPush, Free, Cell, Turn, LocalsKept
<1>6. qPc[u] = "pushStore" => Storing(u)'
  <2> SUFFICES ASSUME qPc[u] = "pushStore" PROVE Storing(u)'
    OBVIOUS
  <2>1. PICK q \in Lo .. Hi - 1 : qIndex[u] = Turn(q) /\ qTask[u] = Nth(q) /\ Free(q)
    BY <1>1 DEF AtWork, Storing
  <2>2. p # q
    BY <1>4, <2>1 DEF Claims
  <2>3. Cell(qElem', q) = Cell(qElem, q)
    BY <1>1, <1>3, <2>2
  <2> QED BY <1>1, <1>2, <2>1, <2>3 DEF Storing, Free, Cell, Turn, LocalsKept
<1>7. qPc[u] \in {"pop", "popCas"} => TriesPop(u)'
  <2> SUFFICES ASSUME qPc[u] \in {"pop", "popCas"} PROVE TriesPop(u)'
    OBVIOUS
  <2>1. PICK q \in QStart .. Lo :
          /\ qIndex[u] = Turn(q)
          /\ qPc[u] = "popCas" /\ q = Lo => Cell(qElem, q).state = Turn(q + 1)
    BY <1>1 DEF AtWork, TriesPop
  <2>2. qPc[u] = "popCas" /\ q = Lo => Cell(qElem', q).state = Turn(q + 1)
    <3> SUFFICES ASSUME qPc[u] = "popCas", q = Lo PROVE Cell(qElem', q).state = Turn(q + 1)
      OBVIOUS
    <3>1. Cell(qElem, Lo).state = Turn(Lo + 1) /\ p # Lo /\ Lo < Hi
      BY <2>1, ReadyAhead
    <3>2. Cell(qElem', q) = Cell(qElem, q)
      BY <1>1, <1>3, <3>1
    <3> QED BY <3>1, <3>2
  <2> QED BY <1>1, <2>1, <2>2 DEF TriesPop, Cell, Turn, LocalsKept
<1>8. qPc[u] = "popStore" => Clearing(u)'
  <2> SUFFICES ASSUME qPc[u] = "popStore" PROVE Clearing(u)'
    OBVIOUS
  <2>1. PICK q \in Hi - QCapacity .. Lo - 1 :
          q >= QStart /\ qRank[u] = (q - QStart) + 1 /\ qIndex[u] = Turn(q) /\ Ready(q)
    BY <1>1 DEF AtWork, Clearing
  <2>2. p # q
    BY <1>4, <2>1 DEF Claims
  <2>3. Cell(qElem', q) = Cell(qElem, q)
    BY <1>1, <1>3, <2>2
  <2> QED BY <1>1, <1>2, <2>1, <2>3 DEF Clearing, Ready, Cell, Turn, LocalsKept
<1>9. /\ qPc[u] = "sizeBack" => LooksFront(u)'
      /\ qPc[u] = "sizeFront" => LooksBack(u)'
      /\ qPc[u] = "sizeKnown" => Knows(u)'
  BY <1>1 DEF AtWork, LooksFront, LooksBack, Knows, Turn, LocalsKept
<1> QED BY <1>1, <1>5, <1>6, <1>7, <1>8, <1>9 DEF AtWork, LocalsKept

\* The store that ends a claim: the position becomes ready if PushFront claimed it,
\* free for the next round if PopBack did, and no other claim is disturbed.
LEMMA StoreStep ==
  ASSUME FewerThanIndices, QInv, NEW t \in QThreads,
         NEW p \in Hi - QCapacity .. Hi - 1, NEW r \in ElemType, StoredAt(p, r),
         qIndex[t] = Turn(p), qPc[t] \in Claims, Q!Return(t),
         qTask' = qTask \/ qTask' = [qTask EXCEPT ![t] = 0],
         qRank' = qRank \/ qRank' = [qRank EXCEPT ![t] = 0],
         UNCHANGED <<qFront, qBack, qPushed, qOrder, qTaken, qReal>>,
         p >= Lo => r.state = Turn(p + 1) /\ r.task = Nth(p),
         p < Lo => r.state = Turn(p + QCapacity),
         Free(Hi) => p # Hi - QCapacity,
         Cell(qElem, Lo).state = Turn(Lo + 1) => p # Lo
  PROVE  QInv'
<1>1. /\ qPc' = [qPc EXCEPT ![t] = "idle"]
      /\ qIndex' = [qIndex EXCEPT ![t] = 0] /\ qOther' = [qOther EXCEPT ![t] = 0]
  BY DEF Q!Return, Q!Goto
<1>2. /\ Hi' = Hi /\ Lo' = Lo /\ p \in Int /\ Hi \in Int /\ Lo \in Int
      /\ QCapacity \in Int
  BY EndTypes, QBounds DEF Hi, Lo
<1>3. QTypes'
  <2>1. 0 \in 0 .. QIndexMod - 1 /\ 0 \in 0 .. QMaxPush /\ 0 \in Int
    BY QBounds
  <2>2. qTask' \in [QThreads -> 0 .. QMaxPush] /\ qRank' \in [QThreads -> Int]
    <3>1. qTask \in [QThreads -> 0 .. QMaxPush] /\ qRank \in [QThreads -> Int]
      BY DEF QInv, QTypes
    <3>2. qTask' \in [QThreads -> 0 .. QMaxPush]
      BY <2>1, <3>1, Zenon
    <3>3. qRank' \in [QThreads -> Int]
      BY <2>1, <3>1, Zenon
    <3> QED BY <3>2, <3>3
  <2>3. /\ qIndex' \in [QThreads -> 0 .. QIndexMod - 1] /\ qOther' \in [QThreads -> Int]
        /\ qPc' \in [QThreads -> QPcs]
    BY <1>1, <2>1 DEF QInv, QTypes, QPcs
  <2>4. qElem' \in [Q!Slots -> ElemType]
    BY DEF StoredAt, QInv, QTypes
  <2> QED BY <2>2, <2>3, <2>4 DEF QInv, QTypes
<1>4. qPc'[t] = "idle" /\ \A u \in QThreads : u # t => LocalsKept(u)
  BY <1>1 DEF LocalsKept, QInv, QTypes
<1>5. Ends'
  <2>1. Pushers' \subseteq Pushers
    BY <1>1 DEF Pushers, QInv, QTypes
  <2>2. Len(qOrder) + Cardinality(Pushers') <= qPushed'
    BY <2>1, FewerPushers
  <2>3. (Cardinality(Pushers))' = Cardinality(Pushers')
    OBVIOUS
  <2> QED BY <1>2, <2>2, <2>3 DEF QInv, Ends, Turn
<1>6. Cells'
  <2> SUFFICES ASSUME NEW q \in Hi - QCapacity .. Hi - 1
               PROVE  /\ q >= Lo => (Free(q) \/ Ready(q))'
                      /\ q < Lo => Cell(qElem', q).state = Turn(q + 1) \/ Cleared(q)'
    BY <1>2 DEF Cells, Cell, Turn
  <2>1. /\ q >= Lo => Free(q) \/ Ready(q)
        /\ q < Lo => Cell(qElem, q).state = Turn(q + 1) \/ Cleared(q)
    BY DEF QInv, Cells
  <2>2. Nth(q)' = Nth(q)
    BY DEF Nth
  <2>3. CASE q = p
    <3>1. Cell(qElem', p) = r
      BY <1>2, CellStored
    <3>2. Cell(qElem', q) = r
      BY <2>3, <3>1
    <3> QED BY <2>2, <2>3, <3>2 DEF Ready, Cleared, Cell, Turn
  <2>4. CASE q # p
    <3>1. -QCapacity < p - q /\ p - q < QCapacity /\ q \in Int
      BY <1>2
    <3>2. Cell(qElem', q) = Cell(qElem, q)
      BY <1>2, <2>4, <3>1, CellKept
    <3> QED BY <2>1, <2>2, <3>2 DEF Free, Ready, Cleared, Cell, Turn
  <2> QED BY <2>3, <2>4
<1>7. ClaimsDiffer'
  BY <1>4 DEF QInv, ClaimsDiffer, LocalsKept, Claims
<1>8. ASSUME NEW u \in QThreads PROVE AtWork(u)'
  <2>1. CASE u = t
    <3>1. qReal'[t] <= Hi - Lo
      BY DEF QInv, AtWork
    <3> QED BY <1>2, <1>4, <2>1, <3>1 DEF AtWork
  <2>2. CASE u # t
    BY <1>4, <2>2, OthersKept
  <2> QED BY <2>1, <2>2
<1> QED BY <1>3, <1>5, <1>6, <1>7, <1>8 DEF QInv

\* PushFront stores the task and the next ticket.
LEMMA PushStoreStep ==
  ASSUME FewerThanIndices, QInv, NEW t \in QThreads, Q!PushStore(t)
  PROVE  QInv'
<1>1. PICK p \in Lo .. Hi - 1 : qIndex[t] = Turn(p) /\ qTask[t] = Nth(p) /\ Free(p)
  BY DEF Q!PushStore, QInv, AtWork, Storing
<1>2. p \in Int /\ p \in Hi - QCapacity .. Hi - 1 /\ p >= Lo
  BY EndTypes, QBounds
<1>3. PICK r : r = [state |-> Turn(p + 1), task |-> qTask[t]]
  OBVIOUS
<1>4. r.state = Turn(p + 1) /\ r.task = Nth(p)
  BY <1>1, <1>3
<1>5. r \in ElemType
  <2>1. PICK d \in Int : d = p + 1
    BY <1>2
  <2>2. Turn(p + 1) \in 0 .. QIndexMod - 1
    BY <2>1, TurnType
  <2> QED BY <1>3, <2>2 DEF ElemType, QInv, QTypes
<1>6. StoredAt(p, r)
  <2>1. Q!Plus(Turn(p), 1) = Turn(p + 1) /\ Q!At(Turn(p)) = p % QCapacity
    BY <1>2, TurnPlus, TurnCell
  <2> QED BY <1>1, <1>3, <2>1 DEF Q!PushStore, StoredAt
<1>7. ASSUME Free(Hi) PROVE p # Hi - QCapacity
  BY <1>1, <1>7, FreeAhead DEF Free
<1>8. ASSUME Cell(qElem, Lo).state = Turn(Lo + 1) PROVE p # Lo
  BY <1>1, <1>8, ReadyAhead DEF Free
<1>9. /\ Q!Return(t) /\ qTask' = [qTask EXCEPT ![t] = 0]
      /\ qPc[t] = "pushStore" /\ UNCHANGED <<qFront, qBack, qPushed, qOrder, qTaken, qRank, qReal>>
  BY DEF Q!PushStore, Q!history
<1>10. ~(p < Lo)
  BY <1>2, EndTypes
<1> QED BY <1>1, <1>2, <1>4, <1>5, <1>6, <1>7, <1>8, <1>9, <1>10, StoreStep DEF Claims

\* PopBack takes the task and stores the ticket of the next round.
LEMMA PopStoreStep ==
  ASSUME FewerThanIndices, QInv, NEW t \in QThreads, Q!PopStore(t)
  PROVE  QInv'
<1>1. PICK p \in Hi - QCapacity .. Lo - 1 : p >= QStart /\ qIndex[t] = Turn(p) /\ Ready(p)
  BY DEF Q!PopStore, QInv, AtWork, Clearing
<1>2. p \in Int /\ p \in Hi - QCapacity .. Hi - 1 /\ p < Lo
  BY EndTypes, QBounds
<1>3. PICK r : r = [state |-> Turn(p + QCapacity), task |-> 0]
  OBVIOUS
<1>4. r.state = Turn(p + QCapacity)
  BY <1>3
<1>5. r \in ElemType
  <2>1. PICK d \in Int : d = p + QCapacity
    BY <1>2, QBounds
  <2>2. Turn(p + QCapacity) \in 0 .. QIndexMod - 1
    BY <2>1, TurnType
  <2> QED BY <1>3, <2>2, QBounds DEF ElemType
<1>6. StoredAt(p, r)
  <2>1. Q!Plus(Turn(p), QCapacity) = Turn(p + QCapacity) /\ Q!At(Turn(p)) = p % QCapacity
    BY <1>2, QBounds, TurnPlus, TurnCell
  <2> QED BY <1>1, <1>3, <2>1 DEF Q!PopStore, StoredAt
<1>7. ASSUME Free(Hi) PROVE p # Hi - QCapacity
  BY <1>1, <1>7, FreeAhead DEF Ready
<1>8. p # Lo /\ ~(p >= Lo)
  BY <1>2, EndTypes
<1>9. /\ Q!Return(t) /\ qRank' = [qRank EXCEPT ![t] = 0]
      /\ qPc[t] = "popStore" /\ UNCHANGED <<qFront, qBack, qTask, qPushed, qOrder, qTaken, qReal>>
  BY DEF Q!PopStore
<1> QED BY <1>1, <1>2, <1>4, <1>5, <1>6, <1>7, <1>8, <1>9, StoreStep DEF Claims

-------------------------------------------------------------------------------
(***************************************************************************)
(* Claiming an element.                                                    *)
(***************************************************************************)
\* The exchange of mFront succeeds: the local is the present position.
LEMMA FrontClaimed ==
  ASSUME FewerThanIndices, QInv, NEW t \in QThreads, qPc[t] = "pushCas", qFront = qIndex[t]
  PROVE  qIndex[t] = Turn(Hi) /\ Free(Hi)
<1>1. PICK p \in QStart .. Hi : /\ qIndex[t] = Turn(p)
                                /\ qPc[t] = "pushCas" /\ p = Hi => Free(p)
  BY DEF QInv, AtWork, TriesPush
<1>2. Hi \in Int /\ p \in Int /\ -QIndexMod < p - Hi /\ p - Hi < QIndexMod
  BY EndTypes, QBounds
<1>3. Turn(p) = Turn(Hi)
  BY <1>1, ReadsEnd
<1>4. p = Hi
  BY <1>2, <1>3, TurnsDiffer
<1> QED BY <1>1, <1>3, <1>4 DEF Free

\* The exchange of mBack succeeds: the local is the present position.
LEMMA BackClaimed ==
  ASSUME FewerThanIndices, QInv, NEW t \in QThreads, qPc[t] = "popCas", qBack = qIndex[t]
  PROVE  qIndex[t] = Turn(Lo) /\ Cell(qElem, Lo).state = Turn(Lo + 1)
<1>1. PICK p \in QStart .. Lo :
        /\ qIndex[t] = Turn(p)
        /\ qPc[t] = "popCas" /\ p = Lo => Cell(qElem, p).state = Turn(p + 1)
  BY DEF QInv, AtWork, TriesPop
<1>2. Lo \in Int /\ p \in Int /\ -QIndexMod < p - Lo /\ p - Lo < QIndexMod
  BY EndTypes, QBounds
<1>3. Turn(p) = Turn(Lo)
  BY <1>1, ReadsEnd
<1>4. p = Lo
  BY <1>2, <1>3, TurnsDiffer
<1> QED BY <1>1, <1>3, <1>4

\* PushFront claims the next position.
LEMMA PushCasStep ==
  ASSUME FewerThanIndices, QInv, NEW t \in QThreads, Q!PushCas(t), qFront = qIndex[t]
  PROVE  QInv'
<1>1. /\ qPc[t] = "pushCas" /\ qFront' = Q!Plus(qFront, 1) /\ qOrder' = Append(qOrder, qTask[t])
      /\ qPc' = [qPc EXCEPT ![t] = "pushStore"]
      /\ UNCHANGED <<qIndex, qBack, qElem, qTask, qOther, qPushed, qTaken, qRank, qReal>>
  BY DEF Q!PushCas, Q!Goto
<1>2. /\ Hi \in Int /\ Lo \in Int /\ QStart \in Int /\ QCapacity \in Int /\ QIndexMod \in Int
      /\ QStart <= Lo /\ Lo <= Hi /\ QIndexMod > QCapacity
  BY EndTypes, QBounds
<1>3. qIndex[t] = Turn(Hi) /\ Free(Hi)
  BY <1>1, FrontClaimed
<1>4. /\ Hi < Lo + QCapacity
      /\ Cell(qElem, Hi - QCapacity).state # Turn((Hi - QCapacity) + 1)
  BY <1>3, FreeAhead
<1>5. /\ Len(qOrder') = Len(qOrder) + 1 /\ qOrder' \in Seq(0 .. QMaxPush)
      /\ Hi' = Hi + 1 /\ Lo' = Lo
  BY <1>1, EndTypes, QBounds DEF QInv, QTypes, Hi, Lo
<1>6. /\ \A i \in 1 .. Len(qOrder) : qOrder'[i] = qOrder[i]
      /\ qOrder'[Len(qOrder) + 1] = qTask[t]
  <2>1. qOrder \in Seq(0 .. QMaxPush) /\ qTask[t] \in 0 .. QMaxPush
    BY DEF QInv, QTypes
  <2> QED BY <1>1, <2>1, AppendProperties
<1>7. ASSUME NEW p \in QStart .. Hi - 1 PROVE Nth(p)' = Nth(p)
  <2>1. (p - QStart) + 1 \in 1 .. Len(qOrder)
    BY EndTypes, QBounds
  <2>2. qOrder'[(p - QStart) + 1] = qOrder[(p - QStart) + 1]
    BY <1>6, <2>1, Zenon
  <2> QED BY <2>2, Zenon DEF Nth
<1>8. PICK h \in Int : h = Hi
  BY <1>2
<1>9. Nth(h)' = qTask[t]
  <2>1. (h - QStart) + 1 = Len(qOrder) + 1
    BY <1>8, EndTypes, QBounds
  <2>2. qOrder'[(h - QStart) + 1] = qTask[t]
    BY <1>6, <2>1, Zenon
  <2> QED BY <2>2, Zenon DEF Nth
<1>10. QTypes'
  <2>1. qFront' \in 0 .. QIndexMod - 1
    <3>1. PICK d \in Int : d = Hi + 1
      BY <1>2
    <3>2. qFront' = Turn(d)
      BY <1>1, <1>2, <1>3, <3>1, TurnPlus
    <3> QED BY <3>2, TurnType
  <2> QED BY <1>1, <1>5, <2>1 DEF QInv, QTypes, QPcs
<1>11. /\ qPc'[t] = "pushStore" /\ qIndex'[t] = Turn(h)
       /\ \A u \in QThreads : u # t => LocalsKept(u)
  BY <1>1, <1>3, <1>8 DEF QInv, QTypes, LocalsKept
<1>12. Ends'
  <2>1. qFront' = Turn(Hi + 1) /\ qBack' = Turn(Lo)
    BY <1>1, <1>2, <1>3, TurnPlus, ReadsEnd
  <2>2. t \in Pushers /\ Pushers' = Pushers \ {t}
    BY <1>1 DEF Pushers, QInv, QTypes
  <2>3. Cardinality(Pushers') = Cardinality(Pushers) - 1
    BY <2>2, EndTypes, FS_RemoveElement
  <2>4. (Cardinality(Pushers))' = Cardinality(Pushers')
    OBVIOUS
  <2>5. Len(qOrder') + Cardinality(Pushers') <= qPushed'
    <3>1. Len(qOrder) \in Nat /\ Cardinality(Pushers) \in Nat
      BY EndTypes
    <3>2. Len(qOrder) + Cardinality(Pushers) <= qPushed
      BY DEF QInv, Ends
    <3>3. qPushed' = qPushed
      BY <1>1
    <3>4. qPushed \in Int
      BY DEF QInv, QTypes
    <3> QED BY <1>5, <2>3, <3>1, <3>2, <3>3, <3>4
  <2>6. Lo <= Hi + 1 /\ Hi + 1 <= Lo + QCapacity
    BY <1>2, <1>4
  <2> QED BY <1>5, <2>1, <2>4, <2>5, <2>6 DEF Ends, Turn
<1>13. Cells'
  <2> SUFFICES ASSUME NEW q \in (Hi + 1) - QCapacity .. Hi
               PROVE  /\ q >= Lo => (Free(q) \/ Ready(q))'
                      /\ q < Lo => Cell(qElem', q).state = Turn(q + 1) \/ Cleared(q)'
    BY <1>2, <1>5 DEF Cells, Cell, Turn
  <2>1. CASE q = Hi
    <3>1. Cell(qElem, q).state = Turn(q)
      BY <1>3, <2>1 DEF Free
    <3>2. Free(q)'
      BY <1>1, <3>1 DEF Free, Cell, Turn
    <3> QED BY <1>2, <2>1, <3>2
  <2>2. CASE q # Hi
    <3>1. q \in Hi - QCapacity .. Hi - 1
      BY <1>2, <2>2
    <3>2. /\ q >= Lo => Free(q) \/ Ready(q)
          /\ q < Lo => Cell(qElem, q).state = Turn(q + 1) \/ Cleared(q)
      BY <3>1 DEF QInv, Cells
    <3>3. q >= Lo => Nth(q)' = Nth(q)
      BY <1>2, <1>7, <3>1
    <3> QED BY <1>1, <3>2, <3>3 DEF Free, Ready, Cleared, Cell, Turn
  <2> QED BY <2>1, <2>2
<1>14. ASSUME NEW u \in QThreads, u # t, qPc[u] = "pushStore" PROVE qIndex[u] # Turn(h)
  <2>1. PICK p \in Lo .. Hi - 1 : qIndex[u] = Turn(p)
    BY <1>14 DEF QInv, AtWork, Storing
  <2>2. p \in Int /\ p # h /\ -QIndexMod < p - h /\ p - h < QIndexMod
    BY <1>2, <1>4, <1>8
  <2> QED BY <2>1, <2>2, TurnsDiffer
<1>15. ClaimsDiffer'
  <2> SUFFICES ASSUME NEW s \in QThreads, NEW u \in QThreads, s # u, qPc'[s] = qPc'[u],
                      qPc'[s] \in Claims
               PROVE  qIndex'[s] # qIndex'[u]
    BY DEF ClaimsDiffer, Claims
  <2>1. CASE s = t
    BY <1>11, <1>14, <2>1 DEF LocalsKept
  <2>2. CASE u = t
    BY <1>11, <1>14, <2>2 DEF LocalsKept
  <2>3. CASE s # t /\ u # t
    BY <1>11, <2>3 DEF LocalsKept, QInv, ClaimsDiffer
  <2> QED BY <2>1, <2>2, <2>3
<1>16. ASSUME NEW u \in QThreads, u # t PROVE AtWork(u)'
  <2>1. AtWork(u) /\ LocalsKept(u)
    BY <1>11, <1>16 DEF QInv
  <2>2. qPc[u] \in {"push", "pushCas"} => TriesPush(u)'
    <3> SUFFICES ASSUME qPc[u] \in {"push", "pushCas"} PROVE TriesPush(u)'
      OBVIOUS
    <3>1. PICK p \in QStart .. Hi : qIndex[u] = Turn(p)
      BY <2>1 DEF AtWork, TriesPush
    <3>2. p \in QStart .. Hi + 1 /\ p # Hi + 1
      BY <1>2
    <3> QED BY <1>5, <2>1, <3>1, <3>2 DEF TriesPush, Turn, LocalsKept
  <2>3. qPc[u] = "pushStore" => Storing(u)'
    <3> SUFFICES ASSUME qPc[u] = "pushStore" PROVE Storing(u)'
      OBVIOUS
    <3>1. PICK p \in Lo .. Hi - 1 : qIndex[u] = Turn(p) /\ qTask[u] = Nth(p) /\ Free(p)
      BY <2>1 DEF AtWork, Storing
    <3>2. p \in Lo .. (Hi + 1) - 1 /\ p \in QStart .. Hi - 1
      BY <1>2
    <3>3. Nth(p)' = Nth(p)
      BY <1>7, <3>2
    <3> QED BY <1>1, <1>5, <2>1, <3>1, <3>2, <3>3 DEF Storing, Free, Cell, Turn, LocalsKept
  <2>4. qPc[u] \in {"pop", "popCas"} => TriesPop(u)'
    BY <1>1, <1>5, <2>1 DEF AtWork, TriesPop, Cell, Turn, LocalsKept
  <2>5. qPc[u] = "popStore" => Clearing(u)'
    <3> SUFFICES ASSUME qPc[u] = "popStore" PROVE Clearing(u)'
      OBVIOUS
    <3>1. PICK p \in Hi - QCapacity .. Lo - 1 :
            p >= QStart /\ qRank[u] = (p - QStart) + 1 /\ qIndex[u] = Turn(p) /\ Ready(p)
      BY <2>1 DEF AtWork, Clearing
    <3>2. p # Hi - QCapacity
      BY <1>4, <3>1 DEF Ready
    <3>3. p \in (Hi + 1) - QCapacity .. Lo - 1 /\ p \in QStart .. Hi - 1
      BY <1>2, <3>1, <3>2
    <3>4. Nth(p)' = Nth(p)
      BY <1>7, <3>3
    <3> QED BY <1>1, <1>5, <2>1, <3>1, <3>3, <3>4 DEF Clearing, Ready, Cell, Turn, LocalsKept
  <2>6. qPc[u] = "sizeBack" => LooksFront(u)'
    <3> SUFFICES ASSUME qPc[u] = "sizeBack" PROVE LooksFront(u)'
      OBVIOUS
    <3>1. PICK p \in QStart .. Hi : qIndex[u] = Turn(p)
      BY <2>1 DEF AtWork, LooksFront
    <3>2. p \in QStart .. Hi + 1
      BY <1>2
    <3> QED BY <1>5, <2>1, <3>1, <3>2 DEF LooksFront, Turn, LocalsKept
  <2>7. qPc[u] = "sizeFront" => LooksBack(u)'
    <3> SUFFICES ASSUME qPc[u] = "sizeFront" PROVE LooksBack(u)'
      OBVIOUS
    <3>1. PICK p \in QStart .. Hi, q \in QStart .. Lo :
            qIndex[u] = Turn(p) /\ qOther[u] = Turn(q)
      BY <2>1 DEF AtWork, LooksBack
    <3>2. p \in QStart .. Hi + 1 /\ p # Hi + 1
      BY <1>2
    <3> QED BY <1>5, <2>1, <3>1, <3>2 DEF LooksBack, Turn, LocalsKept
  <2>8. qPc[u] = "sizeKnown" => Knows(u)'
    BY <2>1 DEF AtWork, Knows, Turn, LocalsKept
  <2>9. qReal'[u] <= (Hi - Lo)'
    <3>1. qReal[u] \in Int /\ qReal[u] <= Hi - Lo
      BY <2>1 DEF AtWork, QInv, QTypes
    <3> QED BY <1>2, <1>5, <2>1, <3>1 DEF LocalsKept
  <2> QED BY <2>1, <2>2, <2>3, <2>4, <2>5, <2>6, <2>7, <2>8, <2>9 DEF AtWork, LocalsKept
<1>17. AtWork(t)'
  <2>1. Storing(t)'
    <3>1. h \in Lo .. (Hi + 1) - 1
      BY <1>2, <1>8
    <3>2. Cell(qElem, h).state = Turn(h)
      BY <1>3, <1>8 DEF Free
    <3> QED BY <1>1, <1>5, <1>9, <1>11, <3>1, <3>2 DEF Storing, Free, Cell, Turn
  <2>2. qReal'[t] <= (Hi - Lo)'
    <3>1. qReal[t] \in Int /\ qReal[t] <= Hi - Lo
      BY DEF AtWork, QInv, QTypes
    <3> QED BY <1>1, <1>2, <1>5, <3>1
  <2> QED BY <1>11, <2>1, <2>2 DEF AtWork
<1> QED BY <1>10, <1>12, <1>13, <1>15, <1>16, <1>17 DEF QInv

\* PopBack claims the oldest position.
LEMMA PopCasStep ==
  ASSUME FewerThanIndices, QInv, NEW t \in QThreads, Q!PopCas(t), qBack = qIndex[t]
  PROVE  QInv'
<1>1. /\ qPc[t] = "popCas" /\ qBack' = Q!Plus(qBack, 1) /\ qTaken' = qTaken + 1
      /\ qRank' = [qRank EXCEPT ![t] = qTaken + 1]
      /\ qPc' = [qPc EXCEPT ![t] = "popStore"]
      /\ UNCHANGED <<qIndex, qFront, qElem, qTask, qOther, qPushed, qOrder>>
      /\ qReal' = [s \in QThreads |->
                     IF Len(qOrder) - qTaken' < qReal[s] THEN Len(qOrder) - qTaken' ELSE qReal[s]]
  BY DEF Q!PopCas, Q!Goto
<1>2. /\ Hi \in Int /\ Lo \in Int /\ QStart \in Int /\ QCapacity \in Int /\ QIndexMod \in Int
      /\ QStart <= Lo /\ Hi <= Lo + QCapacity /\ QIndexMod > QCapacity /\ QCapacity > 2
      /\ qTaken \in Nat /\ Len(qOrder) \in Nat
  BY EndTypes, QBounds
<1>3. qIndex[t] = Turn(Lo) /\ Lo < Hi /\ Ready(Lo) /\ ~Free(Lo)
  BY <1>1, BackClaimed, ReadyAhead
<1>4. Hi' = Hi /\ Lo' = Lo + 1 /\ \A p : Nth(p)' = Nth(p)
  BY <1>1, EndTypes, QBounds DEF Hi, Lo, Nth
<1>5. PICK l \in Int : l = Lo
  BY <1>2
<1>6. Cell(qElem, l).state = Turn(l + 1) /\ Cell(qElem, l).task = Nth(l)
  BY <1>3, <1>5 DEF Ready
<1>7. ASSUME NEW s \in QThreads
      PROVE  qReal'[s] \in Int /\ qReal'[s] <= qReal[s] /\ qReal'[s] <= Hi - (Lo + 1)
  <2>1. Len(qOrder) - (qTaken + 1) = Hi - (Lo + 1)
    BY <1>2 DEF Hi, Lo
  <2>2. qReal[s] \in Int
    BY DEF QInv, QTypes
  <2> QED BY <1>1, <1>2, <2>1, <2>2
<1>8. QTypes'
  <2>1. qBack' \in 0 .. QIndexMod - 1
    <3>1. PICK d \in Int : d = Lo + 1
      BY <1>2
    <3>2. qBack' = Turn(d)
      BY <1>1, <1>2, <1>3, <3>1, TurnPlus, ReadsEnd
    <3> QED BY <3>2, TurnType
  <2>2. qReal' \in [QThreads -> Int]
    BY <1>1, <1>7
  <2>3. qRank' \in [QThreads -> Int]
    BY <1>1, <1>2 DEF QInv, QTypes
  <2> QED BY <1>1, <2>1, <2>2, <2>3 DEF QInv, QTypes, QPcs
<1>9. /\ qPc'[t] = "popStore" /\ qIndex'[t] = Turn(l) /\ qRank'[t] = (l - QStart) + 1
      /\ \A u \in QThreads : u # t => qPc'[u] = qPc[u] /\ qRank'[u] = qRank[u]
  <2>1. (l - QStart) + 1 = qTaken + 1
    BY <1>2, <1>5 DEF Lo
  <2> QED BY <1>1, <1>3, <1>5, <2>1 DEF QInv, QTypes
<1>10. Ends'
  <2>1. qFront' = Turn(Hi) /\ qBack' = Turn(Lo + 1)
    BY <1>1, <1>2, <1>3, TurnPlus, ReadsEnd
  <2>2. Pushers' = Pushers
    BY <1>1 DEF Pushers, QInv, QTypes
  <2>3. (Cardinality(Pushers))' = Cardinality(Pushers)
    BY <2>2
  <2>4. Lo + 1 <= Hi /\ Hi <= (Lo + 1) + QCapacity
    BY <1>2, <1>3
  <2>5. Len(qOrder) + Cardinality(Pushers) <= qPushed
    BY DEF QInv, Ends
  <2> QED BY <1>1, <1>4, <2>1, <2>3, <2>4, <2>5 DEF Ends, Turn
<1>11. Cells'
  <2> SUFFICES ASSUME NEW q \in Hi - QCapacity .. Hi - 1
               PROVE  /\ q >= Lo + 1 => (Free(q) \/ Ready(q))'
                      /\ q < Lo + 1 => Cell(qElem', q).state = Turn(q + 1) \/ Cleared(q)'
    BY <1>2, <1>4 DEF Cells, Cell, Turn
  <2>1. /\ q >= Lo => Free(q) \/ Ready(q)
        /\ q < Lo => Cell(qElem, q).state = Turn(q + 1) \/ Cleared(q)
    BY DEF QInv, Cells
  <2>2. q >= Lo + 1 => (Free(q) \/ Ready(q))'
    BY <1>1, <1>2, <1>4, <2>1 DEF Free, Ready, Cell, Turn
  <2>3. q < Lo + 1 => Cell(qElem', q).state = Turn(q + 1) \/ Cleared(q)'
    <3>1. q < Lo + 1 => q < Lo \/ q = l
      BY <1>2, <1>5
    <3> QED BY <1>1, <1>6, <2>1, <3>1 DEF Cleared, Cell, Turn
  <2> QED BY <2>2, <2>3
<1>12. ASSUME NEW u \in QThreads, u # t, qPc[u] = "popStore" PROVE qIndex[u] # Turn(l)
  <2>1. PICK p \in Hi - QCapacity .. Lo - 1 : qIndex[u] = Turn(p)
    BY <1>12 DEF QInv, AtWork, Clearing
  <2>2. p \in Int /\ p # l /\ -QIndexMod < p - l /\ p - l < QIndexMod
    BY <1>2, <1>3, <1>5
  <2> QED BY <2>1, <2>2, TurnsDiffer
<1>13. ClaimsDiffer'
  <2> SUFFICES ASSUME NEW s \in QThreads, NEW u \in QThreads, s # u, qPc'[s] = qPc'[u],
                      qPc'[s] \in Claims
               PROVE  qIndex'[s] # qIndex'[u]
    BY DEF ClaimsDiffer, Claims
  <2>1. CASE s = t
    BY <1>1, <1>9, <1>12, <2>1
  <2>2. CASE u = t
    BY <1>1, <1>9, <1>12, <2>2
  <2>3. CASE s # t /\ u # t
    BY <1>1, <1>9, <2>3 DEF QInv, ClaimsDiffer
  <2> QED BY <2>1, <2>2, <2>3
<1>14. ASSUME NEW u \in QThreads, u # t PROVE AtWork(u)'
  <2>1. AtWork(u) /\ qPc'[u] = qPc[u] /\ qRank'[u] = qRank[u]
    BY <1>9, <1>14 DEF QInv
  <2>2. qPc[u] \in {"push", "pushCas"} => TriesPush(u)'
    BY <1>1, <1>4, <2>1 DEF AtWork, TriesPush, Free, Cell, Turn
  <2>3. qPc[u] = "pushStore" => Storing(u)'
    <3> SUFFICES ASSUME qPc[u] = "pushStore" PROVE Storing(u)'
      OBVIOUS
    <3>1. PICK p \in Lo .. Hi - 1 : qIndex[u] = Turn(p) /\ qTask[u] = Nth(p) /\ Free(p)
      BY <2>1 DEF AtWork, Storing
    <3>2. p # Lo
      BY <1>3, <3>1 DEF Free
    <3>3. p \in Lo + 1 .. Hi - 1
      BY <1>2, <3>2
    <3> QED BY <1>1, <1>4, <2>1, <3>1, <3>3 DEF Storing, Free, Cell, Turn
  <2>4. qPc[u] \in {"pop", "popCas"} => TriesPop(u)'
    <3> SUFFICES ASSUME qPc[u] \in {"pop", "popCas"} PROVE TriesPop(u)'
      OBVIOUS
    <3>1. PICK p \in QStart .. Lo : qIndex[u] = Turn(p)
      BY <2>1 DEF AtWork, TriesPop
    <3>2. p \in QStart .. Lo + 1 /\ p # Lo + 1
      BY <1>2
    <3> QED BY <1>1, <1>4, <2>1, <3>1, <3>2 DEF TriesPop, Turn
  <2>5. qPc[u] = "popStore" => Clearing(u)'
    <3> SUFFICES ASSUME qPc[u] = "popStore" PROVE Clearing(u)'
      OBVIOUS
    <3>1. PICK p \in Hi - QCapacity .. Lo - 1 :
            p >= QStart /\ qRank[u] = (p - QStart) + 1 /\ qIndex[u] = Turn(p) /\ Ready(p)
      BY <2>1 DEF AtWork, Clearing
    <3>2. p \in Hi - QCapacity .. (Lo + 1) - 1
      BY <1>2
    <3> QED BY <1>1, <1>4, <2>1, <3>1, <3>2 DEF Clearing, Ready, Cell, Turn
  <2>6. qPc[u] = "sizeBack" => LooksFront(u)'
    BY <1>1, <1>4, <2>1 DEF AtWork, LooksFront, Turn
  <2>7. qReal'[u] \in Int /\ qReal[u] \in Int /\ qReal'[u] <= qReal[u]
    BY <1>7 DEF QInv, QTypes
  <2>8. qPc[u] = "sizeFront" => LooksBack(u)'
    <3> SUFFICES ASSUME qPc[u] = "sizeFront" PROVE LooksBack(u)'
      OBVIOUS
    <3>1. PICK p \in QStart .. Hi, q \in QStart .. Lo :
            /\ qIndex[u] = Turn(p) /\ qOther[u] = Turn(q)
            /\ p = Hi => p - q <= QCapacity /\ qReal[u] <= p - q
      BY <2>1 DEF AtWork, LooksBack
    <3>2. q \in QStart .. Lo + 1
      BY <1>2
    <3>3. p = Hi => p - q <= QCapacity /\ qReal'[u] <= p - q
      BY <1>2, <2>7, <3>1
    <3> QED BY <1>1, <1>4, <3>1, <3>2, <3>3 DEF LooksBack, Turn
  <2>9. qPc[u] = "sizeKnown" => Knows(u)'
    <3> SUFFICES ASSUME qPc[u] = "sizeKnown" PROVE Knows(u)'
      OBVIOUS
    <3>1. PICK p \in Int, q \in Int :
            /\ qIndex[u] = Turn(p) /\ qOther[u] = Turn(q)
            /\ q <= p /\ p - q <= QCapacity /\ qReal[u] <= p - q
      BY <2>1 DEF AtWork, Knows
    <3>2. qReal'[u] <= p - q
      BY <2>7, <3>1
    <3> QED BY <1>1, <3>1, <3>2 DEF Knows, Turn
  <2>10. qReal'[u] <= (Hi - Lo)'
    BY <1>4, <1>7
  <2> QED BY <2>1, <2>2, <2>3, <2>4, <2>5, <2>6, <2>8, <2>9, <2>10 DEF AtWork
<1>15. AtWork(t)'
  <2>1. Clearing(t)'
    <3>1. l \in Hi - QCapacity .. (Lo + 1) - 1 /\ l >= QStart
      BY <1>2, <1>5
    <3> QED BY <1>1, <1>4, <1>6, <1>9, <3>1 DEF Clearing, Ready, Cell, Turn
  <2>2. qReal'[t] <= (Hi - Lo)'
    BY <1>4, <1>7
  <2> QED BY <1>9, <2>1, <2>2 DEF AtWork
<1> QED BY <1>8, <1>10, <1>11, <1>13, <1>14, <1>15 DEF QInv

-------------------------------------------------------------------------------
(***************************************************************************)
(* The invariant holds.                                                    *)
(***************************************************************************)
LEMMA SmallRemainder ==
  ASSUME NEW n \in Nat \ {0}, NEW m \in 0 .. n - 1
  PROVE  m % n = m
BY SMT

\* At the start every element is free for its next turn.
LEMMA FirstTurns ==
  ASSUME FewerThanIndices, NEW p \in QStart - QCapacity .. QStart - 1
  PROVE  Q!FirstTicket(p % QCapacity) = Turn(p + QCapacity)
<1>1. PICK i \in Int : i = p % QCapacity
  BY TurnCell, QBounds DEF Q!Slots
<1>2. i % QCapacity = p % QCapacity
  <2>1. p \in Int /\ QCapacity \in Nat \ {0}
    BY QBounds
  <2> QED BY <1>1, <2>1, RemainderRange
<1>3. PICK c \in Int : c = -QStart
  BY QBounds
<1>4. (i + c) % QCapacity = (p + c) % QCapacity
  BY <1>2, <1>3, QBounds, SameRemainderPlus
<1>5. PICK d \in Int : d = (p + c) + QCapacity
  BY <1>3, QBounds
<1>6. (d - QCapacity) % QCapacity = d % QCapacity
  BY <1>5, CellRound
<1>7. d \in 0 .. QCapacity - 1 /\ d - QCapacity = p + c
  BY <1>3, <1>5, QBounds
<1>8. d % QCapacity = d
  BY <1>7, QBounds, SmallRemainder
<1>9. i - QStart = i + c /\ QStart + d = p + QCapacity
  BY <1>1, <1>3, <1>5, QBounds
<1>10. (i - QStart) % QCapacity = d
  BY <1>4, <1>6, <1>7, <1>8, <1>9
<1> QED BY <1>1, <1>9, <1>10 DEF Q!FirstTicket, Turn

\* The queue begins in the invariant, whatever index it begins with.
LEMMA QInitInv ==
  ASSUME FewerThanIndices, Q!Init
  PROVE  QInv
<1>1. /\ qFront = QStart % QIndexMod /\ qBack = QStart % QIndexMod
      /\ qElem = [i \in Q!Slots |-> [state |-> Q!FirstTicket(i), task |-> 0]]
      /\ qPc = [t \in QThreads |-> "idle"] /\ qTask = [t \in QThreads |-> 0]
      /\ qIndex = [t \in QThreads |-> 0] /\ qOther = [t \in QThreads |-> 0]
      /\ qPushed = 0 /\ qOrder = <<>> /\ qTaken = 0
      /\ qRank = [t \in QThreads |-> 0] /\ qReal = [t \in QThreads |-> 0]
  BY DEF Q!Init
<1>2. Hi = QStart /\ Lo = QStart /\ Len(qOrder) = 0
  BY <1>1, QBounds DEF Hi, Lo
<1>3. ASSUME NEW i \in Q!Slots PROVE Q!FirstTicket(i) \in 0 .. QIndexMod - 1
  <2>1. (i - QStart) % QCapacity \in Int
    BY QBounds, DivMod DEF Q!Slots
  <2>2. QStart + ((i - QStart) % QCapacity) \in Int
    BY <2>1, QBounds
  <2> QED BY <2>2, QBounds, DivMod DEF Q!FirstTicket
<1>4. QTypes
  <2>1. 0 \in 0 .. QIndexMod - 1 /\ 0 \in 0 .. QMaxPush /\ 0 \in Nat
    BY QBounds
  <2>2. qElem \in [Q!Slots -> ElemType]
    BY <1>1, <1>3, <2>1 DEF ElemType
  <2>3. qOrder \in Seq(0 .. QMaxPush)
    BY <1>1
  <2>4. QStart % QIndexMod \in 0 .. QIndexMod - 1
    <3>1. QStart \in Int
      BY QBounds
    <3> QED BY <3>1, TurnType DEF Turn
  <2> QED BY <1>1, <2>1, <2>2, <2>3, <2>4 DEF QTypes, QPcs
<1>5. Ends
  <2>1. Pushers = {}
    BY <1>1 DEF Pushers
  <2>2. Cardinality(Pushers) = 0
    BY <2>1, FS_EmptySet
  <2> QED BY <1>1, <1>2, <2>2, QBounds DEF Ends, Turn
<1>6. Cells
  <2> SUFFICES ASSUME NEW p \in QStart - QCapacity .. QStart - 1 PROVE p < QStart /\ Cleared(p)
    BY <1>2, QBounds DEF Cells
  <2>1. p % QCapacity \in Q!Slots
    BY QBounds, TurnCell
  <2> QED BY <1>1, <2>1, FirstTurns, QBounds DEF Cleared, Cell
<1>7. ClaimsDiffer
  BY <1>1 DEF ClaimsDiffer, Claims
<1>8. ASSUME NEW t \in QThreads PROVE AtWork(t)
  BY <1>1, <1>2, QBounds DEF AtWork
<1> QED BY <1>4, <1>5, <1>6, <1>7, <1>8 DEF QInv

\* A failed exchange of mBack changes no smallest number: none is larger than
\* the present number of tasks.
LEMMA PopCasAgain ==
  ASSUME FewerThanIndices, QInv, NEW t \in QThreads, Q!PopCas(t), qBack # qIndex[t]
  PROVE  QInv'
<1>1. /\ qPc[t] = "popCas" /\ qIndex' = [qIndex EXCEPT ![t] = qBack]
      /\ qPc' = [qPc EXCEPT ![t] = "pop"]
      /\ UNCHANGED <<qFront, qBack, qElem, qTask, qOther, qPushed, qOrder, qTaken, qRank>>
      /\ qReal' = [s \in QThreads |->
                     IF Len(qOrder) - qTaken' < qReal[s] THEN Len(qOrder) - qTaken' ELSE qReal[s]]
  BY DEF Q!PopCas, Q!Goto, Q!Load
<1>2. ASSUME NEW s \in QThreads PROVE ~(Len(qOrder) - qTaken < qReal[s])
  <2>1. Len(qOrder) - qTaken = Hi - Lo /\ Hi - Lo \in Int
    BY EndTypes, QBounds DEF Hi, Lo
  <2>2. qReal[s] <= Hi - Lo /\ qReal[s] \in Int
    BY DEF QInv, AtWork, QTypes
  <2> QED BY <2>1, <2>2
<1>3. qReal \in [QThreads -> Int]
  BY DEF QInv, QTypes
<1>4. qReal' = qReal
  BY <1>1, <1>2, <1>3, Zenon
<1> QED BY <1>1, <1>4, ReloadLocal

\* Every step keeps the invariant.
LEMMA QStepInv ==
  ASSUME FewerThanIndices, QInv, [Q!Next]_(Q!vars)
  PROVE  QInv'
<1>1. CASE UNCHANGED Q!vars
  BY <1>1 DEF Q!vars, QInv, QTypes, Ends, Cells, ClaimsDiffer, AtWork, TriesPush, Storing,
     TriesPop, Clearing, LooksFront, LooksBack, Knows, Free, Ready, Cleared, Cell, Nth,
     Turn, Hi, Lo, Pushers
<1>2. CASE Q!Next
  <2>1. PICK t \in QThreads : \/ Q!PushFront(t) \/ Q!PopBack(t) \/ Q!Size(t)
                              \/ Q!CallStep(t)
    BY <1>2, Zenon DEF Q!Next
  <2>2. CASE Q!PushFront(t)
    BY <2>2, PushFrontLocal
  <2>3. CASE Q!PopBack(t)
    BY <2>3, ReloadLocal DEF Q!PopBack, Q!Load, Q!Goto, Q!shared, Q!history
  <2>4. CASE Q!Size(t) \/ Q!SizeBack(t) \/ Q!SizeFront(t) \/ Q!SizeReturn(t)
    BY <2>4, SizeLocal
  <2>5. CASE Q!PushLoad(t)
    BY <2>5, PushLoadLocal
  <2>6. CASE Q!PushCas(t)
    <3>1. CASE qFront = qIndex[t]
      BY <2>6, <3>1, PushCasStep
    <3>2. CASE qFront # qIndex[t]
      BY <2>6, <3>2, ReloadLocal DEF Q!PushCas, Q!Load, Q!Goto
    <3> QED BY <3>1, <3>2
  <2>7. CASE Q!PushStore(t)
    BY <2>7, PushStoreStep
  <2>8. CASE Q!PopLoad(t)
    BY <2>8, PopLoadLocal
  <2>9. CASE Q!PopCas(t)
    BY <2>9, PopCasStep, PopCasAgain
  <2>10. CASE Q!PopStore(t)
    BY <2>10, PopStoreStep
  <2> QED BY <2>1, <2>2, <2>3, <2>4, <2>5, <2>6, <2>7, <2>8, <2>9, <2>10
          DEF Q!CallStep, Q!PushStep, Q!PopStep, Q!SizeStep
<1> QED BY <1>1, <1>2

\* The invariant of TaskQueue: whichever threads race for mFront and mBack, the
\* tickets say which of the last QCapacity positions are filled.
THEOREM QueueInvariant ==
  ASSUME FewerThanIndices
  PROVE  Q!Spec => []QInv
<1>1. Q!Init => QInv
  BY QInitInv
<1>2. QInv /\ [Q!Next]_(Q!vars) => QInv'
  BY QStepInv
<1> QED BY <1>1, <1>2, PTL DEF Q!Spec

\* SizeResult is the difference of the positions of the two ends it has read.
LEMMA SizeOfPositions ==
  ASSUME FewerThanIndices, NEW i, NEW o, NEW p \in Int, NEW q \in Int,
         i = Turn(p), o = Turn(q), q <= p, p - q <= QCapacity
  PROVE  (i - o) % QIndexMod = p - q
<1>1. PICK a \in Int, b \in Int : a = i /\ b = o
  BY TurnType, QBounds
<1>2. a % QIndexMod = p % QIndexMod /\ b % QIndexMod = q % QIndexMod
  BY <1>1, TurnType DEF Turn
<1>3. PICK c \in Int : c = -b
  BY <1>1
<1>4. (a + c) % QIndexMod = (p + c) % QIndexMod
  BY <1>2, QBounds, SameRemainderPlus
<1>5. PICK d \in Int : d = p + c - q
  BY <1>3
<1>6. (b + d) % QIndexMod = (q + d) % QIndexMod
  BY <1>2, QBounds, SameRemainderPlus
<1>7. b + d = p - q /\ q + d = p + c /\ a + c = a - b
  BY <1>1, <1>3, <1>5
<1>8. PICK m \in Int : m = p - q
  OBVIOUS
<1>9. m \in 0 .. QIndexMod - 1
  BY <1>8, QBounds
<1>10. m % QIndexMod = m
  BY <1>9, QBounds, SmallRemainder
<1> QED BY <1>1, <1>4, <1>6, <1>7, <1>8, <1>10

\* The invariant implies both properties.
LEMMA QInvHolds ==
  ASSUME FewerThanIndices, QInv
  PROVE  Q!FirstInFirstOut /\ Q!SizeNeverSmaller
<1>1. Q!FirstInFirstOut
  <2> SUFFICES ASSUME NEW t \in QThreads, qPc[t] = "popStore"
               PROVE  /\ qRank[t] <= Len(qOrder)
                      /\ qElem[Q!At(qIndex[t])].task = qOrder[qRank[t]]
    BY DEF Q!FirstInFirstOut
  <2>1. PICK p \in Hi - QCapacity .. Lo - 1 :
          p >= QStart /\ qRank[t] = (p - QStart) + 1 /\ qIndex[t] = Turn(p) /\ Ready(p)
    BY DEF QInv, AtWork, Clearing
  <2>2. p \in Int /\ (p - QStart) + 1 <= Len(qOrder)
    BY EndTypes, QBounds
  <2>3. Q!At(Turn(p)) = p % QCapacity
    BY <2>2, TurnCell
  <2> QED BY <2>1, <2>2, <2>3 DEF Ready, Cell, Nth
<1>2. Q!TypeOK
  <2>1. qTaken <= QMaxPush
    BY EndTypes, QBounds DEF Hi, Lo
  <2>2. qTaken \in 0 .. QMaxPush
    BY <2>1, EndTypes, QBounds
  <2> QED BY <2>2 DEF Q!TypeOK, QInv, QTypes, ElemType
<1>3. ASSUME NEW t \in QThreads, qPc[t] = "sizeKnown"
      PROVE  Q!SizeResult(t) >= qReal[t]
  <2>1. PICK p \in Int, q \in Int :
          /\ qIndex[t] = Turn(p) /\ qOther[t] = Turn(q)
          /\ q <= p /\ p - q <= QCapacity /\ qReal[t] <= p - q
    BY <1>3 DEF QInv, AtWork, Knows
  <2>2. (qIndex[t] - qOther[t]) % QIndexMod = p - q
    BY <2>1, SizeOfPositions
  <2>3. qReal[t] \in Int /\ QCapacity \in Int
    BY QBounds DEF QInv, QTypes
  <2>4. p - q >= qReal[t] /\ QCapacity >= qReal[t]
    BY <2>1, <2>3
  <2> QED BY <2>2, <2>4 DEF Q!SizeResult
<1> QED BY <1>1, <1>2, <1>3 DEF Q!SizeNeverSmaller

\* The n-th PopBack to claim an element finds in it the task of the n-th PushFront,
\* and Size is at least the smallest number of tasks the queue had during the call,
\* for every number of threads, capacity and first index.
THEOREM QueueIsFirstInFirstOut ==
  ASSUME FewerThanIndices
  PROVE  Q!Spec => [](Q!FirstInFirstOut /\ Q!SizeNeverSmaller)
<1>1. QInv => Q!FirstInFirstOut /\ Q!SizeNeverSmaller
  BY QInvHolds
<1> QED BY <1>1, QueueInvariant, PTL
===============================================================================
