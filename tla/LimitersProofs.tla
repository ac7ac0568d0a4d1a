---------------------------- MODULE LimitersProofs ----------------------------
(***************************************************************************)
(* Theorems about Limiters, for any finite set of callers, any limits and  *)
(* any number of rejected commands, untimely lapses and crashes.           *)
(***************************************************************************)
EXTENDS Limiters, FiniteSetTheorems, TLAPS

\* The type invariant in parts, with what the place of a call says about it.
Places == {"idle", "incr", "expire", "expireOver", "undoOwn", "undo", "ttl", "request",
           "release", "reset", "passed", "refused"}

CountersOK ==
  /\ count \in [Keys -> Int]
  /\ life \in [Keys -> {"absent", "lasting", "expiring"}]
  /\ \A k \in Keys : life[k] = "absent" => count[k] = 0

HistoryOK ==
  /\ spent \in [Keys -> SUBSET Callers] /\ dead \in SUBSET Callers
  /\ troubles \in 0 .. MaxTroubles /\ faults \in Nat /\ lapses \in Nat
  /\ faults + lapses <= troubles

VarsOK ==
  /\ asks \in [Callers -> Limiter] /\ pc \in [Callers -> Places]
  /\ scope \in [Callers -> Positions]
  /\ held \in [Callers -> SUBSET Positions] /\ rest \in [Callers -> SUBSET Positions]

\* A call of the limiter that pc says, at one of its scopes.
CallOK(c) ==
  /\ pc[c] \in {"incr", "expire", "expireOver", "undoOwn", "reset"}
       => scope[c] \in ScopesToCheck(c, asks[c])
  /\ pc[c] \in {"incr", "expire", "expireOver", "undoOwn", "undo", "ttl"}
       => \A j \in held[c] : j < scope[c]
  /\ held[c] \cup rest[c] \subseteq ScopesToCheck(c, asks[c])
  /\ pc[c] \in {"expireOver", "request", "release", "reset"} => asks[c] = "conc"
  /\ pc[c] \in {"undoOwn", "undo"} => asks[c] # "gate"
  /\ pc[c] = "ttl" => asks[c] = "rate"
  /\ pc[c] = "reset" => scope[c] \notin rest[c]

TypeInv == CountersOK /\ HistoryOK /\ VarsOK /\ \A c \in Callers : CallOK(c)

\* A limiter has at most five scopes, of different names.
LEMMA ScopesDiffer ==
  ASSUME NEW limiter \in Limiter
  PROVE  /\ Len(Scopes(limiter)) \in 1 .. 5
         /\ \A i, j \in 1 .. Len(Scopes(limiter)) : Scopes(limiter)[i] = Scopes(limiter)[j] => i = j
<1>1. CASE limiter = "rate" BY <1>1 DEF Scopes
<1>2. CASE limiter = "conc" BY <1>2 DEF Scopes
<1>3. CASE limiter = "gate" BY <1>3 DEF Scopes
<1> QED BY <1>1, <1>2, <1>3 DEF Limiter

\* So the counters of one call differ, and are those of the limiter it asks.
LEMMA KeysDiffer ==
  ASSUME NEW c \in Callers, NEW limiter \in Limiter
  PROVE  /\ ScopesToCheck(c, limiter) \subseteq Positions
         /\ \A i \in ScopesToCheck(c, limiter) :
              KeyOf(c, limiter, i) \in Keys /\ KeyOf(c, limiter, i).limiter = limiter
         /\ \A i, j \in ScopesToCheck(c, limiter) :
              KeyOf(c, limiter, i) = KeyOf(c, limiter, j) => i = j
<1>1. ScopesToCheck(c, limiter) \subseteq Positions BY ScopesDiffer DEF ScopesToCheck, Positions
<1>2. \A i : KeyOf(c, limiter, i).limiter = limiter /\ KeyOf(c, limiter, i).scope = Scopes(limiter)[i]
  BY DEF KeyOf
<1>3. \A i, j \in ScopesToCheck(c, limiter) :
        KeyOf(c, limiter, i) = KeyOf(c, limiter, j) => i = j
  BY <1>2, ScopesDiffer DEF ScopesToCheck
<1>4. \A i \in ScopesToCheck(c, limiter) : KeyOf(c, limiter, i) \in Keys
  BY DEF ScopesToCheck
<1> QED BY <1>1, <1>2, <1>3, <1>4

-----------------------------------------------------------------------------
(* The ways a call takes. *)

OthersStay(c) ==
  \A d \in Callers \ {c} :
    /\ asks'[d] = asks[d] /\ pc'[d] = pc[d] /\ scope'[d] = scope[d]
    /\ held'[d] = held[d] /\ rest'[d] = rest[d]

IsAt(c, limiter, place, i, got, back) ==
  /\ asks'[c] = limiter /\ pc'[c] = place /\ scope'[c] = i /\ held'[c] = got /\ rest'[c] = back

LEMMA AtLemma ==
  ASSUME VarsOK, NEW c \in Callers, NEW limiter \in Limiter, NEW place \in Places, NEW i \in Positions,
         NEW got \in SUBSET Positions, NEW back \in SUBSET Positions,
         At(c, limiter, place, i, got, back)
  PROVE  VarsOK' /\ OthersStay(c) /\ IsAt(c, limiter, place, i, got, back)
  BY DEF VarsOK, At, OthersStay, IsAt

\* Going on from a scope: to the next one, to the concurrency limiter, or through.
GoesOn(c, limiter, got) ==
  /\ asks'[c] \in {limiter, "conc", "gate"} /\ rest'[c] = {}
  /\ pc'[c] \in {"incr", "request", "passed"}
  /\ pc'[c] = "incr" => scope'[c] \in ScopesToCheck(c, asks'[c]) /\ \A j \in held'[c] : j < scope'[c]
  /\ pc'[c] = "request" => asks'[c] = "conc"
  /\ pc'[c] = "passed" => limiter = "gate"
  /\ asks'[c] # "gate" \/ limiter = "gate"
  /\ asks'[c] = limiter /\ pc'[c] # "passed" => held'[c] = got
  /\ asks'[c] # limiter \/ pc'[c] = "passed" => held'[c] = {}

LEMMA AskLemma ==
  ASSUME VarsOK, NEW c \in Callers, NEW limiter \in {"gate", "conc"}, NEW i \in Nat,
         NEW got \in SUBSET ScopesToCheck(c, limiter), \A j \in got : j <= i,
         Ask(c, limiter, i, got)
  PROVE  VarsOK' /\ OthersStay(c) /\ GoesOn(c, limiter, got)
<1>1. limiter \in Limiter /\ got \in SUBSET Positions /\ {} \in SUBSET Positions /\ 1 \in Positions
      /\ \A j \in ToCheck(c, limiter, i) : j \in Positions /\ j > i /\ j \in ScopesToCheck(c, limiter)
  BY KeysDiffer DEF Limiter, ToCheck, Positions
<1>2. CASE \E j \in ToCheck(c, limiter, i) : At(c, limiter, "incr", j, got, {})
  <2>1. PICK j \in ToCheck(c, limiter, i) : At(c, limiter, "incr", j, got, {}) BY <1>2
  <2>2. VarsOK' /\ OthersStay(c) /\ IsAt(c, limiter, "incr", j, got, {})
    BY <1>1, <2>1, AtLemma DEF Places
  <2>3. \A m \in got : m < j BY <1>1 DEF Positions
  <2> QED BY <1>1, <2>1, <2>2, <2>3 DEF IsAt, GoesOn
<1>3. CASE limiter = "gate" /\ End(c, "passed")
  <2>1. VarsOK' /\ OthersStay(c) /\ IsAt(c, "gate", "passed", 1, {}, {})
    BY <1>1, <1>3, AtLemma DEF Places, End
  <2> QED BY <1>3, <2>1 DEF IsAt, GoesOn
<1>4. CASE limiter = "conc" /\ At(c, limiter, "request", 1, got, {})
  <2>1. VarsOK' /\ OthersStay(c) /\ IsAt(c, limiter, "request", 1, got, {})
    BY <1>1, <1>4, AtLemma DEF Places
  <2> QED BY <1>4, <2>1 DEF IsAt, GoesOn
<1> QED BY <1>2, <1>3, <1>4 DEF Ask

LEMMA OutboundLemma ==
  ASSUME VarsOK, NEW c \in Callers, NEW i \in Nat,
         NEW got \in SUBSET ScopesToCheck(c, "rate"), \A j \in got : j <= i,
         Outbound(c, i, got)
  PROVE  VarsOK' /\ OthersStay(c) /\ GoesOn(c, "rate", got)
<1>1. CASE ToCheck(c, "rate", i) # {} /\ Ask(c, "rate", i, got)
  <2>1. PICK j \in ToCheck(c, "rate", i) : At(c, "rate", "incr", j, got, {}) BY <1>1 DEF Ask
  <2>2. got \in SUBSET Positions /\ j \in Positions /\ j > i /\ j \in ScopesToCheck(c, "rate")
    BY KeysDiffer DEF ToCheck, Limiter
  <2>3. VarsOK' /\ OthersStay(c) /\ IsAt(c, "rate", "incr", j, got, {})
    BY <2>1, <2>2, AtLemma DEF Places, Limiter
  <2>4. \A m \in got : m < j BY <2>2 DEF Positions
  <2> QED BY <2>2, <2>3, <2>4 DEF IsAt, GoesOn
<1>2. CASE Ask(c, "conc", 0, {})
  <2>1. VarsOK' /\ OthersStay(c) /\ GoesOn(c, "conc", {}) BY <1>2, AskLemma
  <2> QED BY <2>1 DEF GoesOn
<1> QED BY <1>1, <1>2 DEF Outbound

LEMMA ProceedLemma ==
  ASSUME VarsOK, NEW c \in Callers, NEW got \in SUBSET ScopesToCheck(c, asks[c]),
         \A j \in got : j <= scope[c], Proceed(c, got)
  PROVE  VarsOK' /\ OthersStay(c) /\ GoesOn(c, asks[c], got)
<1>1. scope[c] \in Nat /\ asks[c] \in {"rate", "gate", "conc"}
  BY DEF VarsOK, Positions, Limiter
<1>2. CASE asks[c] = "rate"
  BY <1>1, <1>2, OutboundLemma DEF Proceed
<1>3. CASE asks[c] # "rate"
  BY <1>1, <1>3, AskLemma DEF Proceed
<1> QED BY <1>2, <1>3

LEMMA GoesOnOK ==
  ASSUME NEW c \in Callers, NEW limiter \in Limiter, NEW got \in SUBSET ScopesToCheck(c, limiter),
         GoesOn(c, limiter, got)
  PROVE  CallOK(c)'
  BY DEF GoesOn, CallOK

\* Where the other moves lead.
LEMMA GotoLemma ==
  ASSUME VarsOK, NEW c \in Callers, NEW place \in Places, NEW back \in SUBSET Positions,
         Goto(c, place, back)
  PROVE  VarsOK' /\ OthersStay(c) /\ IsAt(c, asks[c], place, scope[c], held[c], back)
  BY AtLemma DEF Goto, VarsOK

LEMMA EndLemma ==
  ASSUME VarsOK, NEW c \in Callers, NEW place \in Places, End(c, place)
  PROVE  VarsOK' /\ OthersStay(c) /\ IsAt(c, "gate", place, 1, {}, {})
<1>1. "gate" \in Limiter /\ 1 \in Positions /\ {} \in SUBSET Positions BY DEF Limiter, Positions
<1> QED BY <1>1, AtLemma DEF End

Refused(c) == \/ IsAt(c, asks[c], "ttl", scope[c], held[c], {}) /\ asks[c] = "rate"
              \/ IsAt(c, "gate", "refused", 1, {}, {}) /\ asks[c] # "rate"
LEMMA GiveBackLemma ==
  ASSUME VarsOK, NEW c \in Callers, NEW back \in SUBSET Positions, GiveBack(c, back)
  PROVE  /\ VarsOK' /\ OthersStay(c)
         /\ \/ back # {} /\ IsAt(c, asks[c], "undo", scope[c], held[c], back)
            \/ back = {} /\ Refused(c)
<1>1. CASE back # {} /\ Goto(c, "undo", back) BY <1>1, GotoLemma DEF Places
<1>2. CASE back = {} /\ asks[c] = "rate" /\ Goto(c, "ttl", {})
  BY <1>2, GotoLemma DEF Places, Refused
<1>3. CASE back = {} /\ asks[c] # "rate" /\ End(c, "refused")
  BY <1>3, EndLemma DEF Places, Refused
<1> QED BY <1>1, <1>2, <1>3 DEF GiveBack, Refuse

LEMMA ReleaseRestLemma ==
  ASSUME VarsOK, NEW c \in Callers, NEW back \in SUBSET Positions, ReleaseRest(c, back)
  PROVE  /\ VarsOK' /\ OthersStay(c)
         /\ \/ back # {} /\ IsAt(c, asks[c], "release", scope[c], held[c], back)
            \/ back = {} /\ IsAt(c, "gate", "passed", 1, {}, {})
<1>1. CASE back # {} /\ Goto(c, "release", back) BY <1>1, GotoLemma DEF Places
<1>2. CASE back = {} /\ End(c, "passed") BY <1>2, EndLemma DEF Places
<1> QED BY <1>1, <1>2 DEF ReleaseRest

Moves(c) == VarsOK' /\ OthersStay(c) /\ CallOK(c)'

\* Every action leaves its caller where a call can be.
LEMMA FailOpenMoves ==
  ASSUME VarsOK, NEW c \in Callers, CallOK(c), \A j \in held[c] : j <= scope[c], Proceed(c, held[c])
  PROVE  Moves(c)
<1>1. held[c] \in SUBSET ScopesToCheck(c, asks[c]) /\ asks[c] \in Limiter BY DEF CallOK, VarsOK
<1> QED BY <1>1, ProceedLemma, GoesOnOK DEF Moves

Act(c) ==
  \/ Begin(c) \/ IncrWithin(c) \/ IncrOver(c) \/ IncrFails(c) \/ Expire(c) \/ UndoOwn(c)
  \/ Undo(c) \/ Ttl(c) \/ Request(c) \/ Release(c) \/ Reset(c)

LEMMA ActMoves ==
  ASSUME VarsOK, NEW c \in Callers, CallOK(c), Act(c)
  PROVE  Moves(c)
<1> USE DEF Live
<1>1. /\ asks[c] \in Limiter /\ scope[c] \in Nat /\ scope[c] \in Positions
      /\ held[c] \in SUBSET Positions /\ rest[c] \in SUBSET Positions
      /\ held[c] \in SUBSET ScopesToCheck(c, asks[c]) /\ rest[c] \in SUBSET ScopesToCheck(c, asks[c])
  BY DEF VarsOK, CallOK, Positions
<1>2. CASE Begin(c)
  <2>1. CASE Ask(c, "gate", 0, {})
    BY <2>1, AskLemma, GoesOnOK DEF Moves, Limiter
  <2>2. CASE Outbound(c, 0, {})
    BY <2>2, OutboundLemma, GoesOnOK DEF Moves, Limiter
  <2> QED BY <1>2, <2>1, <2>2 DEF Begin
<1>3. CASE IncrWithin(c)
  <2>1. CASE Goto(c, "expire", {})
    BY <1>1, <1>3, <2>1, GotoLemma DEF IncrWithin, IsAt, Places, Moves, CallOK
  <2>2. CASE Proceed(c, held[c] \cup {scope[c]})
    <3>1. /\ held[c] \cup {scope[c]} \in SUBSET ScopesToCheck(c, asks[c])
          /\ \A j \in held[c] \cup {scope[c]} : j <= scope[c]
      BY <1>1, <1>3 DEF CallOK, IncrWithin, Positions
    <3> QED BY <1>1, <2>2, <3>1, ProceedLemma, GoesOnOK DEF Moves
  <2> QED BY <1>3, <2>1, <2>2 DEF IncrWithin
<1>4. CASE IncrOver(c)
  <2>1. CASE asks[c] = "gate" /\ End(c, "refused")
    BY <2>1, EndLemma DEF IsAt, Places, Moves, CallOK
  <2>2. CASE asks[c] = "rate" /\ Goto(c, "undoOwn", {})
    BY <1>1, <1>4, <2>2, GotoLemma DEF IncrOver, IsAt, Places, Moves, CallOK
  <2>3. CASE asks[c] = "conc" /\ Goto(c, "expireOver", {})
    BY <1>1, <1>4, <2>3, GotoLemma DEF IncrOver, IsAt, Places, Moves, CallOK
  <2> QED BY <1>1, <1>4, <2>1, <2>2, <2>3 DEF IncrOver, Limiter
<1>5. CASE IncrFails(c)
  <2>1. \A j \in held[c] : j <= scope[c] BY <1>1, <1>5 DEF IncrFails, CallOK, Positions
  <2> QED BY <1>5, <2>1, FailOpenMoves DEF IncrFails, FailOpen
<1>6. CASE Expire(c)
  <2>1. \A j \in held[c] : j <= scope[c] BY <1>1, <1>6 DEF Expire, CallOK, Positions
  <2>2. CASE pc[c] = "expire" /\ Proceed(c, held[c] \cup {scope[c]})
    <3>1. /\ held[c] \cup {scope[c]} \in SUBSET ScopesToCheck(c, asks[c])
          /\ \A j \in held[c] \cup {scope[c]} : j <= scope[c]
      BY <1>1, <2>1, <2>2 DEF CallOK, Positions
    <3> QED BY <1>1, <2>2, <3>1, ProceedLemma, GoesOnOK DEF Moves
  <2>3. CASE pc[c] = "expireOver" /\ Goto(c, "undoOwn", {})
    BY <1>1, <2>3, GotoLemma DEF IsAt, Places, Moves, CallOK
  <2>4. CASE Proceed(c, held[c]) BY <2>1, <2>4, FailOpenMoves
  <2> QED BY <1>6, <2>2, <2>3, <2>4 DEF Expire, FailOpen
<1>7. CASE UndoOwn(c)
  <2>1. \A j \in held[c] : j <= scope[c] BY <1>1, <1>7 DEF UndoOwn, CallOK, Positions
  <2>2. CASE GiveBack(c, held[c])
    BY <1>1, <1>7, <2>2, GiveBackLemma DEF UndoOwn, IsAt, Refused, Moves, CallOK
  <2> QED BY <1>7, <2>1, <2>2, FailOpenMoves DEF UndoOwn, FailOpen
<1>8. CASE Undo(c)
  <2>1. CASE \E i \in Positions : GiveBack(c, rest[c] \ {i})
    BY <1>1, <1>8, <2>1, GiveBackLemma DEF Undo, IsAt, Refused, Moves, CallOK
  <2>2. CASE Proceed(c, held[c])
    <3>1. \A j \in held[c] : j <= scope[c] BY <1>1, <1>8 DEF Undo, CallOK, Positions
    <3> QED BY <2>2, <3>1, FailOpenMoves
  <2> QED BY <1>8, <2>1, <2>2 DEF Undo, FailOpen
<1>9. CASE Ttl(c)
  <2>1. CASE End(c, "refused") BY <2>1, EndLemma DEF IsAt, Places, Moves, CallOK
  <2>2. CASE Proceed(c, held[c])
    <3>1. \A j \in held[c] : j <= scope[c] BY <1>1, <1>9 DEF Ttl, CallOK, Positions
    <3> QED BY <2>2, <3>1, FailOpenMoves
  <2> QED BY <1>9, <2>1, <2>2 DEF Ttl, FailOpen
<1>10. CASE Request(c)
  BY <1>1, <1>10, ReleaseRestLemma DEF Request, IsAt, Moves, CallOK
<1>11. CASE Release(c)
  <2>1. CASE \E i \in Positions : ReleaseRest(c, rest[c] \ {i})
    BY <1>1, <1>11, <2>1, ReleaseRestLemma DEF Release, IsAt, Moves, CallOK
  <2>2. CASE \E i \in Positions : Next1(c, i) /\ At(c, "conc", "reset", i, held[c], rest[c] \ {i})
    <3>1. PICK i \in Positions : Next1(c, i) /\ At(c, "conc", "reset", i, held[c], rest[c] \ {i}) BY <2>2
    <3>2. VarsOK' /\ OthersStay(c) /\ IsAt(c, "conc", "reset", i, held[c], rest[c] \ {i})
      BY <1>1, <3>1, AtLemma DEF Places, Limiter
    <3> QED BY <1>1, <1>11, <3>1, <3>2 DEF Release, Next1, IsAt, Moves, CallOK
  <2> QED BY <1>11, <2>1, <2>2 DEF Release
<1>12. CASE Reset(c)
  BY <1>1, <1>12, ReleaseRestLemma DEF Reset, IsAt, Moves, CallOK
<1> QED
  BY <1>2, <1>3, <1>4, <1>5, <1>6, <1>7, <1>8, <1>9, <1>10, <1>11, <1>12 DEF Act

-----------------------------------------------------------------------------
(* The counters. *)

\* The keys of the positions that a call is at or holds.
LEMMA KeyLemma ==
  ASSUME VarsOK, NEW c \in Callers, CallOK(c)
  PROVE  /\ pc[c] \in {"incr", "expire", "expireOver", "undoOwn", "reset"} => Key(c) \in Keys
         /\ \A i \in rest[c] : KeyOf(c, asks[c], i) \in Keys
<1>1. asks[c] \in Limiter BY DEF VarsOK
<1> QED BY <1>1, KeysDiffer DEF CallOK, Key

OneCommand ==
  \E k \in Keys : Add(k, 1) \/ Add(k, -1) \/ EXPIRE(k) \/ SetZero(k)

LEMMA OneCommandLemma ==
  ASSUME VarsOK, NEW c \in Callers, CallOK(c), Act(c)
  PROVE  UNCHANGED keys \/ OneCommand
<1> USE KeyLemma DEF Live, OneCommand
<1>1. CASE Begin(c) \/ Ttl(c) \/ Request(c) BY <1>1 DEF Begin, Ttl, Request
<1>2. CASE IncrWithin(c) \/ IncrOver(c) \/ IncrFails(c)
  BY <1>2 DEF IncrWithin, IncrOver, IncrFails
<1>3. CASE Expire(c) BY <1>3 DEF Expire
<1>4. CASE UndoOwn(c) BY <1>4 DEF UndoOwn
<1>5. CASE Undo(c) BY <1>5 DEF Undo, Next1
<1>6. CASE Release(c) BY <1>6 DEF Release, Next1
<1>7. CASE Reset(c) BY <1>7 DEF Reset
<1> QED BY <1>1, <1>2, <1>3, <1>4, <1>5, <1>6, <1>7 DEF Act

LEMMA CountersStep == TypeInv /\ [Next]_vars => CountersOK'
<1> SUFFICES ASSUME TypeInv, [Next]_vars PROVE CountersOK' OBVIOUS
<1> USE DEF TypeInv, CountersOK
<1>1. CASE UNCHANGED keys BY <1>1 DEF keys
<1>2. CASE OneCommand
  <2>1. PICK k \in Keys : Add(k, 1) \/ Add(k, -1) \/ EXPIRE(k) \/ SetZero(k) BY <1>2 DEF OneCommand
  <2>2. CASE Add(k, 1) BY <2>2 DEF Add
  <2>3. CASE Add(k, -1) BY <2>3 DEF Add
  <2>4. CASE EXPIRE(k) BY <2>4 DEF EXPIRE
  <2>5. CASE SetZero(k) BY <2>5 DEF SetZero
  <2> QED BY <2>1, <2>2, <2>3, <2>4, <2>5
<1>3. ASSUME NEW k \in Keys, Lapse(k) PROVE CountersOK' BY <1>3 DEF Lapse
<1>4. ASSUME NEW c \in Callers, Crash(c) PROVE CountersOK' BY <1>4 DEF Crash, keys
<1> QED BY <1>1, <1>2, <1>3, <1>4, OneCommandLemma DEF Next, Act, vars

\* Who has let a call pass only changes as the counter is raised, or lapses.
LEMMA SpentLemma ==
  ASSUME NEW c, Act(c)
  PROVE  /\ \/ UNCHANGED spent
            \/ IncrWithin(c) /\ Charge(c)
            \/ IncrOver(c) /\ Withdraw(c)
         /\ Works \/ Fails
<1>1. CASE IncrWithin(c) BY <1>1 DEF IncrWithin
<1>2. CASE IncrOver(c) BY <1>2 DEF IncrOver
<1>3. CASE Begin(c) \/ IncrFails(c) \/ Expire(c) \/ UndoOwn(c) \/ Ttl(c) \/ Request(c) \/ Reset(c)
  BY <1>3 DEF Begin, IncrFails, Expire, UndoOwn, Ttl, Request, Reset, FailOpen
<1>4. CASE Undo(c) BY <1>4 DEF Undo, FailOpen
<1>5. CASE Release(c) BY <1>5 DEF Release
<1> QED BY <1>1, <1>2, <1>3, <1>4, <1>5 DEF Act

LEMMA HistoryStep == TypeInv /\ [Next]_vars => HistoryOK'
<1> SUFFICES ASSUME TypeInv, [Next]_vars PROVE HistoryOK' OBVIOUS
<1> USE LimitersAssumption DEF TypeInv, HistoryOK
<1>1. ASSUME NEW c \in Callers, Act(c) PROVE HistoryOK'
  <2>1. spent' \in [Keys -> SUBSET Callers]
    <3>1. CASE IncrWithin(c) /\ Charge(c)
      BY <3>1, KeyLemma DEF IncrWithin, Charge, Live
    <3>2. CASE Withdraw(c) BY <3>2 DEF Withdraw
    <3> QED BY <1>1, <3>1, <3>2, SpentLemma
  <2>2. CASE Works BY <2>1, <2>2 DEF Works, world
  <2>3. CASE Fails BY <2>1, <2>3 DEF Fails, Trouble
  <2> QED BY <1>1, <2>2, <2>3, SpentLemma
<1>2. ASSUME NEW k \in Keys, Lapse(k) PROVE HistoryOK'
  <2>1. spent' \in [Keys -> SUBSET Callers] BY <1>2 DEF Lapse
  <2>2. CASE Works BY <2>1, <2>2 DEF Works, world
  <2>3. CASE Trouble /\ lapses' = lapses + 1 /\ UNCHANGED <<dead, faults>>
    BY <2>1, <2>3 DEF Trouble
  <2> QED BY <1>2, <2>2, <2>3 DEF Lapse
<1>3. ASSUME NEW c \in Callers, Crash(c) PROVE HistoryOK' BY <1>3 DEF Crash, Trouble
<1>4. CASE UNCHANGED vars BY <1>4 DEF vars, world
<1> QED BY <1>1, <1>2, <1>3, <1>4 DEF Next, Act

LEMMA CallsStep == TypeInv /\ [Next]_vars => VarsOK' /\ \A c \in Callers : CallOK(c)'
<1> SUFFICES ASSUME TypeInv, [Next]_vars PROVE VarsOK' /\ \A c \in Callers : CallOK(c)' OBVIOUS
<1> USE DEF TypeInv
<1>1. ASSUME NEW c \in Callers, Act(c) PROVE VarsOK' /\ \A d \in Callers : CallOK(d)'
  <2>1. Moves(c) BY <1>1, ActMoves
  <2>2. ASSUME NEW d \in Callers \ {c} PROVE CallOK(d)'
    BY <2>1 DEF Moves, OthersStay, CallOK
  <2> QED BY <2>1, <2>2 DEF Moves
<1>2. CASE UNCHANGED call BY <1>2 DEF call, VarsOK, CallOK
<1>3. (\E k \in Keys : Lapse(k)) \/ (\E c \in Callers : Crash(c)) \/ UNCHANGED vars => UNCHANGED call
  BY DEF Lapse, Crash, vars
<1> QED BY <1>1, <1>2, <1>3 DEF Next, Act

LEMMA InitTyped == Init => TypeInv
<1> SUFFICES ASSUME Init PROVE TypeInv OBVIOUS
<1> USE LimitersAssumption DEF Init
<1>1. CountersOK /\ HistoryOK BY DEF CountersOK, HistoryOK
<1>2. VarsOK /\ \A c \in Callers : CallOK(c)
  BY DEF VarsOK, CallOK, Limiter, Positions, Places
<1> QED BY <1>1, <1>2 DEF TypeInv

\* Every call is where its limiter can have it, whatever rejects, lapses or crashes.
THEOREM TypeCorrect == Spec => []TypeOK
<1>1. Init => TypeInv BY InitTyped
<1>2. TypeInv /\ [Next]_vars => TypeInv'
  BY CountersStep, HistoryStep, CallsStep DEF TypeInv
<1>3. TypeInv => TypeOK
  BY LimitersAssumption DEF TypeInv, CountersOK, HistoryOK, VarsOK, CallOK, TypeOK, Places
<1> QED BY <1>1, <1>2, <1>3, PTL DEF Spec

-----------------------------------------------------------------------------
(* The callers that a counter counts. *)

Calm == faults = 0 /\ lapses = 0

\* Those that use it now, and of a window also those that have passed.
LiveUsers(k) == {c \in Callers \ dead : Uses(c, k)}
Counted(k) == LiveUsers(k) \cup IF k.limiter = "conc" THEN {} ELSE spent[k]

\* Those that use it and have not been refused.
Holders(k) == {c \in Callers \ dead : pc[c] \in {"incr", "expire", "request"} /\ Uses(c, k)}

\* A refused caller has been withdrawn.
WithdrawnOK ==
  \A c \in Callers : pc[c] \in {"expireOver", "undoOwn", "undo"} => \A k \in Keys : c \notin spent[k]

\* What a command of a calm step of caller c does to counter k and to those it counts.
Steady(c, k) ==
  /\ count'[k] = count[k]
  /\ Uses(c, k)' => Uses(c, k)
  /\ k.limiter = "conc" /\ Uses(c, k) => Uses(c, k)'
  /\ spent'[k] \subseteq spent[k]
  /\ pc'[c] \in {"incr", "expire", "request"} /\ Uses(c, k)' => pc[c] \in {"incr", "expire", "request"}
Raised(c, k) ==
  /\ count'[k] = count[k] + 1
  /\ k.limiter = "conc" => ~Uses(c, k) /\ Uses(c, k)'
  /\ \/ count[k] < Limit[k] /\ spent'[k] \subseteq spent[k] \cup {c}
     \/ spent'[k] \subseteq spent[k] /\ pc'[c] \notin {"incr", "expire", "request"}
Lowered(c, k) ==
  /\ count'[k] = count[k] - 1 /\ spent'[k] = spent[k]
  /\ Uses(c, k) /\ ~Uses(c, k)'
  /\ k.limiter # "conc" => c \notin spent[k]
  /\ pc'[c] \notin {"incr", "expire", "request"}

\* Who goes on uses what he has got, or less if the next limiter counts otherwise.
LEMMA GoesOnUses ==
  ASSUME VarsOK, NEW c \in Callers, NEW got \in SUBSET ScopesToCheck(c, asks[c]),
         GoesOn(c, asks[c], got), NEW k \in Keys
  PROVE  /\ Uses(c, k)' => \E i \in got : KeyOf(c, asks[c], i) = k
         /\ k.limiter = "conc" /\ (\E i \in got : KeyOf(c, asks[c], i) = k) => Uses(c, k)'
<1>1. asks[c] \in Limiter BY DEF VarsOK
<1>2. \A i \in got : KeyOf(c, asks[c], i).limiter = asks[c] BY <1>1, KeysDiffer
<1>3. pc'[c] \in {"incr", "request"} => Taken(c)' = held'[c] BY DEF Taken
<1>4. pc'[c] = "passed" => Taken(c)' = {} BY DEF Taken
<1>5. Uses(c, k)' <=> \E i \in Taken(c)' : KeyOf(c, asks'[c], i) = k BY DEF Uses
<1>6. CASE pc'[c] = "passed" BY <1>2, <1>4, <1>5, <1>6 DEF GoesOn
<1>7. CASE pc'[c] # "passed" /\ asks'[c] = asks[c] BY <1>3, <1>5, <1>7 DEF GoesOn
<1>8. CASE pc'[c] # "passed" /\ asks'[c] # asks[c]
  <2>1. asks[c] # "conc" BY <1>1, <1>8 DEF GoesOn, Limiter
  <2> QED BY <1>2, <1>3, <1>5, <1>8, <2>1 DEF GoesOn
<1> QED BY <1>6, <1>7, <1>8

LEMMA CalmStep ==
  ASSUME TypeInv, WithdrawnOK, NEW c \in Callers, Act(c), Works, pc[c] # "reset", NEW k \in Keys
  PROVE  Steady(c, k) \/ Raised(c, k) \/ Lowered(c, k)
<1> USE DEF TypeInv, Live
<1>1. /\ asks[c] \in Limiter /\ scope[c] \in Positions /\ CallOK(c) /\ VarsOK
      /\ held[c] \in SUBSET ScopesToCheck(c, asks[c]) /\ rest[c] \in SUBSET ScopesToCheck(c, asks[c])
      /\ held[c] \in SUBSET Positions /\ rest[c] \in SUBSET Positions
      /\ faults \in Nat /\ count[k] \in Int /\ count \in [Keys -> Int] /\ spent \in [Keys -> SUBSET Callers]
  BY DEF VarsOK, CallOK, CountersOK, HistoryOK
<1>2. ~Fails BY <1>1 DEF Works, Fails, world
<1>3. Uses(c, k) <=> \E i \in Taken(c) : KeyOf(c, asks[c], i) = k BY DEF Uses
<1>4. Uses(c, k)' <=> \E i \in Taken(c)' : KeyOf(c, asks'[c], i) = k BY DEF Uses
<1>5. \A i, j \in ScopesToCheck(c, asks[c]) : KeyOf(c, asks[c], i) = KeyOf(c, asks[c], j) => i = j
  BY <1>1, KeysDiffer
<1>6. \A i \in ScopesToCheck(c, asks[c]) : KeyOf(c, asks[c], i).limiter = asks[c]
  BY <1>1, KeysDiffer
<1>7. CASE Begin(c)
  <2>1. UNCHANGED <<count, spent>> /\ Taken(c) = {} BY <1>7 DEF Begin, keys, Taken
  <2>2. Taken(c)' = {}
    <3>1. CASE Ask(c, "gate", 0, {}) BY <3>1, AskLemma DEF GoesOn, Taken
    <3>2. CASE Outbound(c, 0, {}) BY <3>2, OutboundLemma DEF GoesOn, Taken
    <3> QED BY <1>7, <3>1, <3>2 DEF Begin
  <2> QED BY <1>3, <1>4, <2>1, <2>2 DEF Steady
<1>8. CASE IncrWithin(c)
  <2>1. /\ pc[c] = "incr" /\ count[Key(c)] < Limit[Key(c)] /\ Key(c) = KeyOf(c, asks[c], scope[c])
        /\ Key(c) \in Keys /\ scope[c] \in ScopesToCheck(c, asks[c]) /\ scope[c] \notin held[c]
    BY <1>1, <1>8, KeysDiffer DEF IncrWithin, Key, CallOK, Positions
  <2>2. /\ count' = [count EXCEPT ![Key(c)] = @ + 1] /\ spent' = [spent EXCEPT ![Key(c)] = @ \cup {c}]
    BY <1>8 DEF IncrWithin, Add, Charge
  <2>3. /\ Uses(c, k)' => \E i \in held[c] \cup {scope[c]} : KeyOf(c, asks[c], i) = k
        /\ k.limiter = "conc" /\ (\E i \in held[c] \cup {scope[c]} : KeyOf(c, asks[c], i) = k) => Uses(c, k)'
    <3>1. CASE Goto(c, "expire", {})
      BY <1>1, <1>4, <3>1, GotoLemma DEF Places, IsAt, Taken
    <3>2. CASE Proceed(c, held[c] \cup {scope[c]})
      <4>1. /\ \A j \in held[c] \cup {scope[c]} : j <= scope[c]
            /\ held[c] \cup {scope[c]} \in SUBSET ScopesToCheck(c, asks[c])
        BY <1>1, <2>1 DEF CallOK, Positions
      <4>2. GoesOn(c, asks[c], held[c] \cup {scope[c]}) BY <1>1, <3>2, <4>1, ProceedLemma
      <4>3. VarsOK BY <1>1
      <4> HIDE DEF TypeInv
      <4> QED BY <4>1, <4>2, <4>3, GoesOnUses
    <3> QED BY <1>8, <3>1, <3>2 DEF IncrWithin
  <2>5. Uses(c, k) <=> \E i \in held[c] : KeyOf(c, asks[c], i) = k BY <1>3, <2>1 DEF Taken
  <2>6. CASE k = Key(c)
    <3>1. ~Uses(c, k) BY <1>1, <1>5, <2>1, <2>5, <2>6
    <3> QED BY <1>1, <2>1, <2>2, <2>3, <2>6, <3>1 DEF Raised
  <2>7. CASE k # Key(c)
    BY <1>1, <2>1, <2>2, <2>3, <2>5, <2>7 DEF Steady
  <2> QED BY <2>6, <2>7
<1>9. CASE IncrOver(c)
  <2>1. /\ pc[c] = "incr" /\ Key(c) = KeyOf(c, asks[c], scope[c])
        /\ Key(c) \in Keys /\ scope[c] \in ScopesToCheck(c, asks[c]) /\ scope[c] \notin held[c]
    BY <1>1, <1>9, KeysDiffer DEF IncrOver, Key, CallOK, Positions
  <2>2. /\ count' = [count EXCEPT ![Key(c)] = @ + 1] /\ spent'[k] \subseteq spent[k]
    BY <1>9 DEF IncrOver, Add, Withdraw
  <2>3. Uses(c, k) <=> \E i \in held[c] : KeyOf(c, asks[c], i) = k BY <1>3, <2>1 DEF Taken
  <2>4. CASE asks[c] = "gate" /\ End(c, "refused")
    <3>1. pc'[c] = "refused" /\ ~Uses(c, k)'
      BY <1>4, <2>4, EndLemma DEF Places, IsAt, Taken
    <3>2. k.limiter = "conc" => ~Uses(c, k) /\ k # Key(c) BY <1>1, <1>6, <2>1, <2>3, <2>4
    <3> QED BY <1>1, <2>1, <2>2, <3>1, <3>2 DEF Steady, Raised
  <2>5. CASE asks[c] # "gate" /\ (Goto(c, "undoOwn", {}) \/ Goto(c, "expireOver", {}))
    <3>1. /\ pc'[c] \in {"undoOwn", "expireOver"}
          /\ Uses(c, k)' <=> \E i \in held[c] \cup {scope[c]} : KeyOf(c, asks[c], i) = k
      BY <1>1, <1>4, <2>5, GotoLemma DEF Places, IsAt, Taken
    <3>2. CASE k = Key(c)
      <4>1. ~Uses(c, k) BY <1>1, <1>5, <2>1, <2>3, <3>2
      <4> QED BY <1>1, <2>1, <2>2, <3>1, <3>2, <4>1 DEF Raised
    <3>3. CASE k # Key(c) BY <1>1, <2>1, <2>2, <2>3, <3>1, <3>3 DEF Steady
    <3> QED BY <3>2, <3>3
  <2> QED BY <1>1, <1>9, <2>4, <2>5 DEF IncrOver, Limiter
<1>10. CASE Expire(c)
  <2>1. count' = count /\ spent' = spent BY <1>2, <1>10 DEF Expire, EXPIRE, FailOpen
  <2>2. /\ Uses(c, k) <=> \E i \in held[c] \cup {scope[c]} : KeyOf(c, asks[c], i) = k
        /\ scope[c] \in ScopesToCheck(c, asks[c])
    BY <1>1, <1>3, <1>10 DEF Expire, Taken, CallOK
  <2>3. CASE pc[c] = "expire" /\ Proceed(c, held[c] \cup {scope[c]})
    <3>1. \A j \in held[c] \cup {scope[c]} : j <= scope[c] BY <1>1, <2>3 DEF CallOK, Positions
    <3> QED BY <1>1, <2>1, <2>2, <2>3, <3>1, ProceedLemma, GoesOnUses DEF Steady
  <2>4. CASE pc[c] = "expireOver" /\ Goto(c, "undoOwn", {})
    BY <1>1, <1>4, <2>1, <2>2, <2>4, GotoLemma DEF Places, IsAt, Taken, Steady
  <2> QED BY <1>2, <1>10, <2>3, <2>4 DEF Expire, FailOpen
<1>11. CASE UndoOwn(c)
  <2>1. /\ pc[c] = "undoOwn" /\ Key(c) = KeyOf(c, asks[c], scope[c])
        /\ Key(c) \in Keys /\ scope[c] \in ScopesToCheck(c, asks[c]) /\ scope[c] \notin held[c]
    BY <1>1, <1>11, KeysDiffer DEF UndoOwn, Key, CallOK, Positions
  <2>2. /\ count' = [count EXCEPT ![Key(c)] = @ + (-1)] /\ spent' = spent /\ GiveBack(c, held[c])
    BY <1>2, <1>11 DEF UndoOwn, Add, FailOpen
  <2>3. Uses(c, k) <=> \E i \in held[c] \cup {scope[c]} : KeyOf(c, asks[c], i) = k
    BY <1>3, <2>1 DEF Taken
  <2>4. /\ pc'[c] \in {"undo", "ttl", "refused"}
        /\ Uses(c, k)' <=> \E i \in held[c] : KeyOf(c, asks[c], i) = k
    BY <1>1, <1>4, <2>2, GiveBackLemma DEF IsAt, Refused, Taken
  <2>5. CASE k = Key(c)
    <3>1. ~Uses(c, k)' /\ Uses(c, k) BY <1>1, <1>5, <2>1, <2>3, <2>4, <2>5
    <3> QED BY <1>1, <2>1, <2>2, <2>4, <2>5, <3>1 DEF Lowered, WithdrawnOK
  <2>6. CASE k # Key(c) BY <1>1, <2>1, <2>2, <2>3, <2>4, <2>6 DEF Steady
  <2> QED BY <2>5, <2>6
<1>12. CASE Undo(c)
  <2>1. PICK i \in rest[c] : /\ Add(KeyOf(c, asks[c], i), -1) /\ GiveBack(c, rest[c] \ {i})
    BY <1>2, <1>12 DEF Undo, FailOpen, Next1
  <2>2. /\ pc[c] = "undo" /\ count' = [count EXCEPT ![KeyOf(c, asks[c], i)] = @ + (-1)] /\ spent' = spent
        /\ KeyOf(c, asks[c], i) \in Keys
    BY <1>1, <1>12, <2>1, KeysDiffer DEF Undo, Add
  <2>3. Uses(c, k) <=> \E j \in rest[c] : KeyOf(c, asks[c], j) = k BY <1>3, <2>2 DEF Taken
  <2>4. /\ pc'[c] \in {"undo", "ttl", "refused"}
        /\ Uses(c, k)' <=> \E j \in rest[c] \ {i} : KeyOf(c, asks[c], j) = k
    BY <1>1, <1>4, <2>1, GiveBackLemma DEF IsAt, Refused, Taken
  <2>5. CASE k = KeyOf(c, asks[c], i)
    <3>1. ~Uses(c, k)' /\ Uses(c, k) BY <1>1, <1>5, <2>3, <2>4, <2>5
    <3> QED BY <1>1, <2>2, <2>4, <2>5, <3>1 DEF Lowered, WithdrawnOK
  <2>6. CASE k # KeyOf(c, asks[c], i) BY <1>1, <2>2, <2>3, <2>4, <2>6 DEF Steady
  <2> QED BY <2>5, <2>6
<1>13. CASE Ttl(c)
  <2>1. count' = count /\ spent' = spent /\ Taken(c) = {} /\ End(c, "refused")
    BY <1>2, <1>13 DEF Ttl, FailOpen, keys, Taken
  <2>2. Taken(c)' = {} BY <1>1, <2>1, EndLemma DEF Places, IsAt, Taken
  <2> QED BY <1>3, <1>4, <2>1, <2>2 DEF Steady
<1>14. CASE Request(c)
  <2>1. /\ count' = count /\ spent' = spent /\ pc[c] = "request"
        /\ Uses(c, k) <=> \E i \in held[c] : KeyOf(c, asks[c], i) = k
    BY <1>3, <1>14 DEF Request, keys, Taken
  <2>2. Uses(c, k)' <=> \E i \in held[c] : KeyOf(c, asks[c], i) = k
    BY <1>1, <1>4, <1>14, ReleaseRestLemma DEF Request, IsAt, Taken
  <2> QED BY <2>1, <2>2 DEF Steady
<1>15. CASE Release(c)
  <2>1. PICK i \in rest[c] :
          /\ Add(KeyOf(c, asks[c], i), -1)
          /\ ReleaseRest(c, rest[c] \ {i}) \/ At(c, "conc", "reset", i, held[c], rest[c] \ {i})
    BY <1>2, <1>15 DEF Release, Next1
  <2>2. /\ pc[c] = "release" /\ asks[c] = "conc" /\ spent' = spent
        /\ count' = [count EXCEPT ![KeyOf(c, asks[c], i)] = @ + (-1)]
        /\ KeyOf(c, asks[c], i) \in Keys /\ i \in Positions
    BY <1>1, <1>15, <2>1, KeysDiffer DEF Release, Add, CallOK
  <2>3. Uses(c, k) <=> \E j \in rest[c] : KeyOf(c, asks[c], j) = k BY <1>3, <2>2 DEF Taken
  <2>4. /\ pc'[c] \in {"release", "passed", "reset"}
        /\ Uses(c, k)' <=> \E j \in rest[c] \ {i} : KeyOf(c, asks[c], j) = k
    <3>1. CASE ReleaseRest(c, rest[c] \ {i})
      BY <1>1, <1>4, <3>1, ReleaseRestLemma DEF IsAt, Taken
    <3>2. CASE At(c, "conc", "reset", i, held[c], rest[c] \ {i})
      <4>1. IsAt(c, "conc", "reset", i, held[c], rest[c] \ {i})
        BY <1>1, <2>2, <3>2, AtLemma DEF Places, Limiter
      <4> QED BY <1>4, <2>2, <4>1 DEF IsAt, Taken
    <3> QED BY <2>1, <3>1, <3>2
  <2>5. CASE k = KeyOf(c, asks[c], i)
    <3>1. ~Uses(c, k)' /\ Uses(c, k) /\ k.limiter = "conc" BY <1>1, <1>5, <1>6, <2>2, <2>3, <2>4, <2>5
    <3> QED BY <1>1, <2>2, <2>4, <2>5, <3>1 DEF Lowered
  <2>6. CASE k # KeyOf(c, asks[c], i) BY <1>1, <2>2, <2>3, <2>4, <2>6 DEF Steady
  <2> QED BY <2>5, <2>6
<1>16. ~Reset(c) BY DEF Reset
<1> QED
  BY <1>7, <1>8, <1>9, <1>10, <1>11, <1>12, <1>13, <1>14, <1>15, <1>16, <1>2 DEF Act, IncrFails, FailOpen

-----------------------------------------------------------------------------
(* Counting. *)

CoverOK ==
  Calm => \A k \in Keys : Cardinality(Counted(k)) <= count[k]
LimitOK ==
  Calm => \A k \in Keys :
    /\ Cardinality(Holders(k)) <= Limit[k]
    /\ k.limiter # "conc" => Cardinality(spent[k]) <= Limit[k]
NoReset == Calm => \A c \in Callers \ dead : pc[c] # "reset"

IInv == TypeInv /\ WithdrawnOK /\ CoverOK /\ LimitOK /\ NoReset

LEMMA Finite ==
  ASSUME TypeInv, NEW k \in Keys
  PROVE  /\ IsFiniteSet(Counted(k)) /\ IsFiniteSet(Holders(k)) /\ IsFiniteSet(spent[k])
         /\ Cardinality(Counted(k)) \in Nat /\ Cardinality(Holders(k)) \in Nat /\ Cardinality(spent[k]) \in Nat
<1>1. /\ Counted(k) \in SUBSET Callers /\ Holders(k) \in SUBSET Callers /\ spent[k] \in SUBSET Callers
  BY DEF Counted, LiveUsers, Holders, TypeInv, HistoryOK
<1> QED BY <1>1, FS_Subset, FS_CardinalityType, LimitersAssumption

LEMMA AddsOne ==
  ASSUME NEW S, NEW T, NEW x, IsFiniteSet(S), T \subseteq S \cup {x}
  PROVE  IsFiniteSet(T) /\ Cardinality(T) <= Cardinality(S) + 1 /\ Cardinality(T) \in Nat
<1>1. Cardinality(S) \in Nat BY FS_CardinalityType
<1>2. IsFiniteSet(S \cup {x})
  BY FS_AddElement
<1>3. Cardinality(S \cup {x}) = IF x \in S THEN Cardinality(S) ELSE Cardinality(S) + 1
  BY FS_AddElement
<1>4. Cardinality(S \cup {x}) <= Cardinality(S) + 1 BY <1>1, <1>3
<1>5. Cardinality(T) <= Cardinality(S \cup {x}) /\ IsFiniteSet(T) BY <1>2, FS_Subset
<1>6. Cardinality(T) \in Nat /\ Cardinality(S \cup {x}) \in Nat BY <1>2, <1>5, FS_CardinalityType
<1> QED BY <1>1, <1>4, <1>5, <1>6

LEMMA DropsOne ==
  ASSUME NEW S, NEW T, NEW x \in S, IsFiniteSet(S), T \subseteq S \ {x}
  PROVE  IsFiniteSet(T) /\ Cardinality(T) <= Cardinality(S) - 1
<1>1. IsFiniteSet(S \ {x}) /\ Cardinality(S \ {x}) = Cardinality(S) - 1
  BY FS_RemoveElement
<1> QED BY <1>1, FS_Subset, FS_CardinalityType

\* What a calm step does to the sets that are counted.
LEMMA CountedStep ==
  ASSUME TypeInv, NEW c \in Callers, c \notin dead, OthersStay(c), dead' = dead, NEW k \in Keys
  PROVE  /\ Steady(c, k) => Counted(k)' \subseteq Counted(k) /\ Holders(k)' \subseteq Holders(k)
         /\ Raised(c, k) => Counted(k)' \subseteq Counted(k) \cup {c} /\ Holders(k)' \subseteq Holders(k) \cup {c}
         /\ Raised(c, k) /\ pc'[c] \notin {"incr", "expire", "request"} => Holders(k)' \subseteq Holders(k)
         /\ Lowered(c, k) => /\ Counted(k)' \subseteq Counted(k) \ {c} /\ c \in Counted(k)
                             /\ Holders(k)' \subseteq Holders(k)
<1>1. \A d \in Callers \ {c} : (Uses(d, k)' <=> Uses(d, k)) /\ pc'[d] = pc[d]
  BY DEF OthersStay, Uses, Taken
<1>2. \A d \in Callers \ {c} : d \in LiveUsers(k)' <=> d \in LiveUsers(k)
  BY <1>1 DEF LiveUsers
<1>3. \A d \in Callers \ {c} : d \in Holders(k)' <=> d \in Holders(k)
  BY <1>1 DEF Holders
<1>4. /\ c \in LiveUsers(k) <=> Uses(c, k)
      /\ c \in LiveUsers(k)' <=> Uses(c, k)'
      /\ LiveUsers(k)' \subseteq Callers /\ Holders(k)' \subseteq Callers
      /\ c \in Holders(k)' => pc'[c] \in {"incr", "expire", "request"} /\ Uses(c, k)'
      /\ pc[c] \in {"incr", "expire", "request"} /\ Uses(c, k) => c \in Holders(k)
  BY DEF LiveUsers, Holders
<1>5. Counted(k)' = LiveUsers(k)' \cup IF k.limiter = "conc" THEN {} ELSE spent'[k]
  BY DEF Counted
<1>6. ASSUME Steady(c, k) PROVE Counted(k)' \subseteq Counted(k) /\ Holders(k)' \subseteq Holders(k)
  BY <1>2, <1>3, <1>4, <1>5, <1>6 DEF Steady, Counted
<1>7. ASSUME Raised(c, k)
      PROVE  /\ Counted(k)' \subseteq Counted(k) \cup {c} /\ Holders(k)' \subseteq Holders(k) \cup {c}
             /\ pc'[c] \notin {"incr", "expire", "request"} => Holders(k)' \subseteq Holders(k)
  BY <1>2, <1>3, <1>4, <1>5, <1>7 DEF Raised, Counted
<1>8. ASSUME Lowered(c, k)
      PROVE  Counted(k)' \subseteq Counted(k) \ {c} /\ c \in Counted(k) /\ Holders(k)' \subseteq Holders(k)
  BY <1>2, <1>3, <1>4, <1>5, <1>8 DEF Lowered, Counted
<1> QED BY <1>6, <1>7, <1>8

\* A slot is only reset when its counter is already at zero as it is released.
LEMMA ResetsAtZero ==
  ASSUME VarsOK, NEW c \in Callers, CallOK(c), Act(c), pc'[c] = "reset"
  PROVE  pc[c] = "release" /\ \E i \in rest[c] : count[KeyOf(c, asks[c], i)] <= 0
<1> USE DEF Live
<1>1. /\ asks[c] \in Limiter /\ scope[c] \in Positions /\ scope[c] \in Nat
      /\ held[c] \in SUBSET Positions /\ rest[c] \in SUBSET Positions
      /\ held[c] \in SUBSET ScopesToCheck(c, asks[c])
  BY DEF VarsOK, CallOK, Positions
<1>2. ~Ask(c, "gate", 0, {}) /\ ~Outbound(c, 0, {})
  BY AskLemma, OutboundLemma DEF GoesOn
<1>3. ASSUME NEW got \in SUBSET ScopesToCheck(c, asks[c]), \A j \in got : j <= scope[c]
      PROVE  ~Proceed(c, got)
  BY <1>3, ProceedLemma DEF GoesOn
<1>4. ASSUME NEW place \in Places \ {"reset"} PROVE ~Goto(c, place, {}) /\ ~End(c, place)
  BY <1>1, GotoLemma, EndLemma DEF IsAt
<1>5. ASSUME NEW back \in SUBSET Positions PROVE ~GiveBack(c, back) /\ ~ReleaseRest(c, back)
  BY <1>1, GiveBackLemma, ReleaseRestLemma DEF IsAt, Refused
<1>6. pc[c] \in {"incr", "expire", "expireOver", "undoOwn", "undo", "ttl"} => ~Proceed(c, held[c])
  BY <1>1, <1>3 DEF CallOK, Positions
<1>7. /\ pc[c] = "incr" => ~Proceed(c, held[c] \cup {scope[c]})
      /\ pc[c] = "expire" => ~Proceed(c, held[c] \cup {scope[c]})
  BY <1>1, <1>3 DEF CallOK, Positions
<1>8. CASE Begin(c) BY <1>2, <1>8 DEF Begin
<1>9. CASE IncrWithin(c) BY <1>4, <1>7, <1>9 DEF IncrWithin, Places
<1>10. CASE IncrOver(c) BY <1>1, <1>4, <1>10 DEF IncrOver, Places, Limiter
<1>11. CASE IncrFails(c) BY <1>6, <1>11 DEF IncrFails, FailOpen
<1>12. CASE Expire(c) BY <1>4, <1>6, <1>7, <1>12 DEF Expire, FailOpen, Places
<1>13. CASE UndoOwn(c) BY <1>1, <1>5, <1>6, <1>13 DEF UndoOwn, FailOpen
<1>14. CASE Undo(c) BY <1>1, <1>5, <1>6, <1>14 DEF Undo, FailOpen
<1>15. CASE Ttl(c) BY <1>4, <1>6, <1>15 DEF Ttl, FailOpen, Places
<1>16. CASE Request(c) BY <1>1, <1>5, <1>16 DEF Request
<1>17. CASE Release(c)
  <2>1. \A i \in Positions : ~ReleaseRest(c, rest[c] \ {i}) BY <1>1, <1>5
  <2> QED BY <1>17, <2>1 DEF Release, Next1
<1>18. CASE Reset(c) BY <1>1, <1>5, <1>18 DEF Reset
<1> QED
  BY <1>8, <1>9, <1>10, <1>11, <1>12, <1>13, <1>14, <1>15, <1>16, <1>17, <1>18 DEF Act

LEMMA ActCounts ==
  ASSUME IInv, NEW c \in Callers, c \notin dead, Act(c), Calm'
  PROVE  CoverOK' /\ LimitOK' /\ NoReset'
<1> USE DEF IInv
<1>1. Calm /\ Works /\ dead' = dead
  BY SpentLemma DEF Calm, Works, Fails, world, TypeInv, HistoryOK
<1>2. OthersStay(c) BY ActMoves DEF TypeInv, Moves
<1>3. pc[c] # "reset" BY <1>1 DEF NoReset
<1>4. ASSUME NEW k \in Keys
      PROVE  /\ Cardinality(Counted(k)') <= count'[k]
             /\ Cardinality(Holders(k)') <= Limit[k]
             /\ k.limiter # "conc" => Cardinality(spent'[k]) <= Limit[k]
  <2>1. /\ Cardinality(Counted(k)) <= count[k] /\ Cardinality(Holders(k)) <= Limit[k]
        /\ k.limiter # "conc" => Cardinality(spent[k]) <= Limit[k]
        /\ count[k] \in Int /\ Limit[k] \in Nat
        /\ Holders(k) \subseteq Counted(k) /\ (k.limiter # "conc" => spent[k] \subseteq Counted(k))
        /\ spent[k] \subseteq Callers
    BY <1>1, LimitersAssumption DEF CoverOK, LimitOK, TypeInv, CountersOK, Holders, Counted, LiveUsers, HistoryOK
  <2>2. /\ IsFiniteSet(Counted(k)) /\ IsFiniteSet(Holders(k)) /\ IsFiniteSet(spent[k])
        /\ Cardinality(Counted(k)) \in Nat /\ Cardinality(Holders(k)) \in Nat /\ Cardinality(spent[k]) \in Nat
    BY Finite
  <2>3. CASE Steady(c, k)
    <3>1. Counted(k)' \subseteq Counted(k) /\ Holders(k)' \subseteq Holders(k) /\ spent'[k] \subseteq spent[k]
      BY <1>1, <1>2, <2>3, CountedStep DEF Steady
    <3>2. /\ Cardinality(Counted(k)') \in Nat /\ Cardinality(Counted(k)') <= Cardinality(Counted(k))
          /\ Cardinality(Holders(k)') \in Nat /\ Cardinality(Holders(k)') <= Cardinality(Holders(k))
          /\ Cardinality(spent'[k]) \in Nat /\ Cardinality(spent'[k]) <= Cardinality(spent[k])
      BY <2>2, <3>1, FS_Subset, FS_CardinalityType
    <3> QED BY <2>1, <2>2, <2>3, <3>2 DEF Steady
  <2>4. CASE Raised(c, k)
    <3>1. /\ Counted(k)' \subseteq Counted(k) \cup {c} /\ Holders(k)' \subseteq Holders(k) \cup {c}
          /\ pc'[c] \notin {"incr", "expire", "request"} => Holders(k)' \subseteq Holders(k)
      BY <1>1, <1>2, <2>4, CountedStep
    <3>2. Cardinality(Counted(k)') <= Cardinality(Counted(k)) + 1 /\ Cardinality(Counted(k)') \in Nat
      BY <2>2, <3>1, AddsOne
    <3>3. Cardinality(Holders(k)) <= Cardinality(Counted(k))
      BY <2>1, <2>2, FS_Subset
    <3>4. k.limiter # "conc" => Cardinality(spent[k]) <= Cardinality(Counted(k))
      BY <2>1, <2>2, FS_Subset
    <3>5. CASE count[k] < Limit[k] /\ spent'[k] \subseteq spent[k] \cup {c}
      <4>1. Cardinality(Holders(k)') <= Cardinality(Holders(k)) + 1 /\ Cardinality(Holders(k)') \in Nat
        BY <2>2, <3>1, AddsOne
      <4>2. Cardinality(spent'[k]) <= Cardinality(spent[k]) + 1 /\ Cardinality(spent'[k]) \in Nat
        BY <2>2, <3>5, AddsOne
      <4> QED BY <2>1, <2>2, <2>4, <3>2, <3>3, <3>4, <3>5, <4>1, <4>2 DEF Raised
    <3>6. CASE spent'[k] \subseteq spent[k] /\ pc'[c] \notin {"incr", "expire", "request"}
      <4>1. /\ Cardinality(Holders(k)') \in Nat /\ Cardinality(Holders(k)') <= Cardinality(Holders(k))
            /\ Cardinality(spent'[k]) \in Nat /\ Cardinality(spent'[k]) <= Cardinality(spent[k])
        BY <2>2, <3>1, <3>6, FS_Subset, FS_CardinalityType
      <4> QED BY <2>1, <2>2, <2>4, <3>2, <4>1 DEF Raised
    <3> QED BY <2>4, <3>5, <3>6 DEF Raised
  <2>5. CASE Lowered(c, k)
    <3>1. Counted(k)' \subseteq Counted(k) \ {c} /\ c \in Counted(k) /\ Holders(k)' \subseteq Holders(k)
      BY <1>1, <1>2, <2>5, CountedStep
    <3>2. IsFiniteSet(Counted(k)') /\ Cardinality(Counted(k)') <= Cardinality(Counted(k)) - 1
      BY <2>2, <3>1, DropsOne
    <3>3. Cardinality(Counted(k)') \in Nat BY <3>2, FS_CardinalityType
    <3>4. Cardinality(Holders(k)') \in Nat /\ Cardinality(Holders(k)') <= Cardinality(Holders(k))
      BY <2>2, <3>1, FS_Subset, FS_CardinalityType
    <3> QED BY <2>1, <2>2, <2>5, <3>2, <3>3, <3>4 DEF Lowered
  <2> QED BY <1>1, <1>3, <2>3, <2>4, <2>5, CalmStep
<1>5. \A d \in Callers \ dead : pc'[d] # "reset"
  <2> SUFFICES ASSUME pc'[c] = "reset" PROVE FALSE
    BY <1>1, <1>2 DEF NoReset, OthersStay
  <2>1. VarsOK /\ CallOK(c) /\ asks[c] \in Limiter BY DEF TypeInv, VarsOK
  <2>2. PICK i \in rest[c] : count[KeyOf(c, asks[c], i)] <= 0 /\ pc[c] = "release"
    BY <2>1, ResetsAtZero
  <2> DEFINE k == KeyOf(c, asks[c], i)
  <2>3. k \in Keys BY <2>1, KeyLemma
  <2>4. Uses(c, k) BY <2>2 DEF Uses, Taken
  <2>5. c \in Counted(k) BY <2>4 DEF Counted, LiveUsers
  <2>6. Cardinality(Counted(k)) <= count[k] /\ count[k] \in Int
    BY <1>1, <2>3 DEF CoverOK, TypeInv, CountersOK
  <2>7. IsFiniteSet(Counted(k)) /\ Cardinality(Counted(k)) \in Nat BY <2>3, Finite
  <2>8. Cardinality(Counted(k)) # 0 BY <2>5, <2>7, FS_EmptySet
  <2> QED BY <2>2, <2>6, <2>7, <2>8
<1> QED BY <1>1, <1>4, <1>5 DEF CoverOK, LimitOK, NoReset

\* A caller is only turned away by the counter it has found at its limit.
LEMMA RefusedAtLimit ==
  ASSUME VarsOK, NEW c \in Callers, CallOK(c), Act(c), pc'[c] \in {"expireOver", "undoOwn", "undo"}
  PROVE  IncrOver(c) \/ (pc[c] \in {"expireOver", "undoOwn", "undo"} /\ UNCHANGED spent)
<1> USE DEF Live
<1>1. /\ asks[c] \in Limiter /\ scope[c] \in Positions /\ scope[c] \in Nat
      /\ held[c] \in SUBSET Positions /\ rest[c] \in SUBSET Positions
      /\ held[c] \in SUBSET ScopesToCheck(c, asks[c])
  BY DEF VarsOK, CallOK, Positions
<1>2. ~Ask(c, "gate", 0, {}) /\ ~Outbound(c, 0, {})
  BY AskLemma, OutboundLemma DEF GoesOn
<1>3. ASSUME NEW got \in SUBSET ScopesToCheck(c, asks[c]), \A j \in got : j <= scope[c]
      PROVE  ~Proceed(c, got)
  BY <1>3, ProceedLemma DEF GoesOn
<1>4. ~Goto(c, "expire", {}) /\ ~End(c, "refused")
  BY <1>1, GotoLemma, EndLemma DEF IsAt, Places
<1>5. ASSUME NEW back \in SUBSET Positions PROVE ~ReleaseRest(c, back)
  BY <1>1, ReleaseRestLemma DEF IsAt
<1>6. pc[c] \in {"incr", "expire", "expireOver", "undoOwn", "undo", "ttl"} => ~Proceed(c, held[c])
  BY <1>1, <1>3 DEF CallOK, Positions
<1>7. /\ pc[c] = "incr" => ~Proceed(c, held[c] \cup {scope[c]})
      /\ pc[c] = "expire" => ~Proceed(c, held[c] \cup {scope[c]})
  BY <1>1, <1>3 DEF CallOK, Positions
<1>8. CASE Begin(c) BY <1>2, <1>8 DEF Begin
<1>9. CASE IncrWithin(c) BY <1>4, <1>7, <1>9 DEF IncrWithin
<1>10. CASE IncrFails(c) BY <1>6, <1>10 DEF IncrFails, FailOpen
<1>11. CASE Expire(c) BY <1>6, <1>7, <1>11 DEF Expire, FailOpen
<1>12. CASE UndoOwn(c) \/ Undo(c) BY <1>12 DEF UndoOwn, Undo
<1>13. CASE Ttl(c) BY <1>4, <1>6, <1>13 DEF Ttl, FailOpen
<1>14. CASE Request(c) BY <1>1, <1>5, <1>14 DEF Request
<1>15. CASE Release(c)
  <2>1. \A i \in Positions : ~ReleaseRest(c, rest[c] \ {i}) BY <1>1, <1>5
  <2>2. ASSUME NEW i \in Positions PROVE ~At(c, "conc", "reset", i, held[c], rest[c] \ {i})
    BY <1>1, AtLemma DEF Places, IsAt, Limiter
  <2> QED BY <1>15, <2>1, <2>2 DEF Release
<1>16. CASE Reset(c) BY <1>1, <1>5, <1>16 DEF Reset
<1> QED
  BY <1>8, <1>9, <1>10, <1>11, <1>12, <1>13, <1>14, <1>15, <1>16 DEF Act

LEMMA WithdrawnStep == TypeInv /\ WithdrawnOK /\ [Next]_vars => WithdrawnOK'
<1> SUFFICES ASSUME TypeInv, WithdrawnOK, [Next]_vars PROVE WithdrawnOK' OBVIOUS
<1> DEFINE turned == {"expireOver", "undoOwn", "undo"}
<1>1. ASSUME NEW c \in Callers, Act(c), NEW d \in Callers, pc'[d] \in turned, NEW k \in Keys
      PROVE  d \notin spent'[k]
  <2>1. VarsOK /\ CallOK(c) BY DEF TypeInv
  <2>2. CASE d = c
    <3>1. CASE IncrOver(c) BY <2>2, <3>1 DEF IncrOver, Withdraw
    <3>2. CASE pc[c] \in turned /\ UNCHANGED spent BY <2>2, <3>2 DEF WithdrawnOK
    <3> QED BY <1>1, <2>1, <2>2, <3>1, <3>2, RefusedAtLimit
  <2>3. CASE d # c
    <3>1. pc[d] \in turned BY <1>1, <2>1, <2>3, ActMoves DEF Moves, OthersStay
    <3>2. d \notin spent[k] BY <3>1 DEF WithdrawnOK
    <3>3. spent'[k] \subseteq spent[k] \cup {c}
      BY <1>1, SpentLemma DEF Charge, Withdraw, TypeInv, HistoryOK
    <3> QED BY <2>3, <3>2, <3>3
  <2> QED BY <2>2, <2>3
<1>2. ASSUME NEW k \in Keys, Lapse(k) PROVE WithdrawnOK'
  <2>1. \A j \in Keys : spent'[j] \subseteq spent[j] BY <1>2 DEF Lapse, TypeInv, HistoryOK
  <2> QED BY <1>2, <2>1 DEF Lapse, call, WithdrawnOK
<1>3. ASSUME NEW c \in Callers, Crash(c) PROVE WithdrawnOK' BY <1>3 DEF Crash, call, WithdrawnOK
<1>4. CASE UNCHANGED vars BY <1>4 DEF vars, call, WithdrawnOK
<1> QED BY <1>1, <1>2, <1>3, <1>4 DEF Next, Act, WithdrawnOK

\* A window that ends when nobody uses it is empty; a caller that crashes holds nothing.
LEMMA LapseCounts ==
  ASSUME IInv, NEW j \in Keys, Lapse(j), Calm'
  PROVE  CoverOK' /\ LimitOK' /\ NoReset'
<1> USE DEF IInv
<1>1. Calm /\ dead' = dead /\ ~\E c \in Callers \ dead : Uses(c, j)
  BY DEF Lapse, Calm, Works, world, TypeInv, HistoryOK, Trouble
<1>2. \A c \in Callers, k \in Keys : (Uses(c, k)' <=> Uses(c, k)) /\ pc'[c] = pc[c]
  BY DEF Lapse, call, Uses, Taken
<1>3. /\ \A k \in Keys \ {j} : count'[k] = count[k] /\ spent'[k] = spent[k]
      /\ count'[j] = 0 /\ spent'[j] = {}
  BY DEF Lapse, TypeInv, CountersOK, HistoryOK
<1>4. \A k \in Keys : LiveUsers(k)' = LiveUsers(k) /\ Holders(k)' = Holders(k)
  BY <1>1, <1>2 DEF LiveUsers, Holders
<1>5. LiveUsers(j) = {} BY <1>1 DEF LiveUsers
<1>6. Counted(j)' = {} BY <1>3, <1>4, <1>5 DEF Counted
<1>7. \A k \in Keys \ {j} : Counted(k)' = Counted(k) BY <1>3, <1>4 DEF Counted
<1>8. Cardinality({}) = 0 BY FS_EmptySet
<1>9. CoverOK' BY <1>1, <1>3, <1>6, <1>7, <1>8 DEF CoverOK
<1>10. ASSUME NEW k \in Keys
       PROVE  /\ Cardinality(Holders(k)') <= Limit[k]
              /\ k.limiter # "conc" => Cardinality(spent'[k]) <= Limit[k]
  <2>1. Cardinality(Holders(k)') <= Limit[k] BY <1>1, <1>4 DEF LimitOK
  <2>2. CASE k = j
    <3>1. Limit[k] \in Nat BY LimitersAssumption
    <3>2. Cardinality(spent'[k]) = 0 BY <1>3, <1>8, <2>2
    <3> QED BY <2>1, <3>1, <3>2
  <2>3. CASE k # j BY <1>1, <1>3, <2>1, <2>3 DEF LimitOK
  <2> QED BY <2>2, <2>3
<1>11. NoReset' BY <1>1, <1>2 DEF NoReset
<1> QED BY <1>9, <1>10, <1>11 DEF LimitOK

LEMMA CrashCounts ==
  ASSUME IInv, NEW d \in Callers, Crash(d), Calm'
  PROVE  CoverOK' /\ LimitOK' /\ NoReset'
<1> USE DEF IInv
<1>1. /\ Calm /\ dead' = dead \cup {d} /\ count' = count /\ spent' = spent /\ pc' = pc
      /\ \A c \in Callers, k \in Keys : Uses(c, k)' <=> Uses(c, k)
  BY DEF Crash, Calm, keys, call, Uses, Taken
<1>2. ASSUME NEW k \in Keys
      PROVE  /\ Counted(k)' \subseteq Counted(k) /\ Holders(k)' \subseteq Holders(k)
  BY <1>1 DEF Counted, LiveUsers, Holders
<1>3. ASSUME NEW k \in Keys
      PROVE  /\ Cardinality(Counted(k)') <= count'[k] /\ Cardinality(Holders(k)') <= Limit[k]
  <2>1. /\ IsFiniteSet(Counted(k)) /\ IsFiniteSet(Holders(k))
        /\ Cardinality(Counted(k)) \in Nat /\ Cardinality(Holders(k)) \in Nat
    BY Finite
  <2>2. /\ Cardinality(Counted(k)') \in Nat /\ Cardinality(Counted(k)') <= Cardinality(Counted(k))
        /\ Cardinality(Holders(k)') \in Nat /\ Cardinality(Holders(k)') <= Cardinality(Holders(k))
    BY <1>2, <2>1, FS_Subset, FS_CardinalityType
  <2> QED BY <1>1, <2>1, <2>2, LimitersAssumption DEF CoverOK, LimitOK, TypeInv, CountersOK
<1> QED BY <1>1, <1>3 DEF CoverOK, LimitOK, NoReset

LEMMA Invariance == Spec => []IInv
<1>1. Init => IInv
  <2> SUFFICES ASSUME Init PROVE IInv OBVIOUS
  <2>1. TypeInv BY InitTyped
  <2>2. \A k \in Keys : Counted(k) = {} /\ Holders(k) = {} /\ spent[k] = {} /\ count[k] = 0
    BY DEF Init, Counted, LiveUsers, Holders, Uses, Taken
  <2>3. Cardinality({}) = 0 BY FS_EmptySet
  <2>4. CoverOK BY <2>2, <2>3 DEF CoverOK
  <2>5. LimitOK BY <2>2, <2>3, LimitersAssumption DEF LimitOK
  <2>6. WithdrawnOK /\ NoReset BY DEF Init, WithdrawnOK, NoReset
  <2> QED BY <2>1, <2>4, <2>5, <2>6 DEF IInv
<1>2. IInv /\ [Next]_vars => IInv'
  <2> SUFFICES ASSUME IInv, [Next]_vars PROVE IInv' OBVIOUS
  <2>1. TypeInv' BY CountersStep, HistoryStep, CallsStep DEF TypeInv, IInv
  <2>2. WithdrawnOK' BY WithdrawnStep DEF IInv
  <2>3. ASSUME Calm' PROVE CoverOK' /\ LimitOK' /\ NoReset'
    <3>1. ASSUME NEW c \in Callers, Act(c) PROVE CoverOK' /\ LimitOK' /\ NoReset'
      <4>1. c \notin dead
        BY <3>1 DEF Act, Live, Begin, IncrWithin, IncrOver, IncrFails, Expire, UndoOwn, Undo,
                    Ttl, Request, Release, Reset
      <4> QED BY <2>3, <3>1, <4>1, ActCounts
    <3>2. CASE UNCHANGED vars
      <4>1. \A c \in Callers, k \in Keys : Uses(c, k)' <=> Uses(c, k)
        BY <3>2 DEF vars, call, Uses, Taken
      <4>2. \A k \in Keys : Counted(k)' = Counted(k) /\ Holders(k)' = Holders(k)
        BY <3>2, <4>1 DEF vars, call, world, Counted, LiveUsers, Holders
      <4>3. Calm /\ count' = count /\ spent' = spent /\ pc' = pc /\ dead' = dead
        BY <2>3, <3>2 DEF Calm, vars, world, keys, call
      <4> QED BY <4>2, <4>3 DEF IInv, CoverOK, LimitOK, NoReset
    <3> QED BY <2>3, <3>1, <3>2, LapseCounts, CrashCounts DEF Next, Act
  <2>4. CoverOK' /\ LimitOK' /\ NoReset' BY <2>3 DEF CoverOK, LimitOK, NoReset, Calm
  <2> QED BY <2>1, <2>2, <2>4 DEF IInv
<1> QED BY <1>1, <1>2, PTL DEF Spec

\* As long as Redis answers and no counter lapses under a holder, no key has more
\* requests under way than its limit, whatever processes have crashed.
THEOREM InFlightWithinLimitsHolds == Spec => []InFlightWithinLimits
<1>1. IInv => InFlightWithinLimits
  <2> SUFFICES ASSUME IInv, Calm, NEW k \in Keys PROVE Cardinality(InFlight(k)) <= Limit[k]
    BY DEF InFlightWithinLimits, Calm
  <2>1. InFlight(k) \subseteq Holders(k) BY DEF InFlight, Holders
  <2>2. IsFiniteSet(Holders(k)) /\ Cardinality(Holders(k)) \in Nat BY Finite DEF IInv
  <2>3. Cardinality(InFlight(k)) \in Nat /\ Cardinality(InFlight(k)) <= Cardinality(Holders(k))
    BY <2>1, <2>2, FS_Subset, FS_CardinalityType
  <2> QED BY <2>2, <2>3, LimitersAssumption DEF IInv, LimitOK
<1> QED BY <1>1, Invariance, PTL

\* In one life of a window no more callers pass than its limit.
THEOREM WindowsHoldHolds == Spec => []WindowsHold
<1>1. IInv => WindowsHold BY DEF IInv, LimitOK, Calm, WindowsHold
<1> QED BY <1>1, Invariance, PTL

-----------------------------------------------------------------------------
(* Slots come back. *)

QuietOK == troubles = 0 => dead = {}
SlotInv == IInv /\ QuietOK /\ SlotsComeBack

\* A quiet step of a caller adds it to the users of a slot counter, or takes it away.
LEMMA ActSlots ==
  ASSUME SlotInv, NEW c \in Callers, Act(c), troubles' = 0, NEW k \in Keys, k.limiter = "conc"
  PROVE  count'[k] = Cardinality(Users(k)')
<1> USE DEF SlotInv, IInv
<1>1. /\ troubles = 0 /\ Calm /\ Works /\ dead = {}
  BY SpentLemma DEF Calm, Works, Fails, Trouble, world, TypeInv, HistoryOK, QuietOK
<1>2. Steady(c, k) \/ Raised(c, k) \/ Lowered(c, k)
  BY <1>1, CalmStep DEF NoReset
<1>3. \A d \in Callers \ {c} : Uses(d, k)' <=> Uses(d, k)
  BY ActMoves DEF TypeInv, Moves, OthersStay, Uses, Taken
<1>4. /\ IsFiniteSet(Users(k)) /\ Cardinality(Users(k)) \in Nat
      /\ count[k] = Cardinality(Users(k)) /\ Users(k)' \subseteq Callers
  BY <1>1, FS_Subset, FS_CardinalityType, LimitersAssumption DEF Users, SlotsComeBack
<1>5. CASE Steady(c, k)
  <2>1. Users(k)' = Users(k) BY <1>3, <1>5 DEF Steady, Users
  <2> QED BY <1>4, <1>5, <2>1 DEF Steady
<1>6. CASE Raised(c, k)
  <2>1. c \notin Users(k) /\ Users(k)' = Users(k) \cup {c} BY <1>3, <1>6 DEF Raised, Users
  <2>2. Cardinality(Users(k) \cup {c}) = Cardinality(Users(k)) + 1 BY <1>4, <2>1, FS_AddElement
  <2> QED BY <1>4, <1>6, <2>1, <2>2 DEF Raised
<1>7. CASE Lowered(c, k)
  <2>1. c \in Users(k) /\ Users(k)' = Users(k) \ {c} BY <1>3, <1>7 DEF Lowered, Users
  <2>2. Cardinality(Users(k) \ {c}) = Cardinality(Users(k)) - 1 BY <1>4, <2>1, FS_RemoveElement
  <2> QED BY <1>4, <1>7, <2>1, <2>2 DEF Lowered
<1> QED BY <1>2, <1>5, <1>6, <1>7

\* Unless something went wrong, a slot counter counts the callers that are using it.
THEOREM SlotsComeBackHolds == Spec => []SlotsComeBack
<1>1. Init => QuietOK /\ SlotsComeBack
  <2> SUFFICES ASSUME Init PROVE QuietOK /\ SlotsComeBack OBVIOUS
  <2>1. \A k \in Keys : Users(k) = {} /\ count[k] = 0 BY DEF Init, Users, Uses, Taken
  <2> QED BY <2>1, FS_EmptySet DEF Init, QuietOK, SlotsComeBack
<1>2. SlotInv /\ IInv' /\ [Next]_vars => SlotInv'
  <2> SUFFICES ASSUME SlotInv, IInv', [Next]_vars PROVE QuietOK' /\ SlotsComeBack' BY DEF SlotInv
  <2> USE DEF SlotInv
  <2>1. troubles' = 0 => troubles = 0 /\ dead' = dead
    <3>1. ASSUME NEW c \in Callers, Act(c) PROVE troubles' = 0 => troubles = 0 /\ dead' = dead
      BY <3>1, SpentLemma DEF Works, Fails, Trouble, world, IInv, TypeInv, HistoryOK
    <3>2. ASSUME NEW k \in Keys, Lapse(k) PROVE troubles' = 0 => troubles = 0 /\ dead' = dead
      BY <3>2 DEF Lapse, Works, Trouble, world, IInv, TypeInv, HistoryOK
    <3>3. ASSUME NEW c \in Callers, Crash(c) PROVE troubles' # 0
      BY <3>3 DEF Crash, Trouble, IInv, TypeInv, HistoryOK
    <3>4. CASE UNCHANGED vars BY <3>4 DEF vars, world
    <3> QED BY <3>1, <3>2, <3>3, <3>4 DEF Next, Act
  <2>2. QuietOK' BY <2>1 DEF QuietOK
  <2>3. ASSUME NEW k \in Keys, k.limiter = "conc", troubles' = 0
        PROVE  count'[k] = Cardinality(Users(k)')
    <3>1. ASSUME NEW c \in Callers, Act(c) PROVE count'[k] = Cardinality(Users(k)')
      BY <2>3, <3>1, ActSlots
    <3>2. ASSUME NEW j \in Keys, Lapse(j) PROVE count'[k] = Cardinality(Users(k)')
      <4>1. \A c \in Callers : Uses(c, k)' <=> Uses(c, k) BY <3>2 DEF Lapse, call, Uses, Taken
      <4>2. Users(k)' = Users(k) BY <4>1 DEF Users
      <4>3. dead = {} /\ troubles = 0 /\ troubles' = troubles BY <2>1, <2>3 DEF QuietOK
      <4>4. ~\E c \in Callers \ dead : Uses(c, j)
        BY <3>2, <4>3 DEF Lapse, Trouble
      <4>5. CASE k = j
        <5>1. Users(k) = {} BY <4>3, <4>4, <4>5 DEF Users
        <5>2. count'[k] = 0 BY <3>2, <4>5 DEF Lapse, IInv, TypeInv, CountersOK
        <5> QED BY <4>2, <5>1, <5>2, FS_EmptySet
      <4>6. CASE k # j
        <5>1. count'[k] = count[k] BY <3>2, <4>6 DEF Lapse, IInv, TypeInv, CountersOK
        <5> QED BY <2>3, <4>2, <4>3, <5>1 DEF SlotsComeBack
      <4> QED BY <4>5, <4>6
    <3>3. ASSUME NEW c \in Callers, Crash(c) PROVE FALSE
      BY <2>3, <3>3 DEF Crash, Trouble, IInv, TypeInv, HistoryOK
    <3>4. CASE UNCHANGED vars
      <4>1. Users(k)' = Users(k) /\ count' = count /\ troubles = 0
        BY <2>1, <2>3, <3>4 DEF vars, call, keys, Users, Uses, Taken
      <4> QED BY <2>3, <4>1 DEF SlotsComeBack
    <3> QED BY <3>1, <3>2, <3>3, <3>4 DEF Next, Act
  <2> QED BY <2>2, <2>3 DEF SlotsComeBack
<1>3. SlotInv => SlotsComeBack BY DEF SlotInv
<1> QED BY <1>1, <1>2, <1>3, Invariance, PTL DEF Spec, SlotInv

-----------------------------------------------------------------------------
(* Windows end. *)

\* The inductive form: such a counter has a caller between its INCR and its EXPIRE, alive
\* or dead.
StartedInv == faults = 0 => \A k \in Keys :
  count[k] > 0 /\ life[k] = "lasting" => \E c \in Callers : Starts(c, k)

\* A command lowers its counter, or leaves it, unless it is an INCR, and a counter that
\* is below its TTL afterwards was so before.
LEMMA StaysRaised ==
  ASSUME TypeInv, NEW c \in Callers, Act(c), ~IncrWithin(c), ~IncrOver(c), Works, NEW k \in Keys,
         count'[k] > 0, life'[k] = "lasting"
  PROVE  /\ count[k] > 0 /\ life[k] = "lasting"
         /\ Expire(c) => Key(c) # k
<1> USE DEF TypeInv, CountersOK, Live
<1>1. ~Fails BY DEF Works, Fails, world, HistoryOK
<1>2. VarsOK /\ CallOK(c) OBVIOUS
<1>3. ASSUME NEW j \in Keys, Add(j, -1) PROVE count[k] > 0 /\ life[k] = "lasting"
  BY <1>3 DEF Add
<1>4. ASSUME NEW j \in Keys, EXPIRE(j) PROVE count[k] > 0 /\ life[k] = "lasting" /\ j # k
  BY <1>4 DEF EXPIRE
<1>5. ASSUME NEW j \in Keys, SetZero(j) PROVE count[k] > 0 /\ life[k] = "lasting"
  BY <1>5 DEF SetZero
<1>6. CASE Begin(c) \/ Ttl(c) \/ Request(c) BY <1>6 DEF Begin, Ttl, Request, keys, Expire
<1>7. CASE Expire(c)
  <2>1. Key(c) \in Keys BY <1>2, <1>7, KeyLemma DEF Expire
  <2> QED BY <1>1, <1>4, <1>7, <2>1 DEF Expire, FailOpen
<1>8. CASE UndoOwn(c)
  <2>1. Key(c) \in Keys BY <1>2, <1>8, KeyLemma DEF UndoOwn
  <2> QED BY <1>1, <1>3, <1>8, <2>1 DEF UndoOwn, FailOpen, Expire
<1>9. CASE Undo(c) \/ Release(c)
  <2>1. \A i \in rest[c] : KeyOf(c, asks[c], i) \in Keys BY <1>2, KeyLemma
  <2> QED BY <1>1, <1>3, <1>9, <2>1 DEF Undo, Release, FailOpen, Next1, Expire
<1>10. CASE Reset(c)
  <2>1. Key(c) \in Keys BY <1>2, <1>10, KeyLemma DEF Reset
  <2> QED BY <1>1, <1>5, <1>10, <2>1 DEF Reset, Expire
<1>11. ~IncrFails(c) BY <1>1 DEF IncrFails, FailOpen
<1> QED BY <1>6, <1>7, <1>8, <1>9, <1>10, <1>11 DEF Act

LEMMA ActWindows ==
  ASSUME TypeInv, StartedInv, faults = 0, NEW c \in Callers, Act(c), Works,
         NEW k \in Keys, count'[k] > 0, life'[k] = "lasting"
  PROVE  \E d \in Callers : Starts(d, k)'
<1> USE DEF TypeInv, Live
<1>1. VarsOK /\ CallOK(c) /\ asks[c] \in Limiter /\ rest[c] \in SUBSET Positions
  BY DEF VarsOK
<1>2. \A d \in Callers \ {c} : Starts(d, k) => Starts(d, k)'
  BY <1>1, ActMoves DEF Moves, OthersStay, Starts, Key
<1>3. count[k] > 0 /\ life[k] = "lasting" => \E d \in Callers : Starts(d, k)
  BY DEF StartedInv, Starts
<1>4. CASE ~IncrWithin(c) /\ ~IncrOver(c)
  <2>1. count[k] > 0 /\ life[k] = "lasting" /\ (Expire(c) => Key(c) # k) BY <1>4, StaysRaised
  <2>2. Starts(c, k) => Expire(c)
    BY DEF Starts, Act, Begin, IncrWithin, IncrOver, IncrFails, Expire, UndoOwn, Undo, Ttl, Request,
           Release, Reset
  <2> QED BY <1>2, <1>3, <2>1, <2>2 DEF Starts
<1>5. CASE IncrWithin(c) \/ IncrOver(c)
  <2>1. /\ pc[c] = "incr" /\ Key(c) \in Keys /\ ~Starts(c, k) /\ count[Key(c)] \in Int
        /\ Add(Key(c), 1) /\ count \in [Keys -> Int]
        /\ life \in [Keys -> {"absent", "lasting", "expiring"}]
        /\ life[k] = "absent" => count[k] = 0
    BY <1>1, <1>5, KeyLemma DEF IncrWithin, IncrOver, Starts, CountersOK
  <2>2. CASE k # Key(c) \/ count[Key(c)] > 0
    <3>1. count[k] > 0 /\ life[k] = "lasting" BY <2>1, <2>2 DEF Add
    <3> QED BY <1>2, <1>3, <2>1, <3>1
  <2>3. CASE k = Key(c) /\ count[Key(c)] <= 0
    <3>1. count[Key(c)] = 0 BY <2>1, <2>3 DEF Add
    <3>2. Limit[Key(c)] \in Nat \ {0} BY <2>1, LimitersAssumption
    <3>3. ~IncrOver(c)
      <4>1. ~(count[Key(c)] >= Limit[Key(c)]) BY <3>1, <3>2
      <4> HIDE DEF TypeInv
      <4> QED BY <4>1, Zenon DEF IncrOver
    <3>4. Goto(c, "expire", {}) BY <1>5, <3>1, <3>3 DEF IncrWithin, NeedsTtl
    <3>5. IsAt(c, asks[c], "expire", scope[c], held[c], {}) BY <1>1, <3>4, GotoLemma DEF Places
    <3> QED BY <2>3, <3>5 DEF IsAt, Starts, Key
  <2> QED BY <2>1, <2>2, <2>3
<1> QED BY <1>4, <1>5

\* As long as no command rejects, a counter above zero has a TTL or a caller about to set
\* it, unless one of its callers died between its INCR and its EXPIRE.
THEOREM WindowsEndHolds == Spec => []WindowsEnd
<1>1. Init => StartedInv BY DEF Init, StartedInv
<1>2. IInv /\ StartedInv /\ [Next]_vars => StartedInv'
  <2> SUFFICES ASSUME TypeInv, StartedInv, [Next]_vars, faults' = 0, NEW k \in Keys,
                      count'[k] > 0, life'[k] = "lasting"
               PROVE  \E c \in Callers : Starts(c, k)'
    BY DEF StartedInv, IInv
  <2>1. ASSUME NEW c \in Callers, Act(c) PROVE \E d \in Callers : Starts(d, k)'
    <3>1. Works /\ faults = 0
      BY <2>1, SpentLemma DEF Works, Fails, world, TypeInv, HistoryOK
    <3> QED BY <2>1, <3>1, ActWindows
  <2>2. ASSUME NEW j \in Keys, Lapse(j) PROVE \E d \in Callers : Starts(d, k)'
    <3>1. faults = 0 /\ \A d \in Callers : Starts(d, k)' <=> Starts(d, k)
      BY <2>2 DEF Lapse, Works, world, call, Starts, Key
    <3>2. count[k] > 0 /\ life[k] = "lasting" BY <2>2 DEF Lapse, TypeInv, CountersOK
    <3> QED BY <3>1, <3>2 DEF StartedInv
  <2>3. ASSUME NEW c \in Callers, Crash(c) PROVE \E d \in Callers : Starts(d, k)'
    <3>1. faults = 0 /\ \A d \in Callers : Starts(d, k)' <=> Starts(d, k)
      BY <2>3 DEF Crash, call, Starts, Key
    <3> QED BY <2>3, <3>1 DEF Crash, keys, StartedInv
  <2>4. CASE UNCHANGED vars
    <3>1. faults = 0 /\ \A d \in Callers : Starts(d, k)' <=> Starts(d, k)
      BY <2>4 DEF vars, world, call, Starts, Key
    <3> QED BY <2>4, <3>1 DEF vars, keys, StartedInv
  <2> QED BY <2>1, <2>2, <2>3, <2>4 DEF Next, Act
<1>3. StartedInv => WindowsEnd
  BY DEF StartedInv, WindowsEnd
<1> QED BY <1>1, <1>2, <1>3, Invariance, PTL DEF Spec
=============================================================================
