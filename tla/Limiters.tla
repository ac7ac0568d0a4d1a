------------------------------- MODULE Limiters -------------------------------
(***************************************************************************)
(* The counters in Redis that limit requests: the outbound rate limiter    *)
(* and the outbound concurrency limiter, as executeStep calls one after    *)
(* the other around an HTTP request, and the rate limiter of the gateway.  *)
(*                                                                         *)
(* An action is one Redis command with the local work after its answer.    *)
(* A counter is a Redis key that is absent, lasting (without a TTL) or     *)
(* expiring.                                                               *)
(***************************************************************************)
EXTENDS Integers, FiniteSets, Sequences

CONSTANTS
  Callers,       \* step attempts that make an outbound request, or requests to the gateway
  TenantOf, ProviderOf, StepOf,     \* what a caller is counted under
  Unused,        \* model value: the part of a key that its scope leaves out
  Limit,         \* the configured limits: a function from keys to numbers
  MaxTroubles    \* bound: rejected commands, untimely lapses and crashes together

Limiter == {"rate", "conc", "gate"}
Scopes(limiter) ==
  CASE limiter = "rate" -> <<"step", "tenant_provider", "provider", "global">>
    [] limiter = "conc" -> <<"step", "tenant_provider", "tenant", "provider", "global">>
    [] limiter = "gate" -> <<"tenant">>
Positions == 1 .. 5

\* The key that counts caller c in a scope of a limiter.
KeyOf(c, limiter, i) ==
  LET name == Scopes(limiter)[i]
  IN  [limiter  |-> limiter, scope |-> name,
       tenant   |-> IF name \in {"step", "tenant_provider", "tenant"} THEN TenantOf[c] ELSE Unused,
       provider |-> IF name \in {"tenant_provider", "provider"} THEN ProviderOf[c] ELSE Unused,
       step     |-> IF name = "step" THEN StepOf[c] ELSE Unused]

Keys == DOMAIN Limit

\* scopesToCheck: the positions for which a limit is configured.
ScopesToCheck(c, limiter) ==
  {i \in 1 .. Len(Scopes(limiter)) : KeyOf(c, limiter, i) \in Keys}

ASSUME LimitersAssumption ==
  /\ IsFiniteSet(Callers)
  /\ Limit \in [Keys -> Nat \ {0}]
  /\ MaxTroubles \in Nat

VARIABLES
  count,     \* the value of each counter, 0 if the key is absent
  life,      \* whether the key is absent, lasting or expiring
  asks,      \* the limiter a caller is at
  pc,        \* where in it
  scope,     \* the position it is checking
  held,      \* acquiredKeys or consumedKeys: positions passed
  rest,      \* the positions it has still to give back
  \* History:
  spent,     \* for each counter, the callers it has let pass and not given back to
  dead,      \* callers whose process has crashed
  troubles, faults, lapses     \* all troubles; rejected commands; untimely lapses

keys == <<count, life>>
call == <<asks, pc, scope, held, rest>>
world == <<dead, troubles, faults, lapses>>
vars == <<keys, call, spent, world>>

Key(c) == KeyOf(c, asks[c], scope[c])

TypeOK ==
  /\ count \in [Keys -> Int]
  /\ life \in [Keys -> {"absent", "lasting", "expiring"}]
  /\ asks \in [Callers -> Limiter]
  /\ pc \in [Callers -> {"idle", "incr", "expire", "expireOver", "undoOwn", "undo", "ttl", "request",
                         "release", "reset", "passed", "refused"}]
  /\ scope \in [Callers -> Positions]
  /\ held \in [Callers -> SUBSET Positions] /\ rest \in [Callers -> SUBSET Positions]
  /\ spent \in [Keys -> SUBSET Callers] /\ dead \in SUBSET Callers
  /\ troubles \in 0 .. MaxTroubles /\ faults \in 0 .. MaxTroubles /\ lapses \in 0 .. MaxTroubles
  /\ \A k \in Keys : life[k] = "absent" => count[k] = 0
  /\ \A c \in Callers :
       /\ pc[c] \in {"incr", "expire", "expireOver", "undoOwn", "reset"}
            => scope[c] \in ScopesToCheck(c, asks[c])
       /\ pc[c] \in {"incr", "expire", "expireOver", "undoOwn"}
            => \A j \in held[c] : j < scope[c]
       /\ held[c] \cup rest[c] \subseteq ScopesToCheck(c, asks[c])

Init ==
  /\ count = [k \in Keys |-> 0] /\ life = [k \in Keys |-> "absent"]
  /\ asks = [c \in Callers |-> "gate"] /\ pc = [c \in Callers |-> "idle"]
  /\ scope = [c \in Callers |-> 1]
  /\ held = [c \in Callers |-> {}] /\ rest = [c \in Callers |-> {}]
  /\ spent = [k \in Keys |-> {}] /\ dead = {}
  /\ troubles = 0 /\ faults = 0 /\ lapses = 0

-----------------------------------------------------------------------------
(* Redis. *)

Works == UNCHANGED world
Trouble == troubles < MaxTroubles /\ troubles' = troubles + 1
Fails == Trouble /\ faults' = faults + 1 /\ UNCHANGED <<dead, lapses>>

Add(k, n) ==
  /\ count' = [count EXCEPT ![k] = @ + n]
  /\ life' = [life EXCEPT ![k] = IF @ = "absent" THEN "lasting" ELSE @]
EXPIRE(k) ==
  count' = count /\ life' = [life EXCEPT ![k] = IF @ = "absent" THEN @ ELSE "expiring"]
SetZero(k) ==
  count' = [count EXCEPT ![k] = 0] /\ life' = [life EXCEPT ![k] = "lasting"]

-----------------------------------------------------------------------------
(* The way of a call through the scopes. *)

Live(c, place) == pc[c] = place /\ c \notin dead

At(c, limiter, place, i, got, back) ==
  /\ asks' = [asks EXCEPT ![c] = limiter] /\ pc' = [pc EXCEPT ![c] = place]
  /\ scope' = [scope EXCEPT ![c] = i]
  /\ held' = [held EXCEPT ![c] = got] /\ rest' = [rest EXCEPT ![c] = back]
Goto(c, place, back) == At(c, asks[c], place, scope[c], held[c], back)
End(c, place) == At(c, "gate", place, 1, {}, {})     \* nothing of it is needed any more

\* Mutant of ToCheck: a scope is checked again.
CheckAgain(c, limiter, i) == {j \in ScopesToCheck(c, limiter) : j >= i}

\* The scopes of a limiter after position i.  When there is none left, the request of a
\* gateway passes and the step goes on to its HTTP request.
ToCheck(c, limiter, i) == {j \in ScopesToCheck(c, limiter) : j > i}
Ask(c, limiter, i, got) ==
  \/ \E j \in ToCheck(c, limiter, i) :
       /\ \A other \in ToCheck(c, limiter, i) : j <= other
       /\ At(c, limiter, "incr", j, got, {})
  \/ /\ ToCheck(c, limiter, i) = {}
     /\ IF limiter = "gate" THEN End(c, "passed") ELSE At(c, limiter, "request", 1, got, {})

\* executeStep asks the rate limiter first, then the concurrency limiter.
Outbound(c, i, got) ==
  IF ToCheck(c, "rate", i) # {} THEN Ask(c, "rate", i, got) ELSE Ask(c, "conc", 0, {})

Proceed(c, got) == IF asks[c] = "rate" THEN Outbound(c, scope[c], got)
                   ELSE Ask(c, asks[c], scope[c], got)

\* The catch of a limiter: it goes on to the next scope as if this one had no limit.
FailOpen(c) == Fails /\ Proceed(c, held[c])

Begin(c) ==
  /\ Live(c, "idle")
  /\ Ask(c, "gate", 0, {}) \/ Outbound(c, 0, {})
  /\ Works /\ UNCHANGED <<keys, spent>>

Charge(c) == spent' = [spent EXCEPT ![Key(c)] = @ \cup {c}]
Withdraw(c) == spent' = [k \in Keys |-> spent[k] \ {c}]

\* Mutant of NeedsTtl: only the global window is started.
GlobalNeedsTtl(c) ==
  asks[c] = "conc" \/ (count[Key(c)] + 1 = 1 /\ Scopes(asks[c])[scope[c]] = "global")

\* INCR.  The first to count in a rate window starts it; a slot is always renewed.
NeedsTtl(c) == asks[c] = "conc" \/ count[Key(c)] + 1 = 1

IncrWithin(c) ==
  /\ Live(c, "incr") /\ count[Key(c)] < Limit[Key(c)]
  /\ Add(Key(c), 1) /\ Charge(c)
  /\ IF NeedsTtl(c) THEN Goto(c, "expire", {}) ELSE Proceed(c, held[c] \cup {scope[c]})
  /\ Works

\* Mutant of IncrOver: the limit itself is let pass once more.
IncrOverByTwo(c) ==
  /\ Live(c, "incr") /\ count[Key(c)] >= Limit[Key(c)]
  /\ Add(Key(c), 1)
  /\ IF count[Key(c)] = Limit[Key(c)] THEN Charge(c) /\ Proceed(c, held[c] \cup {scope[c]})
     ELSE Withdraw(c) /\ Goto(c, "undoOwn", {})
  /\ Works

IncrOver(c) ==
  /\ Live(c, "incr") /\ count[Key(c)] >= Limit[Key(c)]
  /\ Add(Key(c), 1) /\ Withdraw(c)
  /\ CASE asks[c] = "gate" -> End(c, "refused")
       [] asks[c] = "rate" -> Goto(c, "undoOwn", {})
       [] asks[c] = "conc" -> Goto(c, "expireOver", {})
  /\ Works

IncrFails(c) ==
  /\ Live(c, "incr") /\ FailOpen(c)
  /\ Add(Key(c), 1) \/ UNCHANGED keys
  /\ UNCHANGED spent

Expire(c) ==
  /\ Live(c, "expire") \/ Live(c, "expireOver")
  /\ \/ /\ Works /\ EXPIRE(Key(c))
        /\ IF pc[c] = "expire" THEN Proceed(c, held[c] \cup {scope[c]})
           ELSE Goto(c, "undoOwn", {})
     \/ FailOpen(c) /\ (EXPIRE(Key(c)) \/ UNCHANGED keys)
  /\ UNCHANGED spent

-----------------------------------------------------------------------------
(* A refusal gives back what the scopes before have counted. *)

Refuse(c) == IF asks[c] = "rate" THEN Goto(c, "ttl", {}) ELSE End(c, "refused")
GiveBack(c, back) == IF back # {} THEN Goto(c, "undo", back) ELSE Refuse(c)

\* Mutant of UndoOwn: the scopes before are forgotten.
UndoOwnOnly(c) ==
  /\ Live(c, "undoOwn")
  /\ Works /\ Add(Key(c), -1) /\ Refuse(c)
  /\ UNCHANGED spent

UndoOwn(c) ==
  /\ Live(c, "undoOwn")
  /\ \/ Works /\ Add(Key(c), -1) /\ GiveBack(c, held[c])
     \/ FailOpen(c) /\ (Add(Key(c), -1) \/ UNCHANGED keys)
  /\ UNCHANGED spent

\* The first of the positions that are to be given back.
Next1(c, i) == i \in rest[c] /\ \A j \in rest[c] : i <= j

Undo(c) ==
  /\ Live(c, "undo")
  /\ \E i \in Positions :
       /\ Next1(c, i)
       /\ \/ Works /\ Add(KeyOf(c, asks[c], i), -1) /\ GiveBack(c, rest[c] \ {i})
          \/ FailOpen(c) /\ (Add(KeyOf(c, asks[c], i), -1) \/ UNCHANGED keys)
  /\ UNCHANGED spent

\* The rate limiter asks when the window ends; when that fails, it lets the call pass.
Ttl(c) ==
  /\ Live(c, "ttl")
  /\ \/ Works /\ End(c, "refused")
     \/ FailOpen(c)
  /\ UNCHANGED <<keys, spent>>

-----------------------------------------------------------------------------
(* The HTTP request and, in the finally that follows it, the release of the lease. *)

ReleaseRest(c, back) == IF back # {} THEN Goto(c, "release", back) ELSE End(c, "passed")

Request(c) ==
  /\ Live(c, "request") /\ ReleaseRest(c, held[c])
  /\ Works /\ UNCHANGED <<keys, spent>>

Release(c) ==
  /\ Live(c, "release")
  /\ \E i \in Positions :
       LET k == KeyOf(c, asks[c], i)
       IN  /\ Next1(c, i)
           /\ \/ Works /\ Add(k, -1) /\ count[k] > 0 /\ ReleaseRest(c, rest[c] \ {i})
              \/ /\ Works /\ Add(k, -1) /\ count[k] <= 0
                 /\ At(c, "conc", "reset", i, held[c], rest[c] \ {i})
              \/ Fails /\ (Add(k, -1) \/ UNCHANGED keys) /\ ReleaseRest(c, rest[c] \ {i})
  /\ UNCHANGED spent

\* Below zero: SET 0, whatever the counter is by now.
Reset(c) ==
  /\ Live(c, "reset")
  /\ \/ Works /\ SetZero(Key(c))
     \/ Fails /\ (SetZero(Key(c)) \/ UNCHANGED keys)
  /\ ReleaseRest(c, rest[c]) /\ UNCHANGED spent

-----------------------------------------------------------------------------
(* Time and crashes. *)

\* The positions whose counters the caller has raised and is to lower again, unless
\* all limits let it pass.
Taken(c) ==
  CASE pc[c] \in {"incr", "request"} -> held[c]
    [] pc[c] \in {"expire", "expireOver", "undoOwn"} -> held[c] \cup {scope[c]}
    [] pc[c] \in {"undo", "release", "reset"} -> rest[c]
    [] OTHER -> {}
Uses(c, k) == \E i \in Taken(c) : KeyOf(c, asks[c], i) = k

Lapse(k) ==
  /\ life[k] = "expiring"
  /\ count' = [count EXCEPT ![k] = 0] /\ life' = [life EXCEPT ![k] = "absent"]
  /\ spent' = [spent EXCEPT ![k] = {}]
  /\ IF \E c \in Callers \ dead : Uses(c, k)
     THEN Trouble /\ lapses' = lapses + 1 /\ UNCHANGED <<dead, faults>>
     ELSE Works
  /\ UNCHANGED call

Crash(c) ==
  /\ c \notin dead /\ pc[c] \notin {"idle", "passed", "refused"}
  /\ dead' = dead \cup {c} /\ Trouble
  /\ UNCHANGED <<keys, call, spent, faults, lapses>>

-----------------------------------------------------------------------------
Next ==
  \/ \E c \in Callers :
       \/ Begin(c) \/ IncrWithin(c) \/ IncrOver(c) \/ IncrFails(c) \/ Expire(c)
       \/ UndoOwn(c) \/ Undo(c) \/ Ttl(c) \/ Request(c) \/ Release(c) \/ Reset(c) \/ Crash(c)
  \/ \E k \in Keys : Lapse(k)

Spec == Init /\ [][Next]_vars

-----------------------------------------------------------------------------
(* Properties. *)

\* As long as Redis answers and no counter lapses under a holder, a limit on
\* concurrency bounds the requests under way, whatever processes have crashed.
InFlight(k) == {c \in Callers \ dead : pc[c] = "request" /\ Uses(c, k)}
InFlightWithinLimits ==
  faults = 0 /\ lapses = 0 => \A k \in Keys : Cardinality(InFlight(k)) <= Limit[k]

\* Every path gives back exactly what it has taken: unless something went wrong, a slot
\* counter counts the callers that are using it, and so is zero when there are none.
Users(k) == {c \in Callers : Uses(c, k)}
SlotsComeBack ==
  troubles = 0 =>
    \A k \in Keys : k.limiter = "conc" => count[k] = Cardinality(Users(k))

\* As long as Redis answers and no window ends while a caller may still lower its counter,
\* no more callers pass in one life of a window than the limit, those counted that another
\* scope or the concurrency limiter refused in the end left out.
WindowsHold ==
  faults = 0 /\ lapses = 0 =>
    \A k \in Keys : Cardinality(spent[k]) <= Limit[k] \/ k.limiter = "conc"

\* As long as no command rejects, a counter above zero has a TTL, or a caller that is
\* about to set it; the only exception is a counter one of whose callers has died right
\* between its INCR and its EXPIRE. So a window ends, and a slot comes back also when its
\* caller has died anywhere else, with the request under way for instance.
Starts(c, k) == pc[c] \in {"expire", "expireOver"} /\ Key(c) = k
WindowsEnd ==
  faults = 0 => \A k \in Keys :
    count[k] > 0 /\ life[k] = "lasting" /\ (\A c \in dead : ~Starts(c, k))
      => \E c \in Callers \ dead : Starts(c, k)
=============================================================================
