-------------------- MODULE PerDomainThrottle_proofs --------------------
(***************************************************************************)
(* For any callers, domains and delays: a turn's queue is exactly those    *)
(* that wait for it, a domain has one queue, its delay shrinks only for a  *)
(* reason, and the throttle paces its requests as PacedTurns promises.     *)
(***************************************************************************)
EXTENDS PerDomainThrottle, SequenceTheorems, TLAPS

InQueue == {"queued", "asleep"}

IsOption(o) == \A x, y \in o : x = y
Distinct(q) == \A i, k \in 1 .. Len(q) : q[i] = q[k] => i = k

Types ==
    /\ pc \in [Callers -> {"idle", "entering", "queued", "asleep", "sent"}]
    /\ turn \in [Callers -> Turns \cup {<<>>}] /\ left \in [Callers -> 0 .. 2 * Ttl]
    /\ DOMAIN state \subseteq Domains
    /\ current \in [Domains -> {0, 1}] /\ sweepAge \in 0 .. SweepInterval
    /\ since \in [Domains -> 0 .. Ttl]

(* An Option has at most one member, and a delay of the domain's own comes *)
(* from a back-off or from its robots.txt.                                 *)
StateFine(s) ==
    /\ s \in States /\ IsOption(s.crawl) /\ IsOption(s.robots)
    /\ \A x \in s.crawl : x <= MaxBackoff \/ x \in s.robots
    /\ \A x \in s.crawl : s.robots = {} => x >= Default \/ x = MaxBackoff

(* A domain's clock is never ahead of the last request that went, and only *)
(* a domain that nobody asked for the lifetime of its state is unknown.    *)
ClocksFine ==
    /\ \A d \in DOMAIN state : StateFine(state[d]) /\ state[d].age <= since[d]
    /\ \A d \in Domains \ DOMAIN state : since[d] = Ttl

(* Nobody is in a queue twice, and who sleeps is at its head.              *)
QueuesFine ==
    /\ queue \in [Turns -> Seq(Callers)]
    /\ \A t \in Turns : Distinct(queue[t])
    /\ \A t \in Turns : Elements(queue[t]) = {c \in Callers : pc[c] \in InQueue /\ turn[c] = t}
    /\ \A c \in Callers : pc[c] = "asleep" => queue[turn[c]][1] = c

IInv == Types /\ ClocksFine /\ QueuesFine /\ OneQueue

-----------------------------------------------------------------------------
(* Queues *)

LEMMA ElementsAre ==
    ASSUME NEW q \in Seq(Callers)
    PROVE  /\ Len(q) \in Nat /\ DOMAIN q = 1 .. Len(q)
           /\ \A i \in 1 .. Len(q) : q[i] \in Callers
           /\ Elements(q) = {q[i] : i \in 1 .. Len(q)} /\ Elements(q) \subseteq Callers
           /\ (q = <<>> <=> Len(q) = 0) /\ (q = <<>> <=> Elements(q) = {})
<1>1. Len(q) \in Nat /\ DOMAIN q = 1 .. Len(q) /\ q \in [1 .. Len(q) -> Callers]
    BY LenProperties
<1>2. q = <<>> <=> Len(q) = 0
    BY EmptySeq
<1>3. \A i \in 1 .. Len(q) : q[i] \in Callers
    BY <1>1
<1>4. Elements(q) = {q[i] : i \in 1 .. Len(q)}
    BY <1>1 DEF Elements
<1>5. Elements(q) \subseteq Callers
    BY <1>3, <1>4
<1>6. Len(q) = 0 <=> Elements(q) = {}
    <2>1. Len(q) # 0 => 1 \in 1 .. Len(q)
        BY <1>1
    <2>2. Len(q) = 0 => 1 .. Len(q) = {}
        BY <1>1
    <2> QED BY <1>4, <2>1, <2>2
<1> QED BY <1>1, <1>2, <1>3, <1>4, <1>5, <1>6

LEMMA Appended ==
    ASSUME NEW q \in Seq(Callers), Distinct(q), NEW c \in Callers, c \notin Elements(q)
    PROVE  /\ Append(q, c) \in Seq(Callers) /\ Distinct(Append(q, c))
           /\ Elements(Append(q, c)) = Elements(q) \cup {c}
           /\ q # <<>> => Append(q, c)[1] = q[1]
<1> DEFINE r == Append(q, c)
<1>1. /\ r \in Seq(Callers) /\ Len(r) = Len(q) + 1
      /\ \A i \in 1 .. Len(q) : r[i] = q[i]
      /\ r[Len(q) + 1] = c
    BY AppendProperties
<1> HIDE DEF r
<1>2. /\ Len(q) \in Nat /\ Elements(q) = {q[i] : i \in 1 .. Len(q)}
      /\ Elements(r) = {r[i] : i \in 1 .. Len(q) + 1} /\ (q = <<>> <=> Len(q) = 0)
    BY <1>1, ElementsAre
<1>3. Elements(r) = Elements(q) \cup {c}
    BY <1>1, <1>2
<1>4. \A i \in 1 .. Len(q) : q[i] # c
    BY <1>2
<1>5. Distinct(r)
    BY <1>1, <1>2, <1>4 DEF Distinct
<1> QED BY <1>1, <1>2, <1>3, <1>5 DEF r

LEMMA Headed ==
    ASSUME NEW q \in Seq(Callers), q # <<>>
    PROVE  /\ Head(q) = q[1] /\ Head(q) \in Callers /\ Tail(q) \in Seq(Callers)
           /\ Len(Tail(q)) = Len(q) - 1 /\ \A i \in 1 .. Len(q) - 1 : Tail(q)[i] = q[i + 1]
<1>1. Head(q) = q[1]
    OBVIOUS
<1> QED BY <1>1, HeadTailProperties

(* Who is removed is gone, and everybody else stays, in the same order.    *)
LEMMA RemovedAt ==
    ASSUME NEW q \in Seq(Callers), NEW i \in 1 .. Len(q)
    PROVE  /\ RemoveAt(q, i) \in Seq(Callers) /\ Len(RemoveAt(q, i)) = Len(q) - 1
           /\ \A k \in 1 .. Len(q) - 1 : RemoveAt(q, i)[k] = IF k < i THEN q[k] ELSE q[k + 1]
<1> DEFINE a == SubSeq(q, 1, i - 1)
           b == SubSeq(q, i + 1, Len(q))
<1>0. Len(q) \in Nat /\ \A k \in 1 .. Len(q) : q[k] \in Callers
    BY ElementsAre
<1>1. a \in Seq(Callers) /\ Len(a) = i - 1 /\ \A k \in 1 .. i - 1 : a[k] = q[k]
    BY <1>0, SubSeqProperties
<1>2. b \in Seq(Callers) /\ Len(b) = Len(q) - i /\ \A k \in 1 .. Len(q) - i : b[k] = q[k + i]
    <2>1. /\ b \in Seq(Callers) /\ Len(b) = (IF i + 1 <= Len(q) THEN Len(q) - (i + 1) + 1 ELSE 0)
          /\ \A k \in 1 .. Len(q) - (i + 1) + 1 : b[k] = q[(i + 1) + k - 1]
        BY <1>0, SubSeqProperties
    <2> QED BY <1>0, <2>1
<1>3. /\ a \o b \in Seq(Callers) /\ Len(a \o b) = Len(a) + Len(b)
      /\ \A k \in 1 .. Len(a) + Len(b) : (a \o b)[k] = IF k <= Len(a) THEN a[k] ELSE b[k - Len(a)]
    BY <1>1, <1>2, ConcatProperties
<1>4. RemoveAt(q, i) = a \o b
    BY DEF RemoveAt
<1> HIDE DEF a, b
<1>5. Len(a \o b) = Len(q) - 1
    BY <1>0, <1>1, <1>2, <1>3
<1>6. ASSUME NEW k \in 1 .. Len(q) - 1 PROVE (a \o b)[k] = IF k < i THEN q[k] ELSE q[k + 1]
    <2>1. k \in 1 .. Len(a) + Len(b) /\ (k <= Len(a) <=> k < i)
        BY <1>0, <1>1, <1>2
    <2>2. CASE k < i
        BY <1>1, <1>3, <2>1, <2>2
    <2>3. CASE ~(k < i)
        <3>1. k - Len(a) \in 1 .. Len(q) - i /\ (k - Len(a)) + i = k + 1
            BY <1>0, <1>1, <2>3
        <3> QED BY <1>2, <1>3, <2>1, <2>3, <3>1
    <2> QED BY <2>2, <2>3
<1> QED BY <1>3, <1>4, <1>5, <1>6

LEMMA RemovedSet ==
    ASSUME NEW q \in Seq(Callers), Distinct(q), NEW i \in 1 .. Len(q), NEW r \in Seq(Callers),
           Len(r) = Len(q) - 1, \A k \in 1 .. Len(q) - 1 : r[k] = IF k < i THEN q[k] ELSE q[k + 1]
    PROVE  Distinct(r) /\ Elements(r) = Elements(q) \ {q[i]} /\ (r # <<>> /\ i # 1 => r[1] = q[1])
<1>1. /\ Len(q) \in Nat /\ Elements(q) = {q[k] : k \in 1 .. Len(q)}
      /\ Elements(r) = {r[k] : k \in 1 .. Len(q) - 1} /\ (r = <<>> <=> Len(r) = 0)
    BY ElementsAre
<1>2. Distinct(r)
    BY <1>1 DEF Distinct
<1>3. ASSUME NEW x \in Elements(r) PROVE x \in Elements(q) \ {q[i]}
    BY <1>1 DEF Distinct
<1>4. ASSUME NEW x \in Elements(q) \ {q[i]} PROVE x \in Elements(r)
    <2>1. PICK k \in 1 .. Len(q) : x = q[k] /\ k # i
        BY <1>1
    <2>2. CASE k < i
        <3>1. k \in 1 .. Len(q) - 1 /\ r[k] = q[k]
            BY <1>1, <2>2
        <3> QED BY <1>1, <2>1, <3>1
    <2>3. CASE k > i
        <3>1. k - 1 \in 1 .. Len(q) - 1 /\ ~(k - 1 < i) /\ (k - 1) + 1 = k
            BY <1>1, <2>3
        <3>2. r[k - 1] = q[k]
            BY <3>1
        <3> QED BY <1>1, <2>1, <3>1, <3>2
    <2> QED BY <1>1, <2>1, <2>2, <2>3
<1>5. r # <<>> /\ i # 1 => r[1] = q[1]
    BY <1>1
<1> QED BY <1>2, <1>3, <1>4, <1>5

LEMMA Tailed ==
    ASSUME NEW q \in Seq(Callers), Distinct(q), q # <<>>
    PROVE  /\ Tail(q) \in Seq(Callers) /\ Distinct(Tail(q))
           /\ Elements(Tail(q)) = Elements(q) \ {q[1]}
<1>1. Len(q) \in Nat /\ 1 \in 1 .. Len(q)
    BY ElementsAre
<1>2. \A k \in 1 .. Len(q) - 1 : Tail(q)[k] = IF k < 1 THEN q[k] ELSE q[k + 1]
    BY <1>1, Headed
<1> QED BY <1>1, <1>2, Headed, RemovedSet

LEMMA LeftQueue ==
    ASSUME NEW q \in Seq(Callers), Distinct(q), NEW c \in Elements(q)
    PROVE  /\ Leave(q, c) \in Seq(Callers) /\ Distinct(Leave(q, c))
           /\ Elements(Leave(q, c)) = Elements(q) \ {c}
           /\ q[1] # c /\ Leave(q, c) # <<>> => Leave(q, c)[1] = q[1]
           /\ \E i \in DOMAIN q : q[i] = c /\ Leave(q, c) = RemoveAt(q, i)
<1> DEFINE i == CHOOSE k \in DOMAIN q : q[k] = c
<1>1. DOMAIN q = 1 .. Len(q) /\ \E k \in DOMAIN q : q[k] = c
    BY ElementsAre DEF Elements
<1>2. i \in 1 .. Len(q) /\ q[i] = c
    BY <1>1
<1>3. Leave(q, c) = RemoveAt(q, i)
    BY DEF Leave
<1> HIDE DEF i
<1>4. /\ RemoveAt(q, i) \in Seq(Callers) /\ Len(RemoveAt(q, i)) = Len(q) - 1
      /\ \A k \in 1 .. Len(q) - 1 : RemoveAt(q, i)[k] = IF k < i THEN q[k] ELSE q[k + 1]
    BY <1>2, RemovedAt
<1>5. /\ Distinct(RemoveAt(q, i)) /\ Elements(RemoveAt(q, i)) = Elements(q) \ {q[i]}
      /\ (RemoveAt(q, i) # <<>> /\ i # 1 => RemoveAt(q, i)[1] = q[1])
    <2> DEFINE r == RemoveAt(q, i)
    <2>1. /\ r \in Seq(Callers) /\ Len(r) = Len(q) - 1
          /\ \A k \in 1 .. Len(q) - 1 : r[k] = IF k < i THEN q[k] ELSE q[k + 1]
        BY <1>4
    <2> HIDE DEF r
    <2>2. Distinct(r) /\ Elements(r) = Elements(q) \ {q[i]} /\ (r # <<>> /\ i # 1 => r[1] = q[1])
        BY <1>2, <2>1, RemovedSet
    <2> QED BY <2>2 DEF r
<1> QED BY <1>1, <1>2, <1>3, <1>4, <1>5

-----------------------------------------------------------------------------
(* Delays *)

LEMMA MaxOfTwo ==
    ASSUME NEW x \in Nat, NEW y \in Nat
    PROVE  Max({x, y}) = (IF x >= y THEN x ELSE y) /\ Min({x, y}) = (IF x >= y THEN y ELSE x)
BY DEF Max, Min

LEMMA OptionIs == ASSUME NEW o, IsOption(o) PROVE o = {} \/ \E x \in o : o = {x}
BY DEF IsOption

LEMMA OneOrElse ==
    ASSUME NEW o \in SUBSET Nat, IsOption(o), NEW n \in Nat
    PROVE  (o = {} => OrElse(o, n) = n) /\ (o # {} => OrElse(o, n) \in o)
<1>1. ASSUME NEW x \in o, o = {x} PROVE OrElse(o, n) \in o
    <2>1. Max({x, x}) = x /\ {x, x} = o
        BY <1>1, MaxOfTwo
    <2> QED BY <2>1 DEF OrElse
<1> QED BY <1>1, OptionIs DEF OrElse

(* The greatest of what a domain's own delay and its robots.txt ask for.   *)
LEMMA OrElseIs ==
    ASSUME NEW a \in SUBSET Nat, NEW b \in SUBSET Nat, IsOption(a), IsOption(b), NEW n \in Nat
    PROVE  /\ a \cup b = {} => OrElse(a \cup b, n) = n
           /\ a \cup b # {} => /\ OrElse(a \cup b, n) \in a \cup b
                               /\ \A x \in a \cup b : x <= OrElse(a \cup b, n)
<1>1. CASE a \cup b = {}
    BY <1>1 DEF OrElse
<1>2. CASE a \cup b # {}
    <2>1. PICK x \in a \cup b, y \in a \cup b : a \cup b = {x, y}
        <3>1. CASE a = {}
            <4>1. PICK x \in b : b = {x}
                BY <1>2, <3>1, OptionIs
            <4> QED BY <3>1, <4>1
        <3>2. CASE b = {}
            <4>1. PICK x \in a : a = {x}
                BY <1>2, <3>2, OptionIs
            <4> QED BY <3>2, <4>1
        <3>3. CASE a # {} /\ b # {}
            <4>0. PICK x \in a : a = {x}
                BY <3>3, OptionIs
            <4>1. PICK y \in b : b = {y}
                BY <3>3, OptionIs
            <4>2. a \cup b = {x, y} /\ x \in a \cup b /\ y \in a \cup b
                BY <4>0, <4>1
            <4> QED BY <4>2
        <3> QED BY <3>1, <3>2, <3>3
    <2>2. x \in Nat /\ y \in Nat
        OBVIOUS
    <2>3. OrElse({x, y}, n) = IF x >= y THEN x ELSE y
        BY <2>2, MaxOfTwo DEF OrElse
    <2> QED BY <1>2, <2>1, <2>2, <2>3
<1> QED BY <1>1, <1>2

LEMMA DelayIs ==
    ASSUME ThrottleAssumption, HorizonAssumption, NEW s, StateFine(s)
    PROVE  /\ Effective(s) \in 0 .. Ttl /\ Floor(s) \in 0 .. Ttl
           /\ OrElse(s.crawl, Default) \in 0 .. Ttl
           /\ \A x \in s.crawl : OrElse(s.crawl, Default) = x
           /\ s.crawl = {} => OrElse(s.crawl, Default) = Default
           /\ \A x \in s.robots : Floor(s) = x
           /\ s.robots = {} => Floor(s) = Default
           /\ \A x \in s.crawl \cup s.robots : Effective(s) >= x
           /\ Effective(s) \in s.crawl \cup s.robots \/ (s.crawl \cup s.robots = {} /\ Effective(s) = Default)
<1>1. /\ s.crawl \subseteq 0 .. Ttl /\ s.robots \subseteq 0 .. Ttl /\ Ttl \in Nat
      /\ IsOption(s.crawl) /\ IsOption(s.robots) /\ IsOption({}) /\ Default \in 0 .. Ttl
    BY DEF ThrottleAssumption, HorizonAssumption, StateFine, States, IsOption
<1>2. s.crawl \in SUBSET Nat /\ s.robots \in SUBSET Nat
    BY <1>1
<1>3. OrElse(s.crawl \cup s.robots, Default) \in 0 .. Ttl
    BY <1>1, <1>2, OrElseIs
<1>5. /\ OrElse(s.crawl, Default) \in 0 .. Ttl
      /\ \A x \in s.crawl : OrElse(s.crawl, Default) = x
      /\ s.crawl = {} => OrElse(s.crawl, Default) = Default
    <2>1. /\ s.crawl = {} => OrElse(s.crawl, Default) = Default
          /\ s.crawl # {} => OrElse(s.crawl, Default) \in s.crawl
        BY <1>1, <1>2, OneOrElse
    <2> QED BY <1>1, <2>1 DEF IsOption
<1>6. /\ Floor(s) \in 0 .. Ttl
      /\ \A x \in s.robots : Floor(s) = x
      /\ s.robots = {} => Floor(s) = Default
    <2>1. /\ s.robots = {} => OrElse(s.robots, Default) = Default
          /\ s.robots # {} => OrElse(s.robots, Default) \in s.robots
        BY <1>1, <1>2, OneOrElse
    <2> QED BY <1>1, <2>1 DEF IsOption, Floor
<1>7. /\ \A x \in s.crawl \cup s.robots : Effective(s) >= x
      /\ Effective(s) \in s.crawl \cup s.robots \/ (s.crawl \cup s.robots = {} /\ Effective(s) = Default)
    BY <1>1, <1>2, OrElseIs DEF Effective
<1> QED BY <1>3, <1>5, <1>6, <1>7 DEF Effective

USE ThrottleAssumption, HorizonAssumption

(* The state of a domain stays one through everything that is done to it.  *)
LEMMA NewIsFine == StateFine(NewState) /\ NewState.age = Default /\ NewState.robots = {}
BY DEF NewState, StateFine, States, IsOption, ThrottleAssumption, HorizonAssumption

LEMMA AgedIsFine ==
    ASSUME NEW s, StateFine(s), NEW a \in 0 .. Ttl
    PROVE  LET r == [s EXCEPT !.age = a] IN
           /\ StateFine(r) /\ r.age = a /\ r.robots = s.robots /\ Effective(r) = Effective(s)
<1>1. s \in States
    BY DEF StateFine
<1>2. LET r == [s EXCEPT !.age = a] IN
      r \in States /\ r.age = a /\ r.robots = s.robots /\ r.crawl = s.crawl
    BY <1>1 DEF States
<1> QED BY <1>2 DEF StateFine, Effective

LEMMA AskedIsFine ==
    ASSUME NEW s, StateFine(s), NEW delay \in 0 .. Ttl
    PROVE  LET r == [s EXCEPT !.robots = {delay}, !.crawl = {delay}] IN
           StateFine(r) /\ r.age = s.age /\ r.robots = {delay} /\ r.crawl = {delay}
<1>1. s \in States
    BY DEF StateFine
<1>2. LET r == [s EXCEPT !.robots = {delay}, !.crawl = {delay}] IN
      r \in States /\ r.age = s.age /\ r.robots = {delay} /\ r.crawl = {delay}
    BY <1>1 DEF States
<1> QED BY <1>2 DEF StateFine, IsOption

LEMMA BackedOff ==
    ASSUME NEW s, StateFine(s)
    PROVE  LET r == BackOff(s) IN
           /\ StateFine(r) /\ r.age = s.age /\ r.robots = s.robots
           /\ Default <= MaxBackoff => Effective(r) >= Effective(s)
<1> DEFINE n == OrElse(s.crawl, Default)
           m == Min({2 * n, MaxBackoff})
           r == BackOff(s)
<1>1. s \in States /\ n \in 0 .. Ttl /\ MaxBackoff \in 0 .. Ttl /\ Ttl \in Nat /\ Relax \in Nat \ {0}
    BY DelayIs DEF StateFine, ThrottleAssumption, HorizonAssumption
<1>2. m = IF 2 * n >= MaxBackoff THEN MaxBackoff ELSE 2 * n
    <2> HIDE DEF n
    <2>1. 2 * n \in Nat /\ MaxBackoff \in Nat
        BY <1>1
    <2> QED BY <2>1, MaxOfTwo
<1>3. m \in 0 .. Ttl /\ m <= MaxBackoff
    BY <1>1, <1>2
<1>4. r = [s EXCEPT !.ok = 0, !.crawl = {m}]
    BY DEF BackOff
<1> HIDE DEF n, m, r
<1>5. r \in States /\ r.age = s.age /\ r.robots = s.robots /\ r.crawl = {m}
    <2>1. {m} \in SUBSET (0 .. Ttl) /\ 0 \in 0 .. Relax - 1
        BY <1>1, <1>3
    <2> QED BY <1>1, <1>4, <2>1 DEF States
<1>6. s.robots = {} => m >= Default \/ m = MaxBackoff
    <2>1. s.robots = {} => n >= Default \/ n = MaxBackoff
        <3>1. Default \in Nat /\ (s.crawl = {} => n = Default) /\ \A x \in s.crawl : n = x
            BY DelayIs DEF ThrottleAssumption, n
        <3>2. \A x \in s.crawl : s.robots = {} => x >= Default \/ x = MaxBackoff
            BY DEF StateFine
        <3> QED BY <3>1, <3>2
    <2> QED BY <1>1, <1>2, <2>1 DEF ThrottleAssumption
<1>7. StateFine(r)
    BY <1>3, <1>5, <1>6 DEF StateFine, IsOption
<1>8. ASSUME Default <= MaxBackoff PROVE Effective(r) >= Effective(s)
    <2>1. /\ Effective(s) \in s.crawl \cup s.robots \/ (s.crawl \cup s.robots = {} /\ Effective(s) = Default)
          /\ \A x \in {m} \cup s.robots : Effective(r) >= x
          /\ Effective(r) \in Int /\ Effective(s) \in Int /\ Default \in Int
        BY <1>5, <1>7, DelayIs DEF ThrottleAssumption
    <2>2. CASE Effective(s) \in s.robots
        BY <2>1, <2>2
    <2>3. CASE Effective(s) \in s.crawl /\ Effective(s) \notin s.robots
        <3>1. Effective(s) <= MaxBackoff /\ n = Effective(s)
            BY <2>3, DelayIs DEF StateFine, n
        <3>2. m >= Effective(s)
            BY <1>1, <1>2, <3>1
        <3> QED BY <1>3, <2>1, <3>2
    <2>4. CASE s.crawl \cup s.robots = {} /\ Effective(s) = Default
        <3>1. n = Default
            BY <2>4, DelayIs DEF n
        <3>2. m >= Default
            BY <1>1, <1>2, <1>8, <3>1
        <3> QED BY <1>3, <2>1, <2>4, <3>2
    <2> QED BY <2>1, <2>2, <2>3, <2>4
<1> QED BY <1>5, <1>7, <1>8 DEF r

LEMMA Succeeded ==
    ASSUME NEW s, StateFine(s)
    PROVE  LET r == Success(s) IN
           /\ StateFine(r) /\ r.age = s.age /\ r.robots = s.robots
           /\ \/ Effective(r) = Effective(s)
              \/ s.ok = Relax - 1 /\ r.ok = 0 /\ 2 * Effective(r) + 1 >= Effective(s)
<1> DEFINE C == {h \in {c \div 2 : c \in s.crawl} : h > Floor(s)}
           r == Success(s)
<1>1. /\ s \in States /\ s.crawl \subseteq 0 .. Ttl /\ s.robots \subseteq 0 .. Ttl /\ s.ok \in 0 .. Relax - 1
      /\ IsOption(s.crawl) /\ Ttl \in Nat /\ Relax \in Nat \ {0} /\ Default \in 0 .. Ttl /\ MaxBackoff \in Nat
    BY DEF StateFine, States, ThrottleAssumption, HorizonAssumption
<1>2. CASE s.ok + 1 < Relax
    <2>1. r = [s EXCEPT !.ok = @ + 1]
        BY <1>2 DEF Success
    <2>2. r \in States /\ r.age = s.age /\ r.robots = s.robots /\ r.crawl = s.crawl
        BY <1>1, <1>2, <2>1 DEF States
    <2> QED BY <2>2 DEF StateFine, Effective
<1>3. CASE ~(s.ok + 1 < Relax)
    <2>1. r = [s EXCEPT !.ok = 0, !.crawl = C]
        BY <1>3 DEF Success
    <2>2. \A h \in C : h > Floor(s) /\ h \in 0 .. Ttl /\ \E c \in s.crawl : h = c \div 2 /\ h <= c
        BY <1>1
    <2>3. \A c \in s.crawl : c \div 2 > Floor(s) => c \div 2 \in C
        OBVIOUS
    <2> HIDE DEF C, r
    <2>4. r \in States /\ r.age = s.age /\ r.robots = s.robots /\ r.crawl = C /\ r.ok = 0
        <3>1. C \in SUBSET (0 .. Ttl) /\ 0 \in 0 .. Relax - 1
            BY <1>1, <2>2
        <3> QED BY <1>1, <2>1, <3>1 DEF States
    <2>5. IsOption(C)
        BY <1>1, <2>2 DEF IsOption
    <2>6. \A h \in C : \A x \in s.robots : h > x
        BY <2>2, DelayIs
    <2>7. \A h \in C : s.robots = {} => h >= Default
        BY <1>1, <2>2, DelayIs
    <2>8. \A h \in C : h <= MaxBackoff
        <3>1. SUFFICES ASSUME NEW h \in C, NEW c \in s.crawl, h <= c, h \in 0 .. Ttl PROVE h <= MaxBackoff
            BY <2>2
        <3>2. c \notin s.robots
            BY <1>1, <2>6, <3>1
        <3>3. c <= MaxBackoff
            BY <3>2 DEF StateFine
        <3> QED BY <1>1, <3>1, <3>3
    <2>9. StateFine(r)
        BY <2>4, <2>5, <2>7, <2>8 DEF StateFine
    <2>10. s.ok = Relax - 1
        BY <1>1, <1>3
    <2>11. 2 * Effective(r) + 1 >= Effective(s)
        <3>1. /\ Effective(s) \in s.crawl \cup s.robots \/ (Effective(s) = Default /\ s.crawl \cup s.robots = {})
              /\ \A x \in C \cup s.robots : Effective(r) >= x
              /\ Effective(r) \in C \cup s.robots \/ (C \cup s.robots = {} /\ Effective(r) = Default)
              /\ Effective(r) \in Nat /\ Effective(s) \in Nat /\ Floor(s) \in Nat
            BY <1>1, <2>4, <2>9, DelayIs
        <3>2. CASE Effective(s) \in s.robots
            BY <3>1, <3>2
        <3>3. CASE Effective(s) = Default /\ s.crawl \cup s.robots = {}
            BY <2>2, <3>1, <3>3
        <3>4. CASE Effective(s) \in s.crawl
            <4>0. Effective(r) >= Floor(s)
                BY <2>2, <3>1, DelayIs
            <4>1. Effective(s) \div 2 <= Effective(r)
                BY <1>1, <2>3, <3>1, <3>4, <4>0
            <4> QED BY <3>1, <4>1
        <3> QED BY <3>1, <3>2, <3>3, <3>4
    <2> QED BY <2>4, <2>9, <2>10, <2>11 DEF r
<1> QED BY <1>1, <1>2, <1>3

(* A wait keeps the gap that robots.txt asks for, whatever jitter makes of it. *)
LEMMA WaitsEnough ==
    ASSUME NEW s, StateFine(s), NEW w \in Waits(s)
    PROVE  w \in 0 .. 2 * Ttl /\ \A x \in s.robots : s.age + w >= x
<1>1. /\ Effective(s) \in 0 .. Ttl /\ Ttl \in Nat /\ s.age \in 0 .. Ttl
      /\ s.robots \subseteq 0 .. Ttl /\ IsOption(s.robots)
      /\ \A x \in s.robots : Effective(s) >= x
    BY DelayIs DEF StateFine, States, ThrottleAssumption
<1>2. CASE s.age >= Effective(s)
    BY <1>1, <1>2 DEF Waits
<1>3. CASE ~(s.age >= Effective(s))
    <2>1. PICK j \in Jittered(Effective(s)) :
            LET v == Max({j} \cup s.robots) IN w = IF v > s.age THEN v - s.age ELSE 0
        BY <1>3 DEF Waits
    <2>2. j \in Nat /\ j <= 2 * Ttl
        BY <1>1 DEF Jittered
    <2>3. CASE s.robots = {}
        <3>1. {j} \cup s.robots = {j, j}
            BY <2>3
        <3>2. Max({j} \cup s.robots) = j
            BY <2>2, <3>1, MaxOfTwo
        <3>3. w = IF j > s.age THEN j - s.age ELSE 0
            BY <2>1, <3>2
        <3> QED BY <1>1, <2>2, <2>3, <3>3
    <2>4. CASE s.robots # {}
        <3>1. PICK x \in s.robots : s.robots = {x}
            BY <1>1, <2>4, OptionIs
        <3>2. {j} \cup s.robots = {j, x}
            BY <3>1
        <3>3. Max({j} \cup s.robots) = IF j >= x THEN j ELSE x
            BY <1>1, <2>2, <3>1, <3>2, MaxOfTwo
        <3>4. PICK v : v = Max({j} \cup s.robots) /\ w = IF v > s.age THEN v - s.age ELSE 0
            BY <2>1
        <3>5. x \in 0 .. Ttl /\ s.age + w >= x /\ w \in 0 .. 2 * Ttl
            BY <1>1, <2>2, <3>1, <3>3, <3>4
        <3> QED BY <3>1, <3>5
    <2> QED BY <2>3, <2>4
<1> QED BY <1>2, <1>3

-----------------------------------------------------------------------------
(* The invariant *)

LEMMA TurnFacts ==
    ASSUME Types
    PROVE  /\ \A d \in Domains : TurnOf(d) \in Turns /\ TurnOf(d)[1] = d
           /\ \A c \in Callers, d \in Domains : turn[c] = TurnOf(d) => DomainOf(c) = d
           /\ \A d, e \in Domains : TurnOf(d) = TurnOf(e) => d = e
BY DEF Types, Turns, TurnOf, DomainOf

(* Who waits for a domain waits for the turn that the domain has.          *)
LEMMA WaitersTurn ==
    ASSUME IInv, NEW c \in Callers, pc[c] \in {"entering", "queued", "asleep"}
    PROVE  LET d == DomainOf(c) IN
           d \in DOMAIN state /\ d \in Domains /\ turn[c] = TurnOf(d) /\ turn[c] \in Turns /\ Cloned(d)
<1>1. DomainOf(c) \in DOMAIN state /\ turn[c] = TurnOf(DomainOf(c)) /\ DomainOf(c) \in Domains
    BY DEF IInv, OneQueue, Types
<1> QED BY <1>1, TurnFacts DEF IInv, Cloned

LEMMA ClonedKnown == ASSUME IInv, NEW d \in Domains, Cloned(d) PROVE d \in DOMAIN state
<1>1. PICK c \in Callers : pc[c] \in {"entering", "queued", "asleep"} /\ turn[c] = TurnOf(d)
    BY DEF Cloned
<1> QED BY <1>1, WaitersTurn, TurnFacts DEF IInv

(* A sweep takes a domain whose last request is long ago and nobody wants. *)
LEMMA SweptIs ==
    ASSUME IInv
    PROVE  /\ Swept \subseteq DOMAIN state
           /\ \A d \in DOMAIN state \ Swept : ~Cloned(d) /\ state[d].age = Ttl /\ since[d] = Ttl
<1>1. ASSUME NEW d \in DOMAIN state, d \notin Swept
      PROVE  ~Cloned(d) /\ state[d].age = Ttl /\ since[d] = Ttl
    <2>1. ~Cloned(d) /\ ~(state[d].age < Ttl)
        BY <1>1 DEF Swept
    <2>2. state[d].age \in 0 .. Ttl /\ state[d].age <= since[d] /\ since[d] \in 0 .. Ttl /\ Ttl \in Nat
        BY DEF IInv, ClocksFine, StateFine, States, Types, ThrottleAssumption
    <2> QED BY <2>1, <2>2
<1> QED BY <1>1 DEF Swept

LEMMA EntryIs ==
    ASSUME IInv, NEW D \in SUBSET DOMAIN state, NEW d \in Domains,
           \A e \in DOMAIN state \ D : since[e] = Ttl
    PROVE  StateFine(Entry(D, d)) /\ Entry(D, d).age <= since[d]
<1>1. CASE d \in D
    BY <1>1 DEF IInv, ClocksFine, Entry
<1>2. CASE d \notin D
    <2>1. since[d] = Ttl
        BY <1>2 DEF IInv, ClocksFine
    <2> QED BY <1>2, <2>1, NewIsFine DEF Entry, HorizonAssumption
<1> QED BY <1>1, <1>2

LEMMA PutIs ==
    ASSUME IInv, NEW D \in SUBSET DOMAIN state, NEW d \in Domains,
           \A e \in DOMAIN state \ D : since[e] = Ttl /\ ~Cloned(e),
           NEW s, StateFine(s), Put(D, d, s), s.age <= since'[d],
           \A e \in Domains \ {d} : since'[e] = since[e]
    PROVE  /\ ClocksFine' /\ current' = current
           /\ DOMAIN state' = D \cup {d} /\ DOMAIN state' \subseteq Domains
           /\ \A e \in D \cup {d} : state'[e] = IF e = d THEN s ELSE state[e]
<1>1. DOMAIN state' = D \cup {d} /\ \A e \in D \cup {d} : state'[e] = IF e = d THEN s ELSE state[e]
    BY DEF Put
<1>2. D \cup {d} \subseteq Domains
    BY DEF IInv, Types
<1>3. Cloned(d) => d \in D
    BY ClonedKnown
<1>4. current' = current
    BY <1>3 DEF Put, NewTurn
<1>5. ASSUME NEW e \in D \cup {d} PROVE StateFine(state'[e]) /\ state'[e].age <= since'[e]
    BY <1>1, <1>2 DEF IInv, ClocksFine
<1>6. ASSUME NEW e \in Domains \ (D \cup {d}) PROVE since'[e] = Ttl
    BY DEF IInv, ClocksFine
<1> QED BY <1>1, <1>2, <1>4, <1>5, <1>6 DEF ClocksFine

(* A caller moves and no queue changes.                                    *)
LEMMA MovesAside ==
    ASSUME IInv, NEW c \in Callers, NEW p, pc' = [pc EXCEPT ![c] = p], UNCHANGED queue,
           \A k \in Callers \ {c} : turn'[k] = turn[k],
           \/ pc[c] \notin InQueue /\ p \notin InQueue
           \/ pc[c] \in InQueue /\ p \in InQueue /\ turn'[c] = turn[c],
           p = "asleep" => queue[turn'[c]][1] = c
    PROVE  QueuesFine'
<1>1. /\ \A k \in Callers : pc'[k] = IF k = c THEN p ELSE pc[k]
      /\ QueuesFine
    BY DEF IInv, Types
<1>2. \A t \in Turns : {k \in Callers : pc'[k] \in InQueue /\ turn'[k] = t}
                       = {k \in Callers : pc[k] \in InQueue /\ turn[k] = t}
    BY <1>1
<1>3. \A k \in Callers : pc'[k] = "asleep" => queue'[turn'[k]][1] = k
    BY <1>1 DEF QueuesFine
<1> QED BY <1>1, <1>2, <1>3 DEF QueuesFine

LEMMA EnterInv == ASSUME IInv, NEW c \in Callers, NEW d \in Domains, Enter(c, d) PROVE IInv'
<1>1. /\ pc[c] = "idle" /\ pc' = [pc EXCEPT ![c] = "entering"] /\ Put(Swept, d, Entry(Swept, d))
      /\ turn' = [turn EXCEPT ![c] = <<d, current'[d]>>]
      /\ sweepAge' = (IF sweepAge < SweepInterval THEN sweepAge ELSE 0)
      /\ UNCHANGED <<queue, left, since>>
    BY DEF Enter
<1>2. /\ ClocksFine' /\ current' = current /\ DOMAIN state' = Swept \cup {d} /\ DOMAIN state' \subseteq Domains
    BY <1>1, SweptIs, EntryIs, PutIs
<1>3. <<d, current[d]>> \in Turns
    BY TurnFacts DEF IInv, TurnOf
<1>4. Types'
    BY <1>1, <1>2, <1>3 DEF IInv, Types, ThrottleAssumption
<1>5. /\ \A k \in Callers : pc'[k] = IF k = c THEN "entering" ELSE pc[k]
      /\ \A k \in Callers : turn'[k] = IF k = c THEN <<d, current[d]>> ELSE turn[k]
    BY <1>1, <1>2 DEF IInv, Types
<1>6. QueuesFine'
    BY <1>1, <1>5, MovesAside DEF InQueue
<1>7. ASSUME NEW k \in Callers, pc'[k] \in {"entering", "queued", "asleep"}
      PROVE  DomainOf(k)' \in DOMAIN state' /\ turn'[k] = TurnOf(DomainOf(k))'
    <2>1. CASE k = c
        BY <1>2, <1>5, <2>1 DEF DomainOf, TurnOf
    <2>2. CASE k # c
        <3>1. Cloned(DomainOf(k)) /\ DomainOf(k) \in DOMAIN state /\ turn[k] = TurnOf(DomainOf(k))
            BY <1>5, <1>7, <2>2, WaitersTurn
        <3>2. DomainOf(k) \in Swept
            BY <3>1, SweptIs
        <3> QED BY <1>2, <1>5, <2>2, <3>1, <3>2 DEF DomainOf, TurnOf
    <2> QED BY <2>1, <2>2
<1> QED BY <1>2, <1>4, <1>6, <1>7 DEF IInv, OneQueue

(* A step of a caller that keeps every domain and every turn.              *)
LEMMA OneQueueStays ==
    ASSUME IInv, NEW c \in Callers, NEW p, pc' = [pc EXCEPT ![c] = p],
           DOMAIN state \subseteq DOMAIN state', current' = current,
           \A k \in Callers \ {c} : turn'[k] = turn[k],
           p \in {"entering", "queued", "asleep"} =>
               pc[c] \in {"entering", "queued", "asleep"} /\ turn'[c] = turn[c]
    PROVE  OneQueue'
<1>1. ASSUME NEW k \in Callers, pc'[k] \in {"entering", "queued", "asleep"}
      PROVE  DomainOf(k)' \in DOMAIN state' /\ turn'[k] = TurnOf(DomainOf(k))'
    <2>1. pc[k] \in {"entering", "queued", "asleep"} /\ turn'[k] = turn[k]
        BY <1>1 DEF IInv, Types
    <2>2. DomainOf(k) \in DOMAIN state /\ turn[k] = TurnOf(DomainOf(k))
        BY <2>1, WaitersTurn
    <2> QED BY <2>1, <2>2 DEF DomainOf, TurnOf
<1> QED BY <1>1 DEF OneQueue

LEMMA QueueInv == ASSUME IInv, NEW c \in Callers, Queue(c) PROVE IInv'
<1>1. /\ pc[c] = "entering" /\ pc' = [pc EXCEPT ![c] = "queued"]
      /\ queue' = [queue EXCEPT ![turn[c]] = Append(@, c)]
      /\ UNCHANGED <<turn, left, state, current, sweepAge, since>>
    BY DEF Queue
<1>2. Types' /\ ClocksFine'
    BY <1>1 DEF IInv, Types, ClocksFine
<1>3. OneQueue'
    BY <1>1, OneQueueStays
<1>4. turn[c] \in Turns
    BY <1>1, WaitersTurn
<1>5. /\ QueuesFine /\ \A k \in Callers : pc'[k] = IF k = c THEN "queued" ELSE pc[k]
    BY <1>1 DEF IInv, Types
<1> DEFINE q == queue[turn[c]]
<1>6. q \in Seq(Callers) /\ Distinct(q) /\ c \notin Elements(q)
    BY <1>1, <1>4, <1>5 DEF QueuesFine, InQueue
<1>7. /\ Append(q, c) \in Seq(Callers) /\ Distinct(Append(q, c))
      /\ Elements(Append(q, c)) = Elements(q) \cup {c}
      /\ q # <<>> => Append(q, c)[1] = q[1]
    BY <1>6, Appended
<1>8. /\ queue' \in [Turns -> Seq(Callers)]
      /\ \A t \in Turns : queue'[t] = IF t = turn[c] THEN Append(q, c) ELSE queue[t]
    BY <1>1, <1>4, <1>5, <1>7 DEF QueuesFine
<1>9. \A t \in Turns : Distinct(queue'[t])
    BY <1>5, <1>7, <1>8 DEF QueuesFine
<1>10. ASSUME NEW t \in Turns
       PROVE  Elements(queue'[t]) = {k \in Callers : pc'[k] \in InQueue /\ turn[k] = t}
    <2>1. Elements(queue[t]) = {k \in Callers : pc[k] \in InQueue /\ turn[k] = t}
        BY <1>5 DEF QueuesFine
    <2>2. CASE t = turn[c]
        <3>1. Elements(queue'[t]) = Elements(queue[t]) \cup {c}
            BY <1>7, <1>8, <2>2
        <3> QED BY <1>1, <1>5, <2>1, <2>2, <3>1 DEF InQueue
    <2>3. CASE t # turn[c]
        <3>1. Elements(queue'[t]) = Elements(queue[t])
            BY <1>8, <2>3
        <3> QED BY <1>1, <1>5, <2>1, <2>3, <3>1 DEF InQueue
    <2> QED BY <2>2, <2>3
<1>11. ASSUME NEW k \in Callers, pc'[k] = "asleep" PROVE queue'[turn[k]][1] = k
    <2>1. pc[k] = "asleep" /\ k # c
        BY <1>5, <1>11
    <2>2. turn[k] \in Turns /\ queue[turn[k]][1] = k /\ k \in Elements(queue[turn[k]])
        BY <1>5, <2>1, WaitersTurn DEF QueuesFine, InQueue
    <2>3. queue[turn[k]] # <<>>
        BY <1>5, <2>2, ElementsAre DEF QueuesFine
    <2> QED BY <1>7, <1>8, <2>2, <2>3
<1> QED BY <1>1, <1>2, <1>3, <1>8, <1>9, <1>10, <1>11 DEF IInv, QueuesFine

(* The one who sleeps is alone in front of its turn's queue.               *)
LEMMA OneSleeps ==
    ASSUME IInv, NEW c \in Callers, NEW k \in Callers, pc[c] = "asleep", pc[k] = "asleep", turn[c] = turn[k]
    PROVE  c = k
BY DEF IInv, QueuesFine

(* A caller leaves its queue, from the front or from within.               *)
LEMMA OutOfQueue ==
    ASSUME IInv, NEW c \in Callers, pc[c] \in InQueue, NEW p, p \notin InQueue,
           pc' = [pc EXCEPT ![c] = p], \A k \in Callers \ {c} : turn'[k] = turn[k],
           NEW r \in Seq(Callers), queue' = [queue EXCEPT ![turn[c]] = r], Distinct(r),
           Elements(r) = Elements(queue[turn[c]]) \ {c},
           queue[turn[c]][1] # c /\ r # <<>> => r[1] = queue[turn[c]][1]
    PROVE  QueuesFine'
<1>1. QueuesFine /\ \A k \in Callers : pc'[k] = IF k = c THEN p ELSE pc[k]
    BY DEF IInv, Types
<1>2. turn[c] \in Turns
    BY WaitersTurn DEF InQueue
<1>3. /\ queue' \in [Turns -> Seq(Callers)]
      /\ \A t \in Turns : queue'[t] = IF t = turn[c] THEN r ELSE queue[t]
    BY <1>1, <1>2 DEF QueuesFine
<1>4. \A t \in Turns : Distinct(queue'[t])
    BY <1>1, <1>3 DEF QueuesFine
<1>5. ASSUME NEW t \in Turns
      PROVE  Elements(queue'[t]) = {k \in Callers : pc'[k] \in InQueue /\ turn'[k] = t}
    <2>1. Elements(queue[t]) = {k \in Callers : pc[k] \in InQueue /\ turn[k] = t}
        BY <1>1 DEF QueuesFine
    <2>2. {k \in Callers : pc'[k] \in InQueue /\ turn'[k] = t}
          = {k \in Callers : pc[k] \in InQueue /\ turn[k] = t} \ {c}
        BY <1>1
    <2>3. CASE t = turn[c]
        <3>1. Elements(queue'[t]) = Elements(queue[t]) \ {c}
            BY <1>3, <2>3
        <3> QED BY <2>1, <2>2, <3>1
    <2>4. CASE t # turn[c]
        <3>1. Elements(queue'[t]) = Elements(queue[t])
            BY <1>3, <2>4
        <3> QED BY <2>1, <2>2, <2>4, <3>1
    <2> QED BY <2>3, <2>4
<1>6. ASSUME NEW k \in Callers, pc'[k] = "asleep" PROVE queue'[turn'[k]][1] = k
    <2>1. pc[k] = "asleep" /\ k # c /\ turn'[k] = turn[k]
        BY <1>1, <1>6 DEF InQueue
    <2>2. turn[k] \in Turns /\ queue[turn[k]][1] = k /\ k \in Elements(queue[turn[k]])
        BY <1>1, <2>1, WaitersTurn DEF QueuesFine, InQueue
    <2>3. CASE turn[k] = turn[c]
        <3>1. k \in Elements(r)
            BY <2>1, <2>2, <2>3
        <3>2. r # <<>>
            BY <3>1, ElementsAre
        <3> QED BY <1>3, <2>1, <2>2, <2>3, <3>2
    <2>4. CASE turn[k] # turn[c]
        BY <1>3, <2>1, <2>2, <2>4
    <2> QED BY <2>3, <2>4
<1> QED BY <1>3, <1>4, <1>5, <1>6 DEF QueuesFine

LEMMA InItsQueue ==
    ASSUME IInv, NEW c \in Callers, pc[c] \in InQueue
    PROVE  LET q == queue[turn[c]] IN
           /\ q \in Seq(Callers) /\ Distinct(q) /\ c \in Elements(q) /\ q # <<>> /\ Head(q) = q[1]
           /\ turn[c] \in Turns
<1>1. turn[c] \in Turns
    BY WaitersTurn DEF InQueue
<1>2. /\ queue[turn[c]] \in Seq(Callers) /\ Distinct(queue[turn[c]]) /\ c \in Elements(queue[turn[c]])
    BY <1>1 DEF IInv, QueuesFine, InQueue
<1>3. queue[turn[c]] # <<>>
    BY <1>2, ElementsAre
<1> QED BY <1>1, <1>2, <1>3, Headed

LEMMA TakeTurnInv == ASSUME IInv, NEW c \in Callers, TakeTurn(c) PROVE IInv'
<1> DEFINE d == DomainOf(c)
           s == Entry(DOMAIN state, d)
<1>1. /\ pc[c] = "queued" /\ Head(queue[turn[c]]) = c /\ pc' = [pc EXCEPT ![c] = "asleep"]
      /\ Put(DOMAIN state, d, s) /\ UNCHANGED <<turn, queue, sweepAge, since>>
    BY DEF TakeTurn
<1>2. PICK w \in Waits(s) : left' = [left EXCEPT ![c] = w]
    BY DEF TakeTurn
<1>3. d \in DOMAIN state /\ d \in Domains
    BY <1>1, WaitersTurn
<1>4. StateFine(s) /\ s.age <= since[d]
    BY <1>3, EntryIs
<1> HIDE DEF s
<1>5. /\ ClocksFine' /\ current' = current /\ DOMAIN state' = DOMAIN state \cup {d} /\ DOMAIN state' \subseteq Domains
    BY <1>1, <1>3, <1>4, PutIs
<1>6. w \in 0 .. 2 * Ttl
    BY <1>2, <1>4, WaitsEnough
<1>7. Types'
    BY <1>1, <1>2, <1>5, <1>6 DEF IInv, Types
<1>8. OneQueue'
    BY <1>1, <1>5, OneQueueStays
<1>9. QueuesFine'
    BY <1>1, MovesAside, InItsQueue DEF InQueue
<1> QED BY <1>5, <1>7, <1>8, <1>9 DEF IInv

LEMMA GoInv == ASSUME IInv, NEW c \in Callers, Go(c) PROVE IInv'
<1> DEFINE d == DomainOf(c)
           s == [Entry(DOMAIN state, d) EXCEPT !.age = 0]
           q == queue[turn[c]]
<1>1. /\ pc[c] = "asleep" /\ pc' = [pc EXCEPT ![c] = "sent"] /\ queue' = [queue EXCEPT ![turn[c]] = Tail(q)]
      /\ Put(DOMAIN state, d, s) /\ since' = [since EXCEPT ![d] = 0] /\ UNCHANGED <<turn, left, sweepAge>>
    BY DEF Go, IInv, QueuesFine
<1>2. d \in DOMAIN state /\ d \in Domains
    BY <1>1, WaitersTurn
<1>3. StateFine(s) /\ s.age = 0
    <2>1. 0 \in 0 .. Ttl
        BY DEF ThrottleAssumption
    <2> QED BY <1>2, <2>1, EntryIs, AgedIsFine
<1>4. since'[d] = 0 /\ since' \in [Domains -> 0 .. Ttl] /\ \A e \in Domains \ {d} : since'[e] = since[e]
    BY <1>1, <1>2 DEF IInv, Types, ThrottleAssumption
<1> HIDE DEF s
<1>5. /\ ClocksFine' /\ current' = current /\ DOMAIN state' = DOMAIN state \cup {d} /\ DOMAIN state' \subseteq Domains
    <2>1. s.age <= since'[d]
        BY <1>3, <1>4
    <2> QED BY <1>1, <1>2, <1>3, <1>4, <2>1, PutIs
<1>6. Types'
    BY <1>1, <1>4, <1>5 DEF IInv, Types
<1>7. OneQueue'
    BY <1>1, <1>5, OneQueueStays
<1>8. q \in Seq(Callers) /\ Distinct(q) /\ q # <<>> /\ q[1] = c
    BY <1>1, InItsQueue DEF IInv, QueuesFine, InQueue
<1>9. Tail(q) \in Seq(Callers) /\ Distinct(Tail(q)) /\ Elements(Tail(q)) = Elements(q) \ {c}
    BY <1>8, Tailed
<1>10. QueuesFine'
    BY <1>1, <1>8, <1>9, OutOfQueue DEF InQueue
<1> QED BY <1>5, <1>6, <1>7, <1>10 DEF IInv

LEMMA DropInv == ASSUME IInv, NEW c \in Callers, Drop(c) PROVE IInv'
<1>1. /\ pc[c] \in {"queued", "asleep", "sent"} /\ pc' = [pc EXCEPT ![c] = "idle"]
      /\ queue' = IF pc[c] = "sent" THEN queue ELSE [queue EXCEPT ![turn[c]] = Leave(@, c)]
      /\ left' = [left EXCEPT ![c] = 0] /\ turn' = [turn EXCEPT ![c] = <<>>]
      /\ UNCHANGED <<state, current, sweepAge, since>>
    BY DEF Drop
<1>2. Types' /\ ClocksFine'
    BY <1>1 DEF IInv, Types, ClocksFine, ThrottleAssumption
<1>3. \A k \in Callers \ {c} : turn'[k] = turn[k]
    BY <1>1 DEF IInv, Types
<1>4. OneQueue'
    BY <1>1, <1>3, OneQueueStays
<1>5. CASE pc[c] = "sent"
    <2>1. queue' = queue
        BY <1>1, <1>5
    <2> QED BY <1>1, <1>2, <1>3, <1>4, <1>5, <2>1, MovesAside DEF IInv, InQueue
<1>6. CASE pc[c] # "sent"
    <2> DEFINE q == queue[turn[c]]
               r == Leave(q, c)
    <2>1. pc[c] \in InQueue /\ q \in Seq(Callers) /\ Distinct(q) /\ c \in Elements(q) /\ turn[c] \in Turns
        BY <1>1, <1>6, InItsQueue DEF InQueue
    <2>2. /\ r \in Seq(Callers) /\ Distinct(r) /\ Elements(r) = Elements(q) \ {c}
          /\ q[1] # c /\ r # <<>> => r[1] = q[1]
        BY <2>1, LeftQueue
    <2>3. queue' = [queue EXCEPT ![turn[c]] = r]
        BY <1>1, <1>6, <2>1 DEF IInv, QueuesFine
    <2> HIDE DEF r
    <2>4. QueuesFine'
        BY <1>1, <1>3, <2>1, <2>2, <2>3, OutOfQueue DEF InQueue
    <2> QED BY <1>2, <1>4, <2>4 DEF IInv
<1> QED BY <1>5, <1>6

(* What becomes of the domain's state when a response is recorded.         *)
LEMMA Recorded ==
    ASSUME IInv, NEW c \in Callers, Respond(c)
    PROVE  /\ DOMAIN state' = DOMAIN state
           /\ \A e \in DOMAIN state :
                state'[e] = state[e] \/ state'[e] = BackOff(state[e]) \/ state'[e] = Success(state[e])
BY DEF Respond

LEMMA RespondInv == ASSUME IInv, NEW c \in Callers, Respond(c) PROVE IInv'
<1>1. /\ pc[c] = "sent" /\ pc' = [pc EXCEPT ![c] = "idle"] /\ turn' = [turn EXCEPT ![c] = <<>>]
      /\ UNCHANGED <<queue, left, current, sweepAge, since>>
    BY DEF Respond
<1>2. ASSUME NEW e \in DOMAIN state PROVE StateFine(state'[e]) /\ state'[e].age = state[e].age
    BY Recorded, BackedOff, Succeeded DEF IInv, ClocksFine
<1>3. ClocksFine'
    BY <1>1, <1>2, Recorded DEF IInv, ClocksFine
<1>4. Types'
    BY <1>1, Recorded DEF IInv, Types
<1>5. \A k \in Callers \ {c} : turn'[k] = turn[k]
    BY <1>1 DEF IInv, Types
<1>6. OneQueue'
    BY <1>1, <1>5, Recorded, OneQueueStays
<1>7. QueuesFine'
    BY <1>1, <1>5, MovesAside DEF InQueue
<1> QED BY <1>3, <1>4, <1>6, <1>7 DEF IInv

(* A step that moves no caller.                                            *)
LEMMA CallersStay ==
    ASSUME IInv, UNCHANGED <<pc, turn, queue, current>>, DOMAIN state \subseteq DOMAIN state'
    PROVE  QueuesFine' /\ OneQueue'
<1>1. QueuesFine'
    BY DEF IInv, QueuesFine
<1>2. ASSUME NEW k \in Callers, pc[k] \in {"entering", "queued", "asleep"}
      PROVE  DomainOf(k)' \in DOMAIN state' /\ turn'[k] = TurnOf(DomainOf(k))'
    BY <1>2, WaitersTurn DEF DomainOf, TurnOf
<1> QED BY <1>1, <1>2 DEF OneQueue

LEMMA SetCrawlDelayInv ==
    ASSUME IInv, NEW d \in Domains, NEW delay \in RobotsDelays[d], SetCrawlDelay(d, delay) PROVE IInv'
<1> DEFINE s == [Entry(DOMAIN state, d) EXCEPT !.robots = {delay}, !.crawl = {delay}]
<1>1. Put(DOMAIN state, d, s) /\ UNCHANGED <<pc, turn, queue, left, sweepAge, since>>
    BY DEF SetCrawlDelay, calls
<1>2. delay \in 0 .. Ttl
    BY DEF HorizonAssumption
<1>3. StateFine(s) /\ s.age <= since[d]
    <2>1. StateFine(Entry(DOMAIN state, d)) /\ Entry(DOMAIN state, d).age <= since[d]
        BY EntryIs
    <2>2. StateFine(s) /\ s.age = Entry(DOMAIN state, d).age
        BY <1>2, <2>1, AskedIsFine
    <2> QED BY <2>1, <2>2
<1> HIDE DEF s
<1>4. /\ ClocksFine' /\ current' = current /\ DOMAIN state' = DOMAIN state \cup {d} /\ DOMAIN state' \subseteq Domains
    BY <1>1, <1>3, PutIs
<1>5. Types'
    BY <1>1, <1>4 DEF IInv, Types
<1> QED BY <1>1, <1>4, <1>5, CallersStay DEF IInv

LEMMA TickInv == ASSUME IInv, Tick PROVE IInv'
<1>1. /\ DOMAIN state' = DOMAIN state
      /\ \A d \in DOMAIN state : state'[d] = [state[d] EXCEPT !.age = Older(state[d].age)]
      /\ sweepAge' = (IF sweepAge < SweepInterval THEN sweepAge + 1 ELSE sweepAge)
      /\ since' = [d \in Domains |-> Older(since[d])]
      /\ left' = [c \in Callers |-> IF left[c] > 0 THEN left[c] - 1 ELSE 0]
      /\ UNCHANGED <<pc, turn, queue, current>>
    <2>1. \A d \in DOMAIN state : state[d] \in States
        BY DEF IInv, ClocksFine, StateFine
    <2> QED BY <2>1 DEF Tick, States
<1>2. ASSUME NEW a \in 0 .. Ttl, NEW b \in 0 .. Ttl, a <= b
      PROVE  Older(a) \in 0 .. Ttl /\ Older(b) \in 0 .. Ttl /\ Older(a) <= Older(b)
    <2>1. Ttl \in Nat
        BY DEF ThrottleAssumption
    <2> QED BY <1>2, <2>1 DEF Older
<1>3. Older(Ttl) = Ttl
    BY DEF Older, ThrottleAssumption
<1>4. ASSUME NEW d \in DOMAIN state PROVE StateFine(state'[d]) /\ state'[d].age <= since'[d]
    <2>1. /\ StateFine(state[d]) /\ state[d].age \in 0 .. Ttl /\ since[d] \in 0 .. Ttl /\ state[d].age <= since[d]
          /\ d \in Domains
        BY DEF IInv, ClocksFine, StateFine, States, Types
    <2>2. Older(state[d].age) \in 0 .. Ttl /\ Older(state[d].age) <= Older(since[d])
        BY <1>2, <2>1
    <2>3. StateFine(state'[d]) /\ state'[d].age = Older(state[d].age)
        <3> DEFINE a == Older(state[d].age)
        <3>1. a \in 0 .. Ttl /\ state'[d] = [state[d] EXCEPT !.age = a]
            BY <1>1, <2>2
        <3> HIDE DEF a
        <3>2. StateFine(state'[d]) /\ state'[d].age = a
            BY <2>1, <3>1, AgedIsFine
        <3> QED BY <3>2 DEF a
    <2> QED BY <1>1, <2>1, <2>2, <2>3
<1>5. ClocksFine'
    BY <1>1, <1>3, <1>4 DEF IInv, ClocksFine
<1>6. Types'
    <2>1. left' \in [Callers -> 0 .. 2 * Ttl]
        BY <1>1 DEF IInv, Types, ThrottleAssumption
    <2>2. sweepAge' \in 0 .. SweepInterval
        BY <1>1 DEF IInv, Types, ThrottleAssumption
    <2>3. since' \in [Domains -> 0 .. Ttl]
        <3>1. \A a \in 0 .. Ttl : Older(a) \in 0 .. Ttl
            <4>1. \A a \in 0 .. Ttl : a <= a
                BY DEF ThrottleAssumption
            <4> QED BY <1>2, <4>1
        <3> QED BY <1>1, <3>1 DEF IInv, Types
    <2> QED BY <1>1, <2>1, <2>2, <2>3 DEF IInv, Types
<1> QED BY <1>1, <1>5, <1>6, CallersStay DEF IInv

LEMMA InitInv == ASSUME Init PROVE IInv
<1>1. Types
    BY DEF Init, Types, Turns, ThrottleAssumption
<1>2. ClocksFine
    BY DEF Init, ClocksFine
<1>3. queue \in [Turns -> Seq(Callers)] /\ \A t \in Turns : queue[t] = <<>>
    BY DEF Init
<1>4. Elements(<<>>) = {} /\ Distinct(<<>>)
    BY DEF Elements, Distinct
<1>5. QueuesFine
    BY <1>3, <1>4 DEF Init, QueuesFine, InQueue
<1>6. OneQueue
    BY DEF Init, OneQueue
<1> QED BY <1>1, <1>2, <1>5, <1>6 DEF IInv

LEMMA NextInv == ASSUME IInv, [Next]_vars PROVE IInv'
<1>1. ASSUME NEW c \in Callers, Step(c) PROVE IInv'
    BY <1>1, QueueInv, TakeTurnInv, GoInv DEF Step
<1>2. ASSUME NEW c \in Callers, Drop(c) PROVE IInv'
    BY <1>2, DropInv
<1>3. ASSUME NEW c \in Callers, Respond(c) PROVE IInv'
    BY <1>3, RespondInv
<1>4. ASSUME NEW c \in Callers, NEW d \in Domains, Enter(c, d) PROVE IInv'
    BY <1>4, EnterInv
<1>5. ASSUME NEW d \in Domains, NEW delay \in RobotsDelays[d], SetCrawlDelay(d, delay) PROVE IInv'
    BY <1>5, SetCrawlDelayInv
<1>6. CASE Tick
    BY <1>6, TickInv
<1>7. CASE UNCHANGED vars
    BY <1>7 DEF vars, calls, IInv, Types, ClocksFine, QueuesFine, OneQueue, DomainOf, TurnOf
<1> QED BY <1>1, <1>2, <1>3, <1>4, <1>5, <1>6, <1>7 DEF Next

LEMMA Invariance == Spec => []IInv
<1>1. Init => IInv
    BY InitInv
<1>2. IInv /\ [Next]_vars => IInv'
    BY NextInv
<1> QED BY <1>1, <1>2, PTL DEF Spec

(* Every value has its type, and a turn's queue is exactly the callers     *)
(* that wait for it: one that gives up leaves no ghost behind.             *)
THEOREM TypeCorrect == Spec => []TypeOK
<1>1. IInv => TypeOK
    BY DEF IInv, TypeOK, Types, ClocksFine, StateFine, QueuesFine, InQueue
<1> QED BY <1>1, Invariance, PTL

(* The requests of a domain that wait share the one turn that the next     *)
(* request will find, however many sweeps there were meanwhile.            *)
THEOREM SweepsSplitNoQueue == Spec => []OneQueue
<1>1. IInv => OneQueue
    BY DEF IInv
<1> QED BY <1>1, Invariance, PTL

-----------------------------------------------------------------------------
(* How the delay of a domain changes *)

LEMMA AboveFloor ==
    ASSUME Default <= MaxBackoff, NEW s, StateFine(s) PROVE Effective(s) >= Floor(s)
<1>1. /\ Default \in Nat /\ MaxBackoff \in Nat /\ s.crawl \subseteq Nat /\ Effective(s) \in Nat
      /\ Effective(s) \in s.crawl \cup s.robots \/ (s.crawl \cup s.robots = {} /\ Effective(s) = Default)
    BY DelayIs DEF StateFine, States, ThrottleAssumption
<1>2. CASE s.robots = {}
    <2>1. \A x \in s.crawl : x >= Default
        BY <1>1, <1>2 DEF StateFine
    <2> QED BY <1>1, <1>2, <2>1, DelayIs
<1>3. CASE s.robots # {}
    BY <1>3, DelayIs
<1> QED BY <1>2, <1>3

(* The ways in which the delay of d may shrink.                            *)
MayShrink(d) ==
    \/ /\ state[d].ok = Relax - 1 /\ state'[d].ok = 0
       /\ 2 * Effective(state'[d]) + 1 >= Effective(state[d])
    \/ state[d].age = Ttl /\ ~Cloned(d)
    \/ state'[d].robots # {} /\ state'[d].crawl = state'[d].robots

LEMMA ShrinksForAReason ==
    ASSUME IInv, Default <= MaxBackoff, [Next]_vars, NEW d \in DOMAIN state \cap DOMAIN state'
    PROVE  Effective(state'[d]) < Effective(state[d]) => MayShrink(d)
<1>0. StateFine(state[d]) /\ Effective(state[d]) \in Nat /\ d \in Domains
    BY DelayIs DEF IInv, Types, ClocksFine, ThrottleAssumption
<1>1. ASSUME state'[d] = state[d] PROVE ~(Effective(state'[d]) < Effective(state[d]))
    BY <1>0, <1>1
<1>2. ASSUME NEW a \in 0 .. Ttl, state'[d] = [state[d] EXCEPT !.age = a]
      PROVE  ~(Effective(state'[d]) < Effective(state[d]))
    BY <1>0, <1>2, AgedIsFine
<1>3. ASSUME NEW c \in Callers, NEW e \in Domains, Enter(c, e)
      PROVE  state'[d] = state[d] \/ MayShrink(d)
    <2>1. Put(Swept, e, Entry(Swept, e))
        BY <1>3 DEF Enter
    <2>2. CASE d \in Swept
        BY <2>1, <2>2 DEF Put, Entry
    <2>3. CASE d \notin Swept
        BY <2>3, SweptIs DEF MayShrink
    <2> QED BY <2>2, <2>3
<1>4. ASSUME NEW c \in Callers, TakeTurn(c) PROVE state'[d] = state[d]
    BY <1>4 DEF TakeTurn, Put, Entry
<1>5. ASSUME NEW c \in Callers, Go(c)
      PROVE  state'[d] = state[d] \/ state'[d] = [state[d] EXCEPT !.age = 0]
    BY <1>5 DEF Go, Put, Entry
<1>6. ASSUME NEW c \in Callers, Respond(c)
      PROVE  Effective(state'[d]) < Effective(state[d]) => MayShrink(d)
    <2>1. CASE state'[d] = BackOff(state[d])
        <3>1. StateFine(state'[d]) /\ Effective(state'[d]) >= Effective(state[d])
            BY <1>0, <2>1, BackedOff
        <3>2. Effective(state'[d]) \in Nat
            BY <3>1, DelayIs DEF ThrottleAssumption
        <3> QED BY <1>0, <3>1, <3>2
    <2>2. CASE state'[d] = Success(state[d])
        <3>1. \/ Effective(state'[d]) = Effective(state[d])
              \/ /\ state[d].ok = Relax - 1 /\ state'[d].ok = 0
                 /\ 2 * Effective(state'[d]) + 1 >= Effective(state[d])
            BY <1>0, <2>2, Succeeded
        <3> QED BY <1>0, <3>1 DEF MayShrink
    <2> QED BY <1>1, <1>6, <2>1, <2>2, Recorded
<1>7. ASSUME NEW e \in Domains, NEW delay \in RobotsDelays[e], SetCrawlDelay(e, delay)
      PROVE  state'[d] = state[d] \/ MayShrink(d)
    <2>1. state'[d] = IF d = e THEN [state[d] EXCEPT !.robots = {delay}, !.crawl = {delay}] ELSE state[d]
        BY <1>7 DEF SetCrawlDelay, Put, Entry
    <2>2. CASE d = e
        <3>1. delay \in 0 .. Ttl
            BY DEF HorizonAssumption
        <3>2. state'[d].robots = {delay} /\ state'[d].crawl = {delay}
            <4> DEFINE r == [state[d] EXCEPT !.robots = {delay}, !.crawl = {delay}]
            <4>1. r.robots = {delay} /\ r.crawl = {delay}
                BY <1>0, <3>1, AskedIsFine
            <4> QED BY <2>1, <2>2, <4>1
        <3> QED BY <3>2 DEF MayShrink
    <2> QED BY <2>1, <2>2
<1>8. ASSUME Tick PROVE \E a \in 0 .. Ttl : state'[d] = [state[d] EXCEPT !.age = a]
    <2>1. state[d].age \in 0 .. Ttl /\ Ttl \in Nat
        BY <1>0 DEF StateFine, States, ThrottleAssumption
    <2>2. Older(state[d].age) \in 0 .. Ttl
        BY <2>1 DEF Older
    <2> QED BY <1>8, <2>2 DEF Tick
<1>9. ASSUME UNCHANGED state PROVE state'[d] = state[d]
    BY <1>9
<1>10. 0 \in 0 .. Ttl
    BY DEF ThrottleAssumption
<1>11. (\E c \in Callers : Queue(c) \/ Drop(c)) \/ UNCHANGED vars => UNCHANGED state
    BY DEF Queue, Drop, vars
<1> QED BY <1>1, <1>2, <1>3, <1>4, <1>5, <1>6, <1>7, <1>8, <1>9, <1>10, <1>11 DEF Next, Step

(* Unless the configured delay is itself above the largest back-off, a     *)
(* domain's delay stays above what was asked for and shrinks only by       *)
(* relaxing, after a robots.txt or after the lifetime of its state.        *)
THEOREM DelaysHold == Default <= MaxBackoff => (Spec => DelayHolds)
<1> SUFFICES ASSUME Default <= MaxBackoff PROVE Spec => DelayHolds
    OBVIOUS
<1> DEFINE Kept ==
        \A d \in DOMAIN state \cap DOMAIN state' :
            /\ Effective(state'[d]) >= Floor(state'[d])
            /\ Effective(state'[d]) < Effective(state[d]) =>
                 \/ /\ state[d].ok = Relax - 1 /\ state'[d].ok = 0
                    /\ 2 * Effective(state'[d]) + 1 >= Effective(state[d])
                 \/ state[d].age = Ttl /\ ~Cloned(d)
                 \/ state'[d].robots # {} /\ state'[d].crawl = state'[d].robots
<1>1. IInv /\ [Next]_vars => Kept
    <2>1. ASSUME IInv, [Next]_vars, NEW d \in DOMAIN state \cap DOMAIN state'
          PROVE  Effective(state'[d]) >= Floor(state'[d])
        BY <2>1, NextInv, AboveFloor DEF IInv, ClocksFine
    <2> QED BY <2>1, ShrinksForAReason DEF MayShrink
<1>2. IInv /\ [Next]_vars => [Kept]_vars
    BY <1>1
<1>3. DelayHolds <=> [][Kept]_vars
    BY DEF DelayHolds
<1> HIDE DEF Kept
<1> QED BY <1>2, <1>3, Invariance, PTL DEF Spec

-----------------------------------------------------------------------------
(* The throttle paces the turns of its domains *)

(* What PacedTurns sees of a domain.                                       *)
LineOf(d) == queue[TurnOf(d)]
RestOf(d) == {left[c] : c \in {k \in Callers : pc[k] = "asleep" /\ turn[k] = TurnOf(d)}}
AskedOf(d) == IF d \in DOMAIN state THEN OrElse(state[d].robots, 0) ELSE 0

LEMMA MaxOfOne == ASSUME NEW x \in Nat PROVE OrElse({x}, 0) = x
<1>1. {x, x} = {x} /\ Max({x, x}) = x
    BY MaxOfTwo
<1> QED BY <1>1 DEF OrElse

(* Who sleeps is the head of the line, and its sleep is the line's rest.   *)
LEMMA RestIs ==
    ASSUME IInv, NEW d \in Domains
    PROVE  /\ \A c \in Callers : pc[c] = "asleep" /\ turn[c] = TurnOf(d) => RestOf(d) = {left[c]}
           /\ (\A c \in Callers : ~(pc[c] = "asleep" /\ turn[c] = TurnOf(d))) => RestOf(d) = {}
           /\ \A c \in Callers : pc[c] = "asleep" /\ turn[c] = TurnOf(d) => LineOf(d) # <<>> /\ LineOf(d)[1] = c
<1>1. ASSUME NEW c \in Callers, pc[c] = "asleep", turn[c] = TurnOf(d)
      PROVE  RestOf(d) = {left[c]} /\ LineOf(d) # <<>> /\ LineOf(d)[1] = c
    <2>1. {k \in Callers : pc[k] = "asleep" /\ turn[k] = TurnOf(d)} = {c}
        BY <1>1, OneSleeps
    <2>2. RestOf(d) = {left[c]}
        BY <2>1 DEF RestOf
    <2>3. LineOf(d) # <<>> /\ LineOf(d)[1] = c
        BY <1>1, InItsQueue DEF LineOf, InQueue, IInv, QueuesFine
    <2> QED BY <2>2, <2>3
<1>2. ASSUME \A c \in Callers : ~(pc[c] = "asleep" /\ turn[c] = TurnOf(d)) PROVE RestOf(d) = {}
    BY <1>2 DEF RestOf
<1> QED BY <1>1, <1>2

(* A caller that neither falls asleep nor wakes disturbs nobody's rest.    *)
LEMMA RestStays ==
    ASSUME IInv, NEW c \in Callers, NEW p, pc' = [pc EXCEPT ![c] = p], pc[c] # "asleep", p # "asleep",
           \A k \in Callers \ {c} : turn'[k] = turn[k] /\ left'[k] = left[k], current' = current
    PROVE  \A d \in Domains : RestOf(d)' = RestOf(d)
<1>1. \A k \in Callers : pc'[k] = IF k = c THEN p ELSE pc[k]
    BY DEF IInv, Types
<1> QED BY <1>1 DEF RestOf, TurnOf

LEMMA EnterPaced == ASSUME IInv, NEW c \in Callers, NEW d \in Domains, Enter(c, d) PROVE PT!Next
<1>0. PICK F \in SUBSET Domains : F = DOMAIN state \ Swept
    BY DEF IInv, Types
<1>1. /\ pc[c] = "idle" /\ pc' = [pc EXCEPT ![c] = "entering"] /\ Put(Swept, d, Entry(Swept, d))
      /\ turn' = [turn EXCEPT ![c] = <<d, current'[d]>>] /\ UNCHANGED <<queue, left, since>>
    BY DEF Enter
<1>2. /\ current' = current /\ DOMAIN state' = Swept \cup {d}
      /\ \A e \in Swept \cup {d} : state'[e] = IF e = d THEN Entry(Swept, d) ELSE state[e]
    <2>0. PICK D \in SUBSET DOMAIN state : D = Swept
        BY SweptIs
    <2>1. PICK s : D = Swept /\ s = Entry(Swept, d)
        BY <2>0
    <2>2. StateFine(s) /\ s.age <= since'[d]
        BY <1>1, <2>1, SweptIs, EntryIs
    <2>3. Put(D, d, s) /\ \A e \in Domains \ {d} : since'[e] = since[e]
        BY <1>1, <2>1
    <2>4. \A e \in DOMAIN state \ D : since[e] = Ttl /\ ~Cloned(e)
        BY <2>1, SweptIs
    <2>5. /\ current' = current /\ DOMAIN state' = D \cup {d}
          /\ \A e \in D \cup {d} : state'[e] = IF e = d THEN s ELSE state[e]
        <3>1. current' = current
            BY <2>2, <2>3, <2>4, PutIs
        <3>2. DOMAIN state' = D \cup {d}
            BY <2>2, <2>3, <2>4, PutIs
        <3>3. \A e \in D \cup {d} : state'[e] = IF e = d THEN s ELSE state[e]
            BY <2>3 DEF Put
        <3> QED BY <3>1, <3>2, <3>3
    <2> QED BY <2>1, <2>5
<1>3. \A e \in Domains : LineOf(e)' = LineOf(e)
    BY <1>1, <1>2 DEF LineOf, TurnOf
<1>4. \A e \in Domains : RestOf(e)' = RestOf(e)
    <2>1. \A k \in Callers \ {c} : turn'[k] = turn[k] /\ left'[k] = left[k]
        BY <1>1 DEF IInv, Types
    <2> QED BY <1>1, <1>2, <2>1, RestStays
<1>6. ASSUME NEW e \in F PROVE LineOf(e) = <<>> /\ since[e] = Ttl
    <2>1. ~Cloned(e) /\ since[e] = Ttl /\ e \in Domains
        BY <1>0, SweptIs
    <2>2. queue[TurnOf(e)] \in Seq(Callers) /\ Elements(queue[TurnOf(e)]) = {}
        BY <2>1, TurnFacts DEF IInv, QueuesFine, Cloned, InQueue
    <2> QED BY <2>1, <2>2, ElementsAre DEF LineOf
<1>7. ASSUME NEW e \in Domains PROVE AskedOf(e)' = IF e \in F THEN 0 ELSE AskedOf(e)
    <2>1. OrElse({}, 0) = 0
        BY DEF OrElse
    <2>2. CASE e \in Swept
        BY <1>0, <1>2, <2>2, SweptIs DEF AskedOf, Entry
    <2>3. CASE e \notin Swept
        BY <1>0, <1>2, <2>1, <2>3, NewIsFine DEF AskedOf, Entry
    <2> QED BY <2>2, <2>3
<1>8. PT!Forget(F)
    BY <1>1, <1>3, <1>4, <1>6, <1>7 DEF PT!Forget, LineOf, RestOf, AskedOf
<1> QED BY <1>8 DEF PT!Next

LEMMA QueuePaced == ASSUME IInv, NEW c \in Callers, Queue(c) PROVE PT!Next
<1> DEFINE d == DomainOf(c)
<1>1. /\ pc[c] = "entering" /\ pc' = [pc EXCEPT ![c] = "queued"]
      /\ queue' = [queue EXCEPT ![turn[c]] = Append(@, c)]
      /\ UNCHANGED <<turn, left, state, current, sweepAge, since>>
    BY DEF Queue
<1>2. d \in Domains /\ turn[c] = TurnOf(d) /\ turn[c] \in Turns
    BY <1>1, WaitersTurn
<1>3. \A e \in Domains : LineOf(e)' = IF e = d THEN Append(LineOf(e), c) ELSE LineOf(e)
    BY <1>1, <1>2, TurnFacts DEF LineOf, TurnOf, IInv, QueuesFine
<1>4. \A e \in Domains : RestOf(e)' = RestOf(e)
    BY <1>1, RestStays
<1>5. \A e \in Domains : AskedOf(e)' = AskedOf(e)
    BY <1>1 DEF AskedOf
<1> HIDE DEF d
<1>6. PT!Arrive(c, d)
    BY <1>1, <1>2, <1>3, <1>4, <1>5 DEF PT!Arrive, LineOf, RestOf, AskedOf
<1> QED BY <1>2, <1>6 DEF PT!Next

LEMMA TakeTurnPaced == ASSUME IInv, NEW c \in Callers, TakeTurn(c) PROVE PT!Next
<1>0. PICK d \in Domains : d = DomainOf(c) /\ d \in DOMAIN state /\ turn[c] = TurnOf(d) /\ turn[c] \in Turns
    BY WaitersTurn DEF TakeTurn
<1>1. /\ pc[c] = "queued" /\ Head(queue[turn[c]]) = c /\ pc' = [pc EXCEPT ![c] = "asleep"]
      /\ Put(DOMAIN state, d, state[d]) /\ UNCHANGED <<turn, queue, sweepAge, since>>
    BY <1>0 DEF TakeTurn, Entry
<1>2. PICK w \in Waits(state[d]) : left' = [left EXCEPT ![c] = w]
    BY <1>0 DEF TakeTurn, Entry
<1>3. StateFine(state[d]) /\ state[d].age <= since[d] /\ since[d] \in 0 .. Ttl
    BY <1>0 DEF IInv, ClocksFine, Types
<1>4. w \in 0 .. 2 * Ttl /\ \A x \in state[d].robots : state[d].age + w >= x
    BY <1>3, WaitsEnough
<1>5. current' = current /\ DOMAIN state' = DOMAIN state /\ \A e \in DOMAIN state : state'[e] = state[e]
    BY <1>0, <1>1 DEF Put, NewTurn
<1>6. /\ \A k \in Callers : pc'[k] = IF k = c THEN "asleep" ELSE pc[k]
      /\ \A k \in Callers : left'[k] = IF k = c THEN w ELSE left[k]
    BY <1>1, <1>2 DEF IInv, Types
<1>7. LineOf(d) # <<>> /\ LineOf(d)[1] = c
    BY <1>0, <1>1, InItsQueue DEF LineOf, InQueue
<1>8. \A k \in Callers : ~(pc[k] = "asleep" /\ turn[k] = TurnOf(d))
    BY <1>1, <1>7, RestIs
<1>9. RestOf(d) = {} /\ RestOf(d)' = {w}
    <2>1. RestOf(d) = {}
        BY <1>8, RestIs
    <2>2. {k \in Callers : pc'[k] = "asleep" /\ turn'[k] = TurnOf(d)'} = {c}
        BY <1>0, <1>1, <1>5, <1>6, <1>8 DEF TurnOf
    <2>3. RestOf(d)' = {left'[c]}
        BY <2>2 DEF RestOf
    <2> QED BY <1>6, <2>1, <2>3
<1>10. ASSUME NEW e \in Domains, e # d PROVE RestOf(e)' = RestOf(e)
    <2>1. turn[c] # TurnOf(e)
        BY <1>0, <1>10, TurnFacts DEF IInv
    <2> QED BY <1>1, <1>5, <1>6, <2>1 DEF RestOf, TurnOf
<1>11. \A e \in Domains : LineOf(e)' = LineOf(e)
    BY <1>1, <1>5 DEF LineOf, TurnOf
<1>12. \A e \in Domains : AskedOf(e)' = AskedOf(e)
    BY <1>5 DEF AskedOf
<1>13. since[d] + w >= AskedOf(d)
    <2>1. /\ state[d].robots \in SUBSET Nat /\ IsOption(state[d].robots) /\ state[d].age \in Nat
          /\ since[d] \in Nat /\ w \in Nat
        BY <1>3, <1>4 DEF StateFine, States, ThrottleAssumption
    <2>2. AskedOf(d) = OrElse(state[d].robots, 0)
        BY <1>0 DEF AskedOf
    <2>3. CASE state[d].robots = {}
        <3>1. OrElse(state[d].robots, 0) = 0
            BY <2>3 DEF OrElse
        <3> QED BY <2>1, <2>2, <3>1
    <2>4. CASE state[d].robots # {}
        <3>1. AskedOf(d) \in state[d].robots
            BY <2>1, <2>2, <2>4, OneOrElse
        <3> QED BY <1>3, <1>4, <2>1, <3>1
    <2> QED BY <2>3, <2>4
<1>14. PT!TakeTurn(d, w)
    <2>1. [e \in Domains |-> RestOf(e)'] = [[e \in Domains |-> RestOf(e)] EXCEPT ![d] = {w}]
        BY <1>9, <1>10
    <2>2. UNCHANGED since
        BY <1>1
    <2> QED BY <1>0, <1>7, <1>9, <1>11, <1>12, <1>13, <2>1, <2>2 DEF PT!TakeTurn, LineOf, RestOf, AskedOf
<1> QED BY <1>0, <1>4, <1>14 DEF PT!Next

LEMMA GoPaced == ASSUME IInv, NEW c \in Callers, Go(c) PROVE PT!Next
<1>0. PICK d \in Domains : d = DomainOf(c) /\ d \in DOMAIN state /\ turn[c] = TurnOf(d) /\ turn[c] \in Turns
    BY WaitersTurn DEF Go
<1>1. /\ pc[c] = "asleep" /\ left[c] = 0 /\ pc' = [pc EXCEPT ![c] = "sent"]
      /\ queue' = [queue EXCEPT ![turn[c]] = Tail(@)] /\ since' = [since EXCEPT ![d] = 0]
      /\ Put(DOMAIN state, d, [state[d] EXCEPT !.age = 0]) /\ UNCHANGED <<turn, left, sweepAge>>
    BY <1>0 DEF Go, Entry
<1>2. /\ current' = current /\ DOMAIN state' = DOMAIN state
      /\ \A e \in DOMAIN state : state'[e] = IF e = d THEN [state[d] EXCEPT !.age = 0] ELSE state[e]
    BY <1>0, <1>1 DEF Put, NewTurn
<1>3. \A k \in Callers : pc'[k] = IF k = c THEN "sent" ELSE pc[k]
    BY <1>1 DEF IInv, Types
<1>4. RestOf(d) = {0}
    BY <1>0, <1>1, RestIs
<1>5. RestOf(d)' = {}
    <2>1. \A k \in Callers : ~(pc'[k] = "asleep" /\ turn'[k] = TurnOf(d)')
        <3>1. \A k \in Callers : pc[k] = "asleep" /\ turn[k] = turn[c] => k = c
            BY <1>1, OneSleeps
        <3> QED BY <1>0, <1>1, <1>2, <1>3, <3>1 DEF TurnOf
    <2> QED BY <2>1 DEF RestOf
<1>6. ASSUME NEW e \in Domains, e # d PROVE RestOf(e)' = RestOf(e)
    <2>1. turn[c] # TurnOf(e)
        BY <1>0, <1>6, TurnFacts DEF IInv
    <2> QED BY <1>1, <1>2, <1>3, <2>1 DEF RestOf, TurnOf
<1>7. \A e \in Domains : LineOf(e)' = IF e = d THEN Tail(LineOf(e)) ELSE LineOf(e)
    BY <1>0, <1>1, <1>2, TurnFacts DEF LineOf, TurnOf, IInv, QueuesFine
<1>8. \A e \in Domains : AskedOf(e)' = AskedOf(e)
    <2>1. [state[d] EXCEPT !.age = 0].robots = state[d].robots
        BY <1>0 DEF IInv, ClocksFine, StateFine, States
    <2> QED BY <1>2, <2>1 DEF AskedOf
<1>9. PT!Go(d)
    <2>1. [e \in Domains |-> LineOf(e)'] = [[e \in Domains |-> LineOf(e)] EXCEPT ![d] = Tail(@)]
        BY <1>0, <1>7
    <2>2. [e \in Domains |-> RestOf(e)'] = [[e \in Domains |-> RestOf(e)] EXCEPT ![d] = {}]
        BY <1>0, <1>5, <1>6
    <2> QED BY <1>0, <1>1, <1>4, <1>8, <2>1, <2>2 DEF PT!Go, LineOf, RestOf, AskedOf
<1> QED BY <1>0, <1>9 DEF PT!Next

LEMMA SameView ==
    ASSUME \A e \in Domains : LineOf(e)' = LineOf(e) /\ RestOf(e)' = RestOf(e) /\ AskedOf(e)' = AskedOf(e),
           since' = since
    PROVE  UNCHANGED PT!vars
BY DEF PT!vars, LineOf, RestOf, AskedOf

LEMMA DropPaced == ASSUME IInv, NEW c \in Callers, Drop(c) PROVE PT!Next \/ UNCHANGED PT!vars
<1>1. /\ pc[c] \in {"queued", "asleep", "sent"} /\ pc' = [pc EXCEPT ![c] = "idle"]
      /\ queue' = IF pc[c] = "sent" THEN queue ELSE [queue EXCEPT ![turn[c]] = Leave(@, c)]
      /\ left' = [left EXCEPT ![c] = 0] /\ turn' = [turn EXCEPT ![c] = <<>>]
      /\ UNCHANGED <<state, current, sweepAge, since>>
    BY DEF Drop
<1>2. /\ \A k \in Callers : pc'[k] = IF k = c THEN "idle" ELSE pc[k]
      /\ \A k \in Callers \ {c} : turn'[k] = turn[k] /\ left'[k] = left[k]
    BY <1>1 DEF IInv, Types
<1>3. \A e \in Domains : AskedOf(e)' = AskedOf(e)
    BY <1>1 DEF AskedOf
<1>4. CASE pc[c] = "sent"
    <2>1. \A e \in Domains : RestOf(e)' = RestOf(e)
        BY <1>1, <1>2, <1>4, RestStays
    <2>2. \A e \in Domains : LineOf(e)' = LineOf(e)
        BY <1>1, <1>4 DEF LineOf, TurnOf
    <2> QED BY <1>1, <1>3, <2>1, <2>2, SameView
<1>5. CASE pc[c] \in InQueue
    <2>0. PICK d \in Domains : d = DomainOf(c) /\ turn[c] = TurnOf(d) /\ turn[c] \in Turns
        BY <1>5, WaitersTurn DEF InQueue
    <2>1. LineOf(d) \in Seq(Callers) /\ Distinct(LineOf(d)) /\ c \in Elements(LineOf(d))
        BY <1>5, <2>0, InItsQueue DEF LineOf
    <2>2. PICK i \in DOMAIN LineOf(d) : LineOf(d)[i] = c /\ Leave(LineOf(d), c) = RemoveAt(LineOf(d), i)
        BY <2>1, LeftQueue
    <2>3. \A e \in Domains : LineOf(e)' = IF e = d THEN RemoveAt(LineOf(e), i) ELSE LineOf(e)
        <3>1. queue' = [queue EXCEPT ![turn[c]] = Leave(@, c)]
            BY <1>1, <1>5 DEF InQueue
        <3>2. queue'[turn[c]] = RemoveAt(LineOf(d), i) /\ \A t \in Turns \ {turn[c]} : queue'[t] = queue[t]
            BY <2>0, <2>2, <3>1 DEF LineOf, IInv, QueuesFine
        <3>3. \A e \in Domains : TurnOf(e)' = TurnOf(e) /\ TurnOf(e) \in Turns /\ (e # d => TurnOf(e) # turn[c])
            BY <1>1, <2>0, TurnFacts DEF TurnOf, IInv
        <3> QED BY <2>0, <3>2, <3>3 DEF LineOf
    <2>4. ASSUME NEW e \in Domains, e # d PROVE RestOf(e)' = RestOf(e)
        <3>1. turn[c] # TurnOf(e)
            BY <2>0, <2>4, TurnFacts DEF IInv
        <3> QED BY <1>1, <1>2, <3>1 DEF RestOf, TurnOf
    <2>5. \A k \in Callers : pc[k] = "asleep" /\ turn[k] = TurnOf(d) => LineOf(d)[1] = k
        BY RestIs
    <2>6. DOMAIN LineOf(d) = 1 .. Len(LineOf(d)) /\ Len(LineOf(d)) \in Nat
        BY <2>1, ElementsAre
    <2>9. [e \in Domains |-> LineOf(e)'] = [[e \in Domains |-> LineOf(e)] EXCEPT ![d] = PT!RemoveAt(@, i)]
        <3>1. PT!RemoveAt(LineOf(d), i) = RemoveAt(LineOf(d), i)
            BY DEF PT!RemoveAt, RemoveAt
        <3> QED BY <2>0, <2>3, <3>1
    <2>7. CASE i = 1
        <3>1. \A k \in Callers : ~(pc'[k] = "asleep" /\ turn'[k] = TurnOf(d)')
            BY <1>1, <1>2, <2>2, <2>5, <2>7 DEF TurnOf
        <3>2. RestOf(d)' = {}
            BY <3>1 DEF RestOf
        <3>3. PT!GiveUp(c, d)
            <4>1. [e \in Domains |-> RestOf(e)'] = [[e \in Domains |-> RestOf(e)] EXCEPT ![d] = {}]
                BY <2>0, <2>4, <3>2
            <4> QED BY <1>1, <1>3, <2>0, <2>2, <2>9, <2>7, <4>1 DEF PT!GiveUp, LineOf, RestOf, AskedOf
        <3> QED BY <2>0, <3>3 DEF PT!Next
    <2>8. CASE i # 1
        <3>1. LineOf(d)[1] # c
            BY <2>1, <2>2, <2>6, <2>8 DEF Distinct
        <3>2. pc[c] # "asleep"
            BY <2>0, <2>5, <3>1
        <3>3. \A e \in Domains : RestOf(e)' = RestOf(e)
            BY <1>1, <1>2, <3>2, RestStays
        <3>4. PT!GiveUp(c, d)
            <4>1. [e \in Domains |-> RestOf(e)'] = [e \in Domains |-> RestOf(e)]
                BY <3>3
            <4> QED BY <1>1, <1>3, <2>0, <2>2, <2>8, <2>9, <4>1 DEF PT!GiveUp, LineOf, RestOf, AskedOf
        <3> QED BY <2>0, <3>4 DEF PT!Next
    <2> QED BY <2>7, <2>8
<1> QED BY <1>1, <1>4, <1>5 DEF InQueue

LEMMA RespondPaced == ASSUME IInv, NEW c \in Callers, Respond(c) PROVE UNCHANGED PT!vars
<1>1. /\ pc[c] = "sent" /\ pc' = [pc EXCEPT ![c] = "idle"] /\ turn' = [turn EXCEPT ![c] = <<>>]
      /\ UNCHANGED <<queue, left, current, sweepAge, since>>
    BY DEF Respond
<1>2. \A k \in Callers \ {c} : turn'[k] = turn[k] /\ left'[k] = left[k]
    BY <1>1 DEF IInv, Types
<1>3. \A e \in Domains : RestOf(e)' = RestOf(e)
    BY <1>1, <1>2, RestStays
<1>4. \A e \in Domains : LineOf(e)' = LineOf(e)
    BY <1>1 DEF LineOf, TurnOf
<1>5. \A e \in DOMAIN state : state'[e].robots = state[e].robots
    BY Recorded, BackedOff, Succeeded DEF IInv, ClocksFine
<1>6. \A e \in Domains : AskedOf(e)' = AskedOf(e)
    BY <1>5, Recorded DEF AskedOf
<1> QED BY <1>1, <1>3, <1>4, <1>6, SameView

LEMMA SetCrawlDelayPaced ==
    ASSUME IInv, NEW d \in Domains, NEW delay \in RobotsDelays[d], SetCrawlDelay(d, delay) PROVE PT!Next
<1>1. UNCHANGED <<pc, turn, queue, left, sweepAge, since>>
    BY DEF SetCrawlDelay, calls
<1>2. delay \in 0 .. Ttl /\ delay \in Nat
    BY DEF HorizonAssumption, ThrottleAssumption
<1>3. PICK s : /\ s = [Entry(DOMAIN state, d) EXCEPT !.robots = {delay}, !.crawl = {delay}]
               /\ Put(DOMAIN state, d, s)
    BY DEF SetCrawlDelay
<1>4. s.robots = {delay}
    <2>1. StateFine(Entry(DOMAIN state, d))
        BY EntryIs
    <2> QED BY <1>2, <1>3, <2>1, AskedIsFine
<1>5. /\ current' = current /\ DOMAIN state' = DOMAIN state \cup {d}
      /\ \A e \in DOMAIN state \cup {d} : state'[e] = IF e = d THEN s ELSE state[e]
    BY <1>3, ClonedKnown DEF Put, NewTurn
<1>6. \A e \in Domains : LineOf(e)' = LineOf(e) /\ RestOf(e)' = RestOf(e)
    BY <1>1, <1>5 DEF LineOf, RestOf, TurnOf
<1>7. \A e \in Domains : AskedOf(e)' = IF e = d THEN delay ELSE AskedOf(e)
    BY <1>2, <1>4, <1>5, MaxOfOne DEF AskedOf
<1>8. PT!Ask(d, delay)
    BY <1>1, <1>6, <1>7 DEF PT!Ask, LineOf, RestOf, AskedOf
<1>9. delay \in UNION {RobotsDelays[e] : e \in Domains}
    OBVIOUS
<1> QED BY <1>8, <1>9 DEF PT!Next

LEMMA TickPaced == ASSUME IInv, Tick PROVE PT!Next
<1>1. /\ DOMAIN state' = DOMAIN state
      /\ \A d \in DOMAIN state : state'[d] = [state[d] EXCEPT !.age = Older(state[d].age)]
      /\ since' = [d \in Domains |-> Older(since[d])]
      /\ left' = [c \in Callers |-> IF left[c] > 0 THEN left[c] - 1 ELSE 0]
      /\ UNCHANGED <<pc, turn, queue, current>>
    BY DEF Tick
<1>2. \A e \in Domains : LineOf(e)' = LineOf(e)
    BY <1>1 DEF LineOf, TurnOf
<1>3. ASSUME NEW e \in Domains PROVE RestOf(e)' = {IF w > 0 THEN w - 1 ELSE 0 : w \in RestOf(e)}
    BY <1>1 DEF RestOf, TurnOf
<1>4. ASSUME NEW e \in Domains PROVE AskedOf(e)' = AskedOf(e)
    <2>1. CASE e \in DOMAIN state
        <3>1. state'[e].robots = state[e].robots
            BY <1>1, <2>1 DEF IInv, ClocksFine, StateFine, States
        <3> QED BY <1>1, <2>1, <3>1 DEF AskedOf
    <2>2. CASE e \notin DOMAIN state
        BY <1>1, <2>2 DEF AskedOf
    <2> QED BY <2>1, <2>2
<1>5. PT!Tick
    BY <1>1, <1>2, <1>3, <1>4 DEF PT!Tick, LineOf, RestOf, AskedOf, Older
<1> QED BY <1>5 DEF PT!Next

(* The throttle is a rate limiter: the requests of a domain go one by one, *)
(* in order of arrival, and never under the delay that robots.txt asks for.*)
THEOREM PacedAsPromised == Spec => PacesTurns
<1>1. Init => PT!Init
    <2>1. ASSUME Init, NEW d \in Domains PROVE LineOf(d) = <<>> /\ RestOf(d) = {} /\ AskedOf(d) = 0
        BY <2>1, TurnFacts, InitInv DEF Init, LineOf, RestOf, AskedOf, IInv
    <2> QED BY <2>1 DEF Init, PT!Init, LineOf, RestOf, AskedOf
<1>2. IInv /\ [Next]_vars => [PT!Next]_PT!vars
    <2> SUFFICES ASSUME IInv, [Next]_vars PROVE PT!Next \/ UNCHANGED PT!vars
        OBVIOUS
    <2>1. ASSUME NEW c \in Callers, Step(c) PROVE PT!Next
        BY <2>1, QueuePaced, TakeTurnPaced, GoPaced DEF Step
    <2>2. CASE UNCHANGED vars
        BY <2>2 DEF vars, calls, PT!vars, TurnOf
    <2> QED BY <2>1, <2>2, DropPaced, RespondPaced, EnterPaced, SetCrawlDelayPaced, TickPaced DEF Next
<1> QED BY <1>1, <1>2, Invariance, PTL DEF Spec, PacesTurns, PT!Spec
=============================================================================
