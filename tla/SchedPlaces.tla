----------------------------- MODULE SchedPlaces -----------------------------
(***************************************************************************)
(* Threads stay in one place (Sched), for any number of processors,        *)
(* threads and wait channels.  The inductive invariant of the proofs about *)
(* Sched, and that every step keeps its conjunct InOnePlace: a step takes  *)
(* a thread off one list and puts it on another, or moves nothing.         *)
(***************************************************************************)
EXTENDS Sched, TLAPS

(* The labels of a processor, the states of a thread structure, and the    *)
(* local variables of thread_consider_migration.                           *)
Labels == {"run", "idle", "yield", "sleep", "exit", "pick", "relock", "tail", "exorcise", "ready",
           "post", "ipi", "mig.count", "mig.take", "mig.send", "mig.move"}

States == {"none", "run", "ready", "sleep", "zombie"}

MigLocals == [i : Nat, my : Nat, total : Nat, send : Nat, share : Nat]

(* The types of the variables. *)
SchedTypeOK ==
  /\ pc \in [CPU -> Labels]
  /\ curthread \in [CPU -> Thread]
  /\ isidle \in [CPU -> BOOLEAN]
  /\ runq \in [CPU -> Seq(Thread)]
  /\ rqlock \in [CPU -> CPU \cup {NoCPU}]
  /\ zombies \in [CPU -> Seq(Thread)]
  /\ line \in [CPU -> BOOLEAN]
  /\ list \in [CPU -> Seq(Thread)]
  /\ dest \in [CPU -> CPU]
  /\ mig \in [CPU -> MigLocals]
  /\ tcpu \in [Thread -> CPU]
  /\ t_state \in [Thread -> States]
  /\ wchan \in [Chan -> Seq(Thread)]
  /\ wclock \in [Chan -> CPU \cup {NoCPU}]

(* Where a processor has a private list, and where it considers migration. *)
ListLabels == {"ready", "post", "mig.send", "mig.move"}
MigLabels == {"mig.count", "mig.take", "mig.send", "mig.move"}

(* What a processor's place in the code says of its own variables. *)
ControlOf(c) ==
  /\ pc[c] \in {"idle", "relock", "pick"} => isidle[c]
  /\ pc[c] \in {"run", "sleep", "exit", "tail", "exorcise"} => ~isidle[c]
  /\ pc[c] \notin ListLabels => list[c] = << >>
  /\ pc[c] = "post" => list[c] # << >>
  /\ pc[c] \notin MigLabels => mig[c] = NoMig
  /\ pc[c] \in {"mig.count", "mig.move"} => mig[c].i < NCPU

Control == \A c \in CPU : ControlOf(c)

(* BelongsToCpu, and the same for zombies and for victims of a migration:  *)
(* exorcise and migration change t_cpu of these, and of no other thread.   *)
OwnedBy(c) ==
  /\ tcpu[curthread[c]] = c
  /\ \A t \in Range(runq[c]) : tcpu[t] = c
  /\ \A t \in Range(zombies[c]) : tcpu[t] = c
  /\ pc[c] \in {"mig.send", "mig.move"} => \A t \in Range(list[c]) : tcpu[t] = c
  /\ pc[c] = "post" => tcpu[Head(list[c])] = dest[c]

Owned == \A c \in CPU : OwnedBy(c)

(* MigrationHasThreads, and already while the queues are being counted. *)
Counted ==
  \A c \in CPU :
    /\ pc[c] \in {"mig.count", "mig.take"} => mig[c].my <= Len(runq[c])
    /\ pc[c] \in {"mig.send", "mig.move"} => mig[c].send <= Len(list[c])

(* A processor never runs on a freed stack. *)
StacksExist == \A c \in CPU : t_state[curthread[c]] # "none"

IInv ==
  /\ SchedTypeOK /\ Control /\ InOnePlace /\ Owned /\ StacksExist
  /\ IdleIsInterrupted /\ Counted

-----------------------------------------------------------------------------
(* Lists without duplicates, such as run queues and wait channels.  Adding *)
(* an element that is not in the list.                                     *)
LEMMA AppendElements ==
  ASSUME NEW T, NEW q \in Seq(T), NEW x \in T, x \notin Range(q), IsInjective(q)
  PROVE  /\ Append(q, x) \in Seq(T)
         /\ Range(Append(q, x)) = Range(q) \cup {x}
         /\ IsInjective(Append(q, x))
<1> DEFINE r == Append(q, x)
<1>1. /\ DOMAIN q = 1..Len(q) /\ Len(q) \in Nat
      /\ DOMAIN r = 1..(Len(q) + 1)
      /\ \A i \in 1..Len(q) : r[i] = q[i]
      /\ r[Len(q) + 1] = x
      /\ r \in Seq(T)
  OBVIOUS
<1> HIDE DEF r
<1>2. IsInjective(r)
  BY <1>1 DEF IsInjective, Range
<1>3. Range(r) \subseteq Range(q) \cup {x}
  BY <1>1 DEF Range
<1>4. Range(q) \cup {x} \subseteq Range(r)
  BY <1>1 DEF Range
<1> QED
  BY <1>1, <1>2, <1>3, <1>4 DEF r

(* Removing the first element. *)
LEMMA TailElements ==
  ASSUME NEW T, NEW q \in Seq(T), q # << >>, IsInjective(q)
  PROVE  /\ Tail(q) \in Seq(T)
         /\ Head(q) \in Range(q) /\ Head(q) \in T
         /\ Range(Tail(q)) = Range(q) \ {Head(q)}
         /\ IsInjective(Tail(q))
<1> DEFINE r == Tail(q)
           h == Head(q)
<1>1. /\ DOMAIN q = 1..Len(q) /\ Len(q) \in Nat /\ Len(q) >= 1
      /\ DOMAIN r = 1..(Len(q) - 1)
      /\ \A i \in 1..(Len(q) - 1) : r[i] = q[i + 1]
      /\ h = q[1]
      /\ r \in Seq(T) /\ h \in T
  OBVIOUS
<1> HIDE DEF r, h
<1>2. IsInjective(r)
  BY <1>1 DEF IsInjective
<1>3. ASSUME NEW y \in Range(r) PROVE y \in Range(q) \ {h}
  <2>1. PICK i \in 1..(Len(q) - 1) : r[i] = y
    BY <1>1 DEF Range
  <2>2. i + 1 \in 1..Len(q) /\ i + 1 # 1 /\ q[i + 1] = y
    BY <1>1, <2>1
  <2>3. y # h
    BY <1>1, <2>2 DEF IsInjective
  <2> QED
    BY <1>1, <2>2, <2>3 DEF Range
<1>4. ASSUME NEW y \in Range(q) \ {h} PROVE y \in Range(r)
  <2>1. PICK i \in 1..Len(q) : q[i] = y
    BY <1>1 DEF Range
  <2>2. i # 1 /\ i - 1 \in 1..(Len(q) - 1) /\ r[i - 1] = y
    BY <1>1, <2>1
  <2> QED
    BY <1>1, <2>2 DEF Range
<1>5. h \in Range(q)
  BY <1>1 DEF Range
<1> QED
  BY <1>1, <1>2, <1>3, <1>4, <1>5 DEF r, h

(* The empty queue, and a queue of one. *)
LEMMA EmptyElements == Range(<< >>) = {} /\ IsInjective(<< >>)
  BY DEF Range, IsInjective

(* A sequence of one element holds that element, once. *)
LEMMA OneElement ==
  ASSUME NEW x
  PROVE  Range(<<x>>) = {x} /\ IsInjective(<<x>>)
  BY DEF Range, IsInjective

(* Cutting a queue in two. *)
LEMMA SplitElements ==
  ASSUME NEW T, NEW q \in Seq(T), IsInjective(q), NEW n \in 0..Len(q)
  PROVE  LET a == SubSeq(q, 1, n)
             b == SubSeq(q, n + 1, Len(q))
         IN  /\ a \in Seq(T) /\ b \in Seq(T)
             /\ Len(a) = n /\ Len(b) = Len(q) - n
             /\ IsInjective(a) /\ IsInjective(b)
             /\ Range(a) \cup Range(b) = Range(q)
             /\ Range(a) \cap Range(b) = {}
<1> DEFINE a == SubSeq(q, 1, n)
           b == SubSeq(q, n + 1, Len(q))
<1>1. /\ Len(q) \in Nat /\ n \in Nat /\ n <= Len(q)
      /\ DOMAIN q = 1..Len(q) /\ \A i \in 1..Len(q) : q[i] \in T
  OBVIOUS
<1>2. /\ a \in Seq(T) /\ Len(a) = n /\ \A i \in 1..n : a[i] = q[i]
  <2>1. \A i \in 1..n : q[i] \in T
    BY <1>1
  <2>2. 1 \in Int /\ n \in Int /\ 1 <= n + 1
    BY <1>1
  <2> QED
    BY <1>1, <2>1, <2>2
<1>3. /\ b \in Seq(T) /\ Len(b) = Len(q) - n /\ \A i \in 1..(Len(q) - n) : b[i] = q[i + n]
  <2>1. \A i \in (n + 1)..Len(q) : q[i] \in T
    BY <1>1
  <2>2. n + 1 \in Int /\ Len(q) \in Int /\ n + 1 <= Len(q) + 1
    BY <1>1
  <2>3. /\ b \in Seq(T)
        /\ \A i \in 1..(Len(q) - (n + 1) + 1) : b[i] = q[(n + 1) + i - 1]
    BY <2>1, <2>2
  <2>4. Len(b) = Len(q) - n
    <3>1. Len(b) = IF n + 1 <= Len(q) THEN Len(q) - (n + 1) + 1 ELSE 0
      BY <2>1, <2>2
    <3>2. Len(q) \in Nat /\ n \in Nat /\ n <= Len(q)
      BY <1>1
    <3> HIDE DEF b
    <3> QED
      BY <3>1, <3>2
  <2> HIDE DEF b
  <2>5. ASSUME NEW i \in 1..(Len(q) - n) PROVE b[i] = q[i + n]
    <3>1. i \in 1..(Len(q) - (n + 1) + 1) /\ (n + 1) + i - 1 = i + n
      BY <1>1
    <3> QED
      BY <2>3, <3>1
  <2> QED
    BY <2>3, <2>4, <2>5
<1> HIDE DEF a, b
<1>4. DOMAIN a = 1..n /\ DOMAIN b = 1..(Len(q) - n)
  BY <1>1, <1>2, <1>3
<1>5. IsInjective(a) /\ IsInjective(b)
  <2>1. IsInjective(a)
    BY <1>1, <1>2, <1>4 DEF IsInjective
  <2>2. ASSUME NEW i \in DOMAIN b, NEW k \in DOMAIN b, b[i] = b[k] PROVE i = k
    <3>1. i + n \in DOMAIN q /\ k + n \in DOMAIN q /\ q[i + n] = q[k + n] /\ i \in Int /\ k \in Int
      BY <1>1, <1>3, <1>4, <2>2
    <3>2. i + n = k + n
      BY <3>1 DEF IsInjective
    <3> QED
      BY <1>1, <3>1, <3>2
  <2> QED
    BY <2>1, <2>2 DEF IsInjective
<1>6. Range(a) \cap Range(b) = {}
  <2>1. ASSUME NEW i \in 1..n, NEW k \in 1..(Len(q) - n), a[i] = b[k] PROVE FALSE
    <3>1. i \in DOMAIN q /\ k + n \in DOMAIN q /\ i # k + n /\ q[i] = q[k + n]
      BY <1>1, <1>2, <1>3, <2>1
    <3> QED
      BY <3>1 DEF IsInjective
  <2> QED
    BY <1>4, <2>1 DEF Range
<1>7. Range(a) \subseteq Range(q) /\ Range(b) \subseteq Range(q)
  <2>1. \A i \in 1..n : i \in 1..Len(q)
    BY <1>1
  <2>2. \A i \in 1..(Len(q) - n) : i + n \in 1..Len(q)
    BY <1>1
  <2>3. Range(a) \subseteq Range(q)
    BY <1>1, <1>2, <1>4, <2>1 DEF Range
  <2>4. Range(b) \subseteq Range(q)
    BY <1>1, <1>3, <1>4, <2>2 DEF Range
  <2> QED
    BY <2>3, <2>4
<1>8. ASSUME NEW y \in Range(q) PROVE y \in Range(a) \cup Range(b)
  <2>1. PICK i \in 1..Len(q) : q[i] = y
    BY <1>1 DEF Range
  <2>2. CASE i <= n
    <3>1. i \in 1..n /\ a[i] = y
      BY <1>1, <1>2, <2>1, <2>2
    <3> QED
      BY <1>4, <3>1 DEF Range
  <2>3. CASE i > n
    <3>1. i - n \in 1..(Len(q) - n) /\ b[i - n] = y
      BY <1>1, <1>3, <2>1, <2>3
    <3> QED
      BY <1>4, <3>1 DEF Range
  <2> QED
    BY <1>1, <2>1, <2>2, <2>3
<1> QED
  BY <1>2, <1>3, <1>5, <1>6, <1>7, <1>8 DEF a, b

(* One queue after another. *)
LEMMA ConcatElements ==
  ASSUME NEW T, NEW q \in Seq(T), NEW r \in Seq(T), IsInjective(q), IsInjective(r),
         Range(q) \cap Range(r) = {}
  PROVE  /\ q \o r \in Seq(T)
         /\ IsInjective(q \o r)
         /\ Range(q \o r) = Range(q) \cup Range(r)
<1> DEFINE s == q \o r
<1>1. /\ Len(q) \in Nat /\ Len(r) \in Nat
      /\ DOMAIN q = 1..Len(q) /\ DOMAIN r = 1..Len(r)
      /\ s \in Seq(T) /\ DOMAIN s = 1..(Len(q) + Len(r))
      /\ \A i \in 1..(Len(q) + Len(r)) : s[i] = IF i <= Len(q) THEN q[i] ELSE r[i - Len(q)]
  OBVIOUS
<1> HIDE DEF s
<1>2. \A i \in 1..Len(q) : i \in DOMAIN s /\ s[i] = q[i]
  BY <1>1
<1>3. ASSUME NEW i \in 1..Len(r) PROVE i + Len(q) \in DOMAIN s /\ s[i + Len(q)] = r[i]
  <2>1. i + Len(q) \in 1..(Len(q) + Len(r)) /\ ~(i + Len(q) <= Len(q)) /\ i + Len(q) - Len(q) = i
    BY <1>1
  <2> QED
    BY <1>1, <2>1
<1>4. \A i \in DOMAIN s : \/ i \in 1..Len(q) /\ s[i] = q[i]
                          \/ i - Len(q) \in 1..Len(r) /\ s[i] = r[i - Len(q)]
  BY <1>1
<1>5. Range(s) \subseteq Range(q) \cup Range(r)
  BY <1>1, <1>4 DEF Range
<1>6. Range(q) \cup Range(r) \subseteq Range(s)
  <2>1. ASSUME NEW y \in Range(q) PROVE y \in Range(s)
    BY <1>1, <1>2 DEF Range
  <2>2. ASSUME NEW y \in Range(r) PROVE y \in Range(s)
    <3>1. PICK i \in 1..Len(r) : r[i] = y
      BY <1>1 DEF Range
    <3>2. i + Len(q) \in DOMAIN s /\ s[i + Len(q)] = y
      BY <1>3, <3>1
    <3> QED
      BY <3>2 DEF Range
  <2> QED
    BY <2>1, <2>2
<1>7. ASSUME NEW i \in DOMAIN s, NEW k \in DOMAIN s, s[i] = s[k] PROVE i = k
  <2>1. \A m \in DOMAIN q, n \in DOMAIN r : q[m] # r[n]
    BY DEF Range
  <2>2. i \in Int /\ k \in Int
    BY <1>1
  <2>3. CASE i \in 1..Len(q) /\ k \in 1..Len(q)
    BY <1>1, <1>2, <1>7, <2>3 DEF IsInjective
  <2>4. CASE i - Len(q) \in 1..Len(r) /\ k - Len(q) \in 1..Len(r)
    <3>1. r[i - Len(q)] = r[k - Len(q)]
      BY <1>1, <1>7, <2>4
    <3>2. i - Len(q) = k - Len(q)
      BY <1>1, <2>4, <3>1 DEF IsInjective
    <3> QED
      BY <1>1, <2>2, <3>2
  <2> QED
    BY <1>1, <1>4, <1>7, <2>1, <2>3, <2>4
<1>8. IsInjective(s)
  BY <1>7 DEF IsInjective
<1> QED
  BY <1>1, <1>5, <1>6, <1>8 DEF s

(* Moving the first element to the end. *)
LEMMA RotateElements ==
  ASSUME NEW T, NEW q \in Seq(T), q # << >>, IsInjective(q)
  PROVE  /\ Append(Tail(q), Head(q)) \in Seq(T)
         /\ Len(Append(Tail(q), Head(q))) = Len(q)
         /\ IsInjective(Append(Tail(q), Head(q)))
         /\ Range(Append(Tail(q), Head(q))) = Range(q)
<1>1. /\ Tail(q) \in Seq(T) /\ Head(q) \in T /\ Head(q) \in Range(q)
      /\ Range(Tail(q)) = Range(q) \ {Head(q)} /\ IsInjective(Tail(q))
  BY TailElements
<1>2. Len(Append(Tail(q), Head(q))) = Len(q)
  OBVIOUS
<1>3. Head(q) \notin Range(Tail(q)) /\ Range(q) = Range(Tail(q)) \cup {Head(q)}
  BY <1>1
<1> DEFINE t == Tail(q)
           h == Head(q)
<1> HIDE DEF t, h
<1>4. t \in Seq(T) /\ h \in T /\ h \notin Range(t) /\ IsInjective(t)
  BY <1>1, <1>3 DEF t, h
<1>5. Append(t, h) \in Seq(T) /\ Range(Append(t, h)) = Range(t) \cup {h} /\ IsInjective(Append(t, h))
  BY <1>4, AppendElements
<1> QED
  BY <1>2, <1>3, <1>5 DEF t, h

(* Moving the first element to the end of another queue. *)
LEMMA TransferElements ==
  ASSUME NEW T, NEW q \in Seq(T), NEW r \in Seq(T), q # << >>, IsInjective(q), IsInjective(r),
         Range(q) \cap Range(r) = {}
  PROVE  /\ Head(q) \in T /\ Head(q) \in Range(q) /\ Head(q) \notin Range(r)
         /\ Tail(q) \in Seq(T) /\ Len(Tail(q)) = Len(q) - 1
         /\ IsInjective(Tail(q)) /\ Range(Tail(q)) = Range(q) \ {Head(q)}
         /\ Append(r, Head(q)) \in Seq(T) /\ Len(Append(r, Head(q))) = Len(r) + 1
         /\ IsInjective(Append(r, Head(q))) /\ Range(Append(r, Head(q))) = Range(r) \cup {Head(q)}
<1>1. /\ Tail(q) \in Seq(T) /\ Head(q) \in T /\ Head(q) \in Range(q)
      /\ Range(Tail(q)) = Range(q) \ {Head(q)} /\ IsInjective(Tail(q))
  BY TailElements
<1>2. Head(q) \notin Range(r)
  BY <1>1
<1>3. /\ Append(r, Head(q)) \in Seq(T) /\ Range(Append(r, Head(q))) = Range(r) \cup {Head(q)}
      /\ IsInjective(Append(r, Head(q)))
  BY <1>1, <1>2, AppendElements
<1>4. Len(Tail(q)) = Len(q) - 1 /\ Len(Append(r, Head(q))) = Len(r) + 1
  BY <1>1
<1> QED
  BY <1>1, <1>2, <1>3, <1>4

-----------------------------------------------------------------------------
(* A place is a processor, one of its lists, or a channel. *)
LEMMA PlaceCases ==
  ASSUME NEW p \in Place
  PROVE  \/ \E c \in CPU : p = <<"cpu", c>> \/ p = <<"runq", c>> \/ p = <<"zombies", c>> \/ p = <<"list", c>>
         \/ \E w \in Chan : p = <<"wchan", w>>
  BY DEF Place

(* Every processor, list and channel is a place. *)
LEMMA Places ==
  /\ \A c \in CPU : /\ <<"cpu", c>> \in Place /\ <<"runq", c>> \in Place
                    /\ <<"zombies", c>> \in Place /\ <<"list", c>> \in Place
  /\ \A w \in Chan : <<"wchan", w>> \in Place
  BY DEF Place

(* What At says of each kind of place, before a step *)
LEMMA AtIs ==
  /\ \A c \in CPU : At(<<"cpu", c>>) = IF isidle[c] THEN << >> ELSE <<curthread[c]>>
  /\ \A c \in CPU : At(<<"runq", c>>) = runq[c]
  /\ \A c \in CPU : At(<<"zombies", c>>) = zombies[c]
  /\ \A c \in CPU : At(<<"list", c>>) = list[c]
  /\ \A w \in Chan : At(<<"wchan", w>>) = wchan[w]
<1>1. \A c \in CPU : At(<<"cpu", c>>) = IF isidle[c] THEN << >> ELSE <<curthread[c]>>
  BY DEF At
<1>2. \A c \in CPU : At(<<"runq", c>>) = runq[c]
  BY DEF At
<1>3. \A c \in CPU : At(<<"zombies", c>>) = zombies[c]
  BY DEF At
<1>4. \A c \in CPU : At(<<"list", c>>) = list[c]
  BY DEF At
<1>5. \A w \in Chan : At(<<"wchan", w>>) = wchan[w]
  BY DEF At
<1> QED
  BY <1>1, <1>2, <1>3, <1>4, <1>5

(* and after it. *)
LEMMA AtIsNext ==
  /\ \A c \in CPU : At(<<"cpu", c>>)' = IF isidle'[c] THEN << >> ELSE <<curthread'[c]>>
  /\ \A c \in CPU : At(<<"runq", c>>)' = runq'[c]
  /\ \A c \in CPU : At(<<"zombies", c>>)' = zombies'[c]
  /\ \A c \in CPU : At(<<"list", c>>)' = list'[c]
  /\ \A w \in Chan : At(<<"wchan", w>>)' = wchan'[w]
<1>1. \A c \in CPU : At(<<"cpu", c>>)' = IF isidle'[c] THEN << >> ELSE <<curthread'[c]>>
  BY DEF At
<1>2. \A c \in CPU : At(<<"runq", c>>)' = runq'[c]
  BY DEF At
<1>3. \A c \in CPU : At(<<"zombies", c>>)' = zombies'[c]
  BY DEF At
<1>4. \A c \in CPU : At(<<"list", c>>)' = list'[c]
  BY DEF At
<1>5. \A w \in Chan : At(<<"wchan", w>>)' = wchan'[w]
  BY DEF At
<1> QED
  BY <1>1, <1>2, <1>3, <1>4, <1>5

(* InOnePlace, without PlacesOf. *)
Apart ==
  /\ \A p \in Place : IsInjective(At(p))
  /\ \A t \in Thread : \A p, q \in Place : t \in Range(At(p)) /\ t \in Range(At(q)) => p = q
  /\ \A t \in Thread : \A p \in Place : t \in Range(At(p)) => t_state[t] # "none"
  /\ \A t \in Thread : t_state[t] # "none" => \E p \in Place : t \in Range(At(p))

(* Apart restates InOnePlace, before a step *)
LEMMA ApartIs == InOnePlace <=> Apart
  BY DEF InOnePlace, PlacesOf, Apart

(* and after it. *)
LEMMA ApartIsNext == InOnePlace' <=> Apart'
  BY DEF InOnePlace, PlacesOf, Apart

(* Places whose variables keep their values keep their threads. *)
LEMMA Elsewhere ==
  ASSUME NEW X,
         \A c \in CPU : <<"cpu", c>> \in X \/ (isidle'[c] = isidle[c] /\ curthread'[c] = curthread[c]),
         \A c \in CPU : <<"runq", c>> \in X \/ runq'[c] = runq[c],
         \A c \in CPU : <<"zombies", c>> \in X \/ zombies'[c] = zombies[c],
         \A c \in CPU : <<"list", c>> \in X \/ list'[c] = list[c],
         \A w \in Chan : <<"wchan", w>> \in X \/ wchan'[w] = wchan[w]
  PROVE  \A r \in Place : r \notin X => At(r)' = At(r)
<1> SUFFICES ASSUME NEW r \in Place, r \notin X PROVE At(r)' = At(r)
  OBVIOUS
<1>1. CASE \E c \in CPU : r = <<"cpu", c>>
  <2>1. PICK c \in CPU : r = <<"cpu", c>>
    BY <1>1
  <2>2. isidle'[c] = isidle[c] /\ curthread'[c] = curthread[c]
    BY <2>1
  <2>3. At(<<"cpu", c>>) = IF isidle[c] THEN << >> ELSE <<curthread[c]>>
    BY AtIs
  <2>4. At(<<"cpu", c>>)' = IF isidle'[c] THEN << >> ELSE <<curthread'[c]>>
    BY AtIsNext
  <2>5. (IF isidle'[c] THEN << >> ELSE <<curthread'[c]>>) = IF isidle[c] THEN << >> ELSE <<curthread[c]>>
    BY <2>2
  <2> QED
    BY <2>1, <2>3, <2>4, <2>5
<1>2. CASE \E c \in CPU : r = <<"runq", c>>
  BY <1>2, AtIs, AtIsNext
<1>3. CASE \E c \in CPU : r = <<"zombies", c>>
  BY <1>3, AtIs, AtIsNext
<1>4. CASE \E c \in CPU : r = <<"list", c>>
  BY <1>4, AtIs, AtIsNext
<1>5. CASE \E w \in Chan : r = <<"wchan", w>>
  BY <1>5, AtIs, AtIsNext
<1> QED
  BY <1>1, <1>2, <1>3, <1>4, <1>5, PlaceCases

(* A step that takes threads off one place and puts them on another, with
   their order or not, leaves every thread in one place. *)
LEMMA Moved ==
  ASSUME InOnePlace, NEW p \in Place, NEW q \in Place, p # q,
         \A r \in Place : r \notin {p, q} => At(r)' = At(r),
         IsInjective(At(p)'), IsInjective(At(q)'),
         Range(At(p)') \cup Range(At(q)') = Range(At(p)) \cup Range(At(q)),
         Range(At(p)') \cap Range(At(q)') = {},
         \A t \in Thread : t_state'[t] = "none" <=> t_state[t] = "none"
  PROVE  InOnePlace'
<1>0. Apart
  BY ApartIs
<1>1. \A r \in Place : IsInjective(At(r)')
  BY <1>0 DEF Apart
<1>2. ASSUME NEW t \in Thread, NEW r \in Place, NEW s \in Place, t \in Range(At(r)'), t \in Range(At(s)')
      PROVE  r = s
  BY <1>0, <1>2 DEF Apart
<1>3. ASSUME NEW t \in Thread, NEW r \in Place, t \in Range(At(r)') PROVE t_state'[t] # "none"
  BY <1>0, <1>3 DEF Apart
<1>4. ASSUME NEW t \in Thread, t_state'[t] # "none" PROVE \E r \in Place : t \in Range(At(r)')
  <2>1. PICK r \in Place : t \in Range(At(r))
    BY <1>0, <1>4 DEF Apart
  <2> QED
    BY <2>1
<1>5. Apart'
  BY <1>1, <1>2, <1>3, <1>4 DEF Apart
<1> QED
  BY <1>5, ApartIsNext
-----------------------------------------------------------------------------
(* What the lists hold, and that they have nothing in common. *)
LEMMA Lists ==
  ASSUME SchedTypeOK, InOnePlace, NEW c \in CPU
  PROVE  /\ runq[c] \in Seq(Thread) /\ IsInjective(runq[c]) /\ Range(runq[c]) \subseteq Thread
         /\ list[c] \in Seq(Thread) /\ IsInjective(list[c]) /\ Range(list[c]) \subseteq Thread
         /\ zombies[c] \in Seq(Thread) /\ IsInjective(zombies[c]) /\ Range(zombies[c]) \subseteq Thread
<1>1. runq[c] \in Seq(Thread) /\ list[c] \in Seq(Thread) /\ zombies[c] \in Seq(Thread)
  BY DEF SchedTypeOK
<1>2. IsInjective(runq[c]) /\ IsInjective(list[c]) /\ IsInjective(zombies[c])
  BY Zenon, Places, AtIs DEF InOnePlace
<1> QED
  BY <1>1, <1>2 DEF Range

(* The same of the wait channels. *)
LEMMA Channels ==
  ASSUME SchedTypeOK, InOnePlace, NEW w \in Chan
  PROVE  wchan[w] \in Seq(Thread) /\ IsInjective(wchan[w]) /\ Range(wchan[w]) \subseteq Thread
<1>1. wchan[w] \in Seq(Thread)
  BY DEF SchedTypeOK
<1>2. IsInjective(wchan[w])
  BY Zenon, Places, AtIs DEF InOnePlace
<1> QED
  BY <1>1, <1>2 DEF Range

(* Two places have no thread in common, *)
LEMMA PlacesDiffer ==
  ASSUME InOnePlace, NEW p \in Place, NEW q \in Place, p # q, Range(At(p)) \subseteq Thread
  PROVE  Range(At(p)) \cap Range(At(q)) = {}
  BY ApartIs DEF Apart

(* which for the lists of the processors reads as follows. *)
LEMMA ListsApart ==
  ASSUME SchedTypeOK, InOnePlace, NEW c \in CPU, NEW d \in CPU
  PROVE  /\ Range(list[c]) \cap Range(runq[d]) = {}
         /\ Range(list[c]) \cap Range(zombies[d]) = {}
         /\ Range(runq[c]) \cap Range(zombies[d]) = {}
         /\ c # d => Range(runq[c]) \cap Range(runq[d]) = {}
         /\ c # d => Range(list[c]) \cap Range(list[d]) = {}
         /\ c # d => Range(zombies[c]) \cap Range(zombies[d]) = {}
<1> DEFINE L(x) == <<"list", x>>
           R(x) == <<"runq", x>>
           Z(x) == <<"zombies", x>>
<1>1. \A x \in CPU : /\ L(x) \in Place /\ R(x) \in Place /\ Z(x) \in Place
                     /\ At(L(x)) = list[x] /\ At(R(x)) = runq[x] /\ At(Z(x)) = zombies[x]
  BY Zenon, Places, AtIs
<1>2. \A x \in CPU : Range(list[x]) \subseteq Thread /\ Range(runq[x]) \subseteq Thread /\ Range(zombies[x]) \subseteq Thread
  BY Lists
<1>3. \A x, y \in CPU : L(x) # R(y) /\ L(x) # Z(y) /\ R(x) # Z(y)
  OBVIOUS
<1>4. \A x, y \in CPU : x # y => L(x) # L(y) /\ R(x) # R(y) /\ Z(x) # Z(y)
  OBVIOUS
<1> HIDE DEF L, R, Z
<1>5. \A p, q \in Place : p # q /\ Range(At(p)) \subseteq Thread => Range(At(p)) \cap Range(At(q)) = {}
  BY PlacesDiffer
<1> QED
  BY <1>1, <1>2, <1>3, <1>4, <1>5

(* The thread that a processor runs is nowhere else. *)
LEMMA CurrentApart ==
  ASSUME SchedTypeOK, InOnePlace, NEW c \in CPU, ~isidle[c]
  PROVE  /\ curthread[c] \in Thread
         /\ \A d \in CPU : /\ curthread[c] \notin Range(runq[d])
                           /\ curthread[c] \notin Range(list[d])
                           /\ curthread[c] \notin Range(zombies[d])
         /\ \A w \in Chan : curthread[c] \notin Range(wchan[w])
         /\ t_state[curthread[c]] # "none"
<1> DEFINE p == <<"cpu", c>>
<1>1. curthread[c] \in Thread
  BY DEF SchedTypeOK
<1>2. p \in Place /\ Range(At(p)) = {curthread[c]}
  BY Zenon, Places, AtIs, OneElement
<1>3. \A q \in Place : q # p => curthread[c] \notin Range(At(q))
  BY <1>1, <1>2, ApartIs DEF Apart
<1>4. \A d \in CPU : <<"runq", d>> # p /\ <<"list", d>> # p /\ <<"zombies", d>> # p
  OBVIOUS
<1>5. \A w \in Chan : <<"wchan", w>> # p
  OBVIOUS
<1>6. t_state[curthread[c]] # "none"
  BY <1>1, <1>2, ApartIs DEF Apart
<1> HIDE DEF p
<1> QED
  BY Zenon, <1>1, <1>3, <1>4, <1>5, <1>6, Places, AtIs

(* The local variables of thread_consider_migration. *)
LEMMA MigFields ==
  ASSUME SchedTypeOK, NEW c \in CPU
  PROVE  /\ mig[c] \in MigLocals
         /\ mig[c].i \in Nat /\ mig[c].my \in Nat /\ mig[c].total \in Nat
         /\ mig[c].send \in Nat /\ mig[c].share \in Nat
<1>1. mig[c] \in MigLocals
  BY DEF SchedTypeOK
<1> QED
  BY <1>1 DEF MigLocals

(* The index of a migration loop names a processor. *)
LEMMA MigIndex ==
  ASSUME SchedTypeOK, Control, NEW c \in CPU, pc[c] \in {"mig.count", "mig.move"}
  PROVE  mig[c].i \in CPU
<1>1. mig[c].i < NCPU
  BY DEF Control, ControlOf
<1>2. mig[c].i \in Nat
  BY MigFields
<1> QED
  BY <1>1, <1>2, SchedAssumption DEF CPU

(* The share of a processor, a rounded division, is a natural number. *)
LEMMA ShareIsNat ==
  ASSUME SchedTypeOK, NEW c \in CPU
  PROVE  OneShare(c) \in Nat
<1>1. mig[c].total \in Nat
  BY MigFields
<1>2. \A n \in Nat, k \in Nat \ {0} : (n + k - 1) \div k \in Nat
  OBVIOUS
<1> QED
  BY <1>1, <1>2, SchedAssumption DEF OneShare

(* What the steps of a migration leave in these variables. *)
LEMMA MigCountSets ==
  ASSUME SchedTypeOK, Control, NEW c \in CPU, MigCount(c)
  PROVE  /\ mig'[c] \in MigLocals
         /\ mig'[c].i = mig[c].i + 1
         /\ mig'[c].my = IF mig[c].i = c THEN Len(runq[c]) ELSE mig[c].my
<1>1. mig[c] \in MigLocals /\ mig[c].i \in Nat /\ mig[c].my \in Nat /\ mig[c].total \in Nat
  BY MigFields
<1>2. mig[c].i \in CPU
  BY MigIndex DEF MigCount
<1>3. Len(runq[mig[c].i]) \in Nat
  BY <1>2 DEF SchedTypeOK
<1> DEFINE n == Len(runq[mig[c].i])
           my == IF mig[c].i = c THEN n ELSE mig[c].my
           i == mig[c].i + 1
           total == mig[c].total + n
           r == [mig[c] EXCEPT !.i = i, !.total = total, !.my = my]
<1>4. mig'[c] = r
  BY DEF SchedTypeOK, MigCount, Local
<1>5. my \in Nat /\ i \in Nat /\ total \in Nat
  BY <1>1, <1>3
<1>6. my = IF mig[c].i = c THEN Len(runq[c]) ELSE mig[c].my
  OBVIOUS
<1>7. r \in MigLocals /\ r.i = i /\ r.my = my
  <2> HIDE DEF n, my, i, total
  <2> QED
    BY Zenon, <1>1, <1>5 DEF MigLocals
<1> HIDE DEF n, my, r
<1> QED
  BY <1>4, <1>6, <1>7

(* MigTake sets the number of victims. *)
LEMMA MigTakeSets ==
  ASSUME SchedTypeOK, Control, NEW c \in CPU, MigTake(c)
  PROVE  mig'[c] \in MigLocals /\ mig'[c].send = mig[c].my - OneShare(c)
<1>1. mig[c] \in MigLocals /\ mig[c].my \in Nat /\ OneShare(c) \in Nat /\ mig[c].my >= OneShare(c)
  BY MigFields, ShareIsNat DEF MigTake
<1> DEFINE a == mig[c].my - OneShare(c)
           b == OneShare(c)
           r == [mig[c] EXCEPT !.i = 0, !.send = a, !.share = b]
<1>2. mig'[c] = r
  BY DEF SchedTypeOK, MigTake, Local
<1>3. a \in Nat /\ b \in Nat
  BY <1>1
<1>4. r \in MigLocals /\ r.send = a
  <2> HIDE DEF a, b
  <2> QED
    BY Zenon, <1>1, <1>3 DEF MigLocals
<1> HIDE DEF r
<1> QED
  BY <1>2, <1>4

(* Going on to the next processor sets the index alone. *)
LEMMA MigIndexSets ==
  ASSUME SchedTypeOK, NEW c \in CPU, MigSkipSelf(c) \/ MigUnlock(c)
  PROVE  mig'[c] \in MigLocals /\ mig'[c].send = mig[c].send
<1>1. mig[c] \in MigLocals /\ mig[c].i + 1 \in Nat
  BY MigFields
<1> DEFINE a == mig[c].i + 1
<1>2. mig'[c] = [mig[c] EXCEPT !.i = a]
  BY Zenon DEF SchedTypeOK, MigSkipSelf, MigUnlock, Local
<1> HIDE DEF a
<1>3. \A m \in MigLocals : \A x \in Nat :
        LET r == [m EXCEPT !.i = x] IN r \in MigLocals /\ r.send = m.send
  BY DEF MigLocals
<1> QED
  BY <1>1, <1>2, <1>3 DEF a

(* Sending a victim counts it. *)
LEMMA MigSendSets ==
  ASSUME SchedTypeOK, NEW c \in CPU, MigMove(c) \/ MigKeep(c)
  PROVE  mig'[c] \in MigLocals /\ mig'[c].send = mig[c].send - 1 /\ mig'[c].i = mig[c].i
<1>1. mig[c] \in MigLocals /\ mig[c].send \in Nat /\ mig[c].send > 0
  BY MigFields DEF MigMove, MigKeep, Room
<1> DEFINE a == mig[c].send - 1
<1>2. a \in Nat
  BY <1>1
<1>3. mig'[c] = [mig[c] EXCEPT !.send = a]
  BY Zenon DEF SchedTypeOK, MigMove, MigKeep, Local
<1> HIDE DEF a
<1>4. \A m \in MigLocals : \A x \in Nat :
        LET r == [m EXCEPT !.send = x] IN r \in MigLocals /\ r.send = x /\ r.i = m.i
  BY DEF MigLocals
<1>5. mig'[c] \in MigLocals /\ mig'[c].send = a /\ mig'[c].i = mig[c].i
  BY <1>1, <1>2, <1>3, <1>4
<1> QED
  BY <1>5 DEF a

(* thread_make_runnable moves a thread from the private list to a run queue. *)
LEMMA ReadyPostMoves ==
  ASSUME SchedTypeOK, Control, InOnePlace, NEW c \in CPU, ReadyPost(c)
  PROVE  /\ InOnePlace'
         /\ list[c] # << >> /\ Head(list[c]) \in Thread /\ Head(list[c]) \in Range(list[c])
         /\ list'[c] \in Seq(Thread) /\ Range(list'[c]) = Range(list[c]) \ {Head(list[c])}
         /\ runq'[dest[c]] \in Seq(Thread) /\ Range(runq'[dest[c]]) = Range(runq[dest[c]]) \cup {Head(list[c])}
         /\ Len(list'[c]) = Len(list[c]) - 1 /\ Len(runq'[dest[c]]) = Len(runq[dest[c]]) + 1
<1>0. PICK e \in CPU : e = dest[c]
  BY DEF SchedTypeOK
<1> DEFINE p == <<"list", c>>
           q == <<"runq", e>>
<1>1. list[c] # << >>
  BY DEF Control, ControlOf, ReadyPost, Goto
<1>2. /\ Range(list[c]) \cap Range(runq[e]) = {}
      /\ list[c] \in Seq(Thread) /\ runq[e] \in Seq(Thread)
      /\ IsInjective(list[c]) /\ IsInjective(runq[e])
  BY Zenon, Lists, ListsApart
<1> DEFINE a == Tail(list[c])
           b == Append(runq[e], Head(list[c]))
<1>3. /\ Head(list[c]) \in Range(list[c]) /\ Head(list[c]) \notin Range(runq[e]) /\ Head(list[c]) \in Thread
      /\ a \in Seq(Thread) /\ IsInjective(a) /\ Range(a) = Range(list[c]) \ {Head(list[c])}
      /\ b \in Seq(Thread) /\ IsInjective(b) /\ Range(b) = Range(runq[e]) \cup {Head(list[c])}
      /\ Len(a) = Len(list[c]) - 1 /\ Len(b) = Len(runq[e]) + 1
  BY <1>1, <1>2, TransferElements
<1>4. list'[c] = a /\ runq'[e] = b
  BY <1>0 DEF SchedTypeOK, ReadyPost
<1> HIDE DEF a, b
<1>7. p \in Place /\ q \in Place /\ p # q
  BY Zenon, Places
<1>8. \A r \in Place : r \notin {p, q} => At(r)' = At(r)
  <2>1. UNCHANGED <<zombies, isidle, curthread, wchan>>
    BY DEF ReadyPost, Goto, queues, chans
  <2>2. /\ \A d \in CPU : d # e => runq'[d] = runq[d]
        /\ \A d \in CPU : d # c => list'[d] = list[d]
    BY <1>0 DEF SchedTypeOK, ReadyPost, Goto
  <2> QED
    BY Zenon, <2>1, <2>2, Elsewhere
<1>9. /\ IsInjective(At(p)') /\ IsInjective(At(q)')
      /\ Range(At(p)') \cup Range(At(q)') = Range(At(p)) \cup Range(At(q))
      /\ Range(At(p)') \cap Range(At(q)') = {}
  BY <1>2, <1>3, <1>4, AtIs, AtIsNext
<1>10. t_state' = t_state
  BY DEF ReadyPost, Goto, threads
<1>11. InOnePlace'
  <2> HIDE DEF p, q
  <2> QED
    BY <1>7, <1>8, <1>9, <1>10, Moved
<1> QED
  BY <1>11, <1>0, <1>1, <1>3, <1>4

(* Migration moves a victim to the queue of another processor. *)
LEMMA MigMoveMoves ==
  ASSUME SchedTypeOK, Control, Counted, InOnePlace, NEW c \in CPU, MigMove(c)
  PROVE  /\ InOnePlace'
         /\ list[c] # << >> /\ Head(list[c]) \in Thread /\ Head(list[c]) \in Range(list[c])
         /\ list'[c] \in Seq(Thread) /\ Range(list'[c]) = Range(list[c]) \ {Head(list[c])}
         /\ runq'[mig[c].i] \in Seq(Thread) /\ Range(runq'[mig[c].i]) = Range(runq[mig[c].i]) \cup {Head(list[c])}
         /\ Len(list'[c]) = Len(list[c]) - 1 /\ Len(runq'[mig[c].i]) = Len(runq[mig[c].i]) + 1
<1>0. PICK e \in CPU : e = mig[c].i
  BY MigIndex DEF MigMove
<1> DEFINE p == <<"list", c>>
           q == <<"runq", e>>
<1>1. list[c] # << >>
  <2>1. mig[c].send > 0 /\ mig[c].send <= Len(list[c])
    BY DEF MigMove, Room, Counted
  <2>2. mig[c].send \in Nat
    BY DEF SchedTypeOK, MigLocals
  <2>3. Len(list[c]) # 0
    BY <2>1, <2>2
  <2> QED
    BY <2>3
<1>2. /\ Range(list[c]) \cap Range(runq[e]) = {}
      /\ list[c] \in Seq(Thread) /\ runq[e] \in Seq(Thread)
      /\ IsInjective(list[c]) /\ IsInjective(runq[e])
  BY Zenon, Lists, ListsApart
<1> DEFINE a == Tail(list[c])
           b == Append(runq[e], Head(list[c]))
<1>3. /\ Head(list[c]) \in Range(list[c]) /\ Head(list[c]) \notin Range(runq[e]) /\ Head(list[c]) \in Thread
      /\ a \in Seq(Thread) /\ IsInjective(a) /\ Range(a) = Range(list[c]) \ {Head(list[c])}
      /\ b \in Seq(Thread) /\ IsInjective(b) /\ Range(b) = Range(runq[e]) \cup {Head(list[c])}
      /\ Len(a) = Len(list[c]) - 1 /\ Len(b) = Len(runq[e]) + 1
  BY <1>1, <1>2, TransferElements
<1>4. list'[c] = a /\ runq'[e] = b
  BY Zenon, <1>0 DEF SchedTypeOK, MigMove
<1> HIDE DEF a, b
<1>7. p \in Place /\ q \in Place /\ p # q
  BY Zenon, Places
<1>8. \A r \in Place : r \notin {p, q} => At(r)' = At(r)
  <2>1. UNCHANGED <<zombies, isidle, curthread, wchan>>
    BY DEF MigMove, Local, Room, queues, chans
  <2>2. /\ \A d \in CPU : d # e => runq'[d] = runq[d]
        /\ \A d \in CPU : d # c => list'[d] = list[d]
    BY <1>0 DEF SchedTypeOK, MigMove, Local, Room
  <2> QED
    BY Zenon, <2>1, <2>2, Elsewhere
<1>9. /\ IsInjective(At(p)') /\ IsInjective(At(q)')
      /\ Range(At(p)') \cup Range(At(q)') = Range(At(p)) \cup Range(At(q))
      /\ Range(At(p)') \cap Range(At(q)') = {}
  BY <1>2, <1>3, <1>4, AtIs, AtIsNext
<1>10. t_state' = t_state
  BY DEF MigMove, Local, Room, threads
<1>11. InOnePlace'
  <2> HIDE DEF p, q
  <2> QED
    BY <1>7, <1>8, <1>9, <1>10, Moved
<1> QED
  BY <1>11, <1>0, <1>1, <1>3, <1>4

(* thread_switch moves the current thread to the end of the run queue, *)
LEMMA SwitchReadyMoves ==
  ASSUME SchedTypeOK, Control, InOnePlace, NEW c \in CPU, SwitchReady(c)
  PROVE  /\ InOnePlace'
         /\ runq'[c] \in Seq(Thread) /\ Range(runq'[c]) = Range(runq[c]) \cup {curthread[c]}
<1> DEFINE p == <<"cpu", c>>
           q == <<"runq", c>>
<1>1. ~isidle[c]
  BY DEF SwitchReady, Leave
<1>2. /\ curthread[c] \notin Range(runq[c]) /\ curthread[c] \in Thread
      /\ runq[c] \in Seq(Thread) /\ IsInjective(runq[c])
  BY <1>1, CurrentApart, Lists
<1> DEFINE b == Append(runq[c], curthread[c])
<1>3. b \in Seq(Thread) /\ IsInjective(b) /\ Range(b) = Range(runq[c]) \cup {curthread[c]}
  BY <1>2, AppendElements
<1>4. runq'[c] = b /\ isidle'[c]
  BY DEF SchedTypeOK, SwitchReady, Leave
<1> HIDE DEF b
<1>5. At(p) = <<curthread[c]>> /\ At(q) = runq[c] /\ At(p)' = << >> /\ At(q)' = b
  BY Zenon, <1>1, <1>4, AtIs, AtIsNext
<1>6. Range(At(p)) = {curthread[c]} /\ Range(At(p)') = {} /\ IsInjective(At(p)')
  BY <1>5, OneElement, EmptyElements
<1>7. p \in Place /\ q \in Place /\ p # q
  BY Zenon, Places
<1>8. \A r \in Place : r \notin {p, q} => At(r)' = At(r)
  <2>1. UNCHANGED <<zombies, list, wchan>>
    BY DEF SwitchReady, Goto, Leave, Lock, Free, queues, chans
  <2>2. /\ \A d \in CPU : d # c => runq'[d] = runq[d]
        /\ \A d \in CPU : d # c => isidle'[d] = isidle[d] /\ curthread'[d] = curthread[d]
    BY DEF SchedTypeOK, SwitchReady, Goto, Leave, Lock, Free
  <2> QED
    BY Zenon, <2>1, <2>2, Elsewhere
<1>9. /\ IsInjective(At(p)') /\ IsInjective(At(q)')
      /\ Range(At(p)') \cup Range(At(q)') = Range(At(p)) \cup Range(At(q))
      /\ Range(At(p)') \cap Range(At(q)') = {}
  BY Zenon, <1>3, <1>5, <1>6
<1>10. \A x \in Thread : t_state'[x] = "none" <=> t_state[x] = "none"
  <2>1. t_state[curthread[c]] # "none"
    BY <1>1, CurrentApart
  <2> QED
    BY <2>1 DEF SchedTypeOK, SwitchReady, Leave
<1>11. InOnePlace'
  <2> HIDE DEF p, q
  <2> QED
    BY <1>7, <1>8, <1>9, <1>10, Moved
<1> QED
  BY <1>11, <1>3, <1>4

(* to the zombies, *)
LEMMA SwitchZombieMoves ==
  ASSUME SchedTypeOK, Control, InOnePlace, NEW c \in CPU, SwitchZombie(c)
  PROVE  /\ InOnePlace'
         /\ zombies'[c] \in Seq(Thread) /\ Range(zombies'[c]) = Range(zombies[c]) \cup {curthread[c]}
<1> DEFINE p == <<"cpu", c>>
           q == <<"zombies", c>>
<1>1. ~isidle[c]
  BY DEF SwitchZombie, Leave
<1>2. /\ curthread[c] \notin Range(zombies[c]) /\ curthread[c] \in Thread
      /\ zombies[c] \in Seq(Thread) /\ IsInjective(zombies[c])
  BY <1>1, CurrentApart, Lists
<1> DEFINE b == Append(zombies[c], curthread[c])
<1>3. b \in Seq(Thread) /\ IsInjective(b) /\ Range(b) = Range(zombies[c]) \cup {curthread[c]}
  BY <1>2, AppendElements
<1>4. zombies'[c] = b /\ isidle'[c]
  BY DEF SchedTypeOK, SwitchZombie, Leave
<1> HIDE DEF b
<1>5. At(p) = <<curthread[c]>> /\ At(q) = zombies[c] /\ At(p)' = << >> /\ At(q)' = b
  BY Zenon, <1>1, <1>4, AtIs, AtIsNext
<1>6. Range(At(p)) = {curthread[c]} /\ Range(At(p)') = {} /\ IsInjective(At(p)')
  BY <1>5, OneElement, EmptyElements
<1>7. p \in Place /\ q \in Place /\ p # q
  BY Zenon, Places
<1>8. \A r \in Place : r \notin {p, q} => At(r)' = At(r)
  <2>1. UNCHANGED <<runq, list, wchan>>
    BY DEF SwitchZombie, Goto, Leave, Lock, Free, queues, chans
  <2>2. /\ \A d \in CPU : d # c => zombies'[d] = zombies[d]
        /\ \A d \in CPU : d # c => isidle'[d] = isidle[d] /\ curthread'[d] = curthread[d]
    BY DEF SchedTypeOK, SwitchZombie, Goto, Leave, Lock, Free
  <2> QED
    BY Zenon, <2>1, <2>2, Elsewhere
<1>9. /\ IsInjective(At(p)') /\ IsInjective(At(q)')
      /\ Range(At(p)') \cup Range(At(q)') = Range(At(p)) \cup Range(At(q))
      /\ Range(At(p)') \cap Range(At(q)') = {}
  BY Zenon, <1>3, <1>5, <1>6
<1>10. \A x \in Thread : t_state'[x] = "none" <=> t_state[x] = "none"
  <2>1. t_state[curthread[c]] # "none"
    BY <1>1, CurrentApart
  <2> QED
    BY <2>1 DEF SchedTypeOK, SwitchZombie, Leave
<1>11. InOnePlace'
  <2> HIDE DEF p, q
  <2> QED
    BY <1>7, <1>8, <1>9, <1>10, Moved
<1> QED
  BY <1>11, <1>3, <1>4

(* or to a wait channel. *)
LEMMA SwitchSleepMoves ==
  ASSUME SchedTypeOK, Control, InOnePlace, NEW c \in CPU, NEW w \in Chan, SwitchSleep(c, w)
  PROVE  /\ InOnePlace'
         /\ wchan'[w] \in Seq(Thread) /\ Range(wchan'[w]) = Range(wchan[w]) \cup {curthread[c]}
<1> DEFINE p == <<"cpu", c>>
           q == <<"wchan", w>>
<1>1. ~isidle[c]
  BY DEF SwitchSleep, Leave
<1>2. /\ curthread[c] \notin Range(wchan[w]) /\ curthread[c] \in Thread
      /\ wchan[w] \in Seq(Thread) /\ IsInjective(wchan[w])
  BY <1>1, CurrentApart, Channels
<1> DEFINE b == Append(wchan[w], curthread[c])
<1>3. b \in Seq(Thread) /\ IsInjective(b) /\ Range(b) = Range(wchan[w]) \cup {curthread[c]}
  BY <1>2, AppendElements
<1>4. wchan'[w] = b /\ isidle'[c]
  BY DEF SchedTypeOK, SwitchSleep, Leave
<1> HIDE DEF b
<1>5. At(p) = <<curthread[c]>> /\ At(q) = wchan[w] /\ At(p)' = << >> /\ At(q)' = b
  BY Zenon, <1>1, <1>4, AtIs, AtIsNext
<1>6. Range(At(p)) = {curthread[c]} /\ Range(At(p)') = {} /\ IsInjective(At(p)')
  BY <1>5, OneElement, EmptyElements
<1>7. p \in Place /\ q \in Place /\ p # q
  BY Zenon, Places
<1>8. \A r \in Place : r \notin {p, q} => At(r)' = At(r)
  <2>1. UNCHANGED <<runq, zombies, list>>
    BY DEF SwitchSleep, Goto, Leave, Lock, Free, queues, chans
  <2>2. /\ \A d \in CPU : d # c => isidle'[d] = isidle[d] /\ curthread'[d] = curthread[d]
        /\ \A v \in Chan : v # w => wchan'[v] = wchan[v]
    BY DEF SchedTypeOK, SwitchSleep, Goto, Leave, Lock, Free
  <2> QED
    BY Zenon, <2>1, <2>2, Elsewhere
<1>9. /\ IsInjective(At(p)') /\ IsInjective(At(q)')
      /\ Range(At(p)') \cup Range(At(q)') = Range(At(p)) \cup Range(At(q))
      /\ Range(At(p)') \cap Range(At(q)') = {}
  BY Zenon, <1>3, <1>5, <1>6
<1>10. \A x \in Thread : t_state'[x] = "none" <=> t_state[x] = "none"
  <2>1. t_state[curthread[c]] # "none"
    BY <1>1, CurrentApart
  <2> QED
    BY <2>1 DEF SchedTypeOK, SwitchSleep, Leave
<1>11. InOnePlace'
  <2> HIDE DEF p, q
  <2> QED
    BY <1>7, <1>8, <1>9, <1>10, Moved
<1> QED
  BY <1>11, <1>3, <1>4

(* thread_switch takes the next thread from the run queue. *)
LEMMA SwitchMoves ==
  ASSUME SchedTypeOK, Control, InOnePlace, NEW c \in CPU, Switch(c)
  PROVE  /\ InOnePlace'
         /\ runq[c] # << >> /\ runq'[c] \in Seq(Thread) /\ Range(runq'[c]) = Range(runq[c]) \ {Head(runq[c])}
         /\ curthread'[c] \in Range(runq[c]) /\ curthread'[c] \in Thread /\ curthread'[c] = Head(runq[c])
<1> DEFINE p == <<"runq", c>>
           q == <<"cpu", c>>
<1>1. isidle[c] /\ runq[c] # << >>
  BY DEF Control, ControlOf, Switch, Goto
<1>2. runq[c] \in Seq(Thread) /\ IsInjective(runq[c])
  BY Lists
<1> DEFINE a == Tail(runq[c])
           h == Head(runq[c])
<1>3. h \in Range(runq[c]) /\ h \in Thread /\ a \in Seq(Thread) /\ IsInjective(a) /\ Range(a) = Range(runq[c]) \ {h}
  BY <1>1, <1>2, TailElements
<1>4. runq'[c] = a /\ ~isidle'[c] /\ curthread'[c] = h
  BY DEF SchedTypeOK, Switch
<1> HIDE DEF a, h
<1>5. At(p) = runq[c] /\ At(q) = << >> /\ At(p)' = a /\ At(q)' = <<h>>
  BY Zenon, <1>1, <1>4, AtIs, AtIsNext
<1>6. Range(At(q)) = {} /\ Range(At(q)') = {h} /\ IsInjective(At(q)')
  BY <1>5, OneElement, EmptyElements
<1>7. p \in Place /\ q \in Place /\ p # q
  BY Zenon, Places
<1>8. \A r \in Place : r \notin {p, q} => At(r)' = At(r)
  <2>1. UNCHANGED <<zombies, list, wchan>>
    BY DEF Switch, Goto, queues, chans
  <2>2. /\ \A d \in CPU : d # c => runq'[d] = runq[d]
        /\ \A d \in CPU : d # c => isidle'[d] = isidle[d] /\ curthread'[d] = curthread[d]
    BY DEF SchedTypeOK, Switch, Goto
  <2> QED
    BY Zenon, <2>1, <2>2, Elsewhere
<1>9. /\ IsInjective(At(p)') /\ IsInjective(At(q)')
      /\ Range(At(p)') \cup Range(At(q)') = Range(At(p)) \cup Range(At(q))
      /\ Range(At(p)') \cap Range(At(q)') = {}
  BY Zenon, <1>3, <1>5, <1>6
<1>10. t_state' = t_state
  BY DEF Switch, Goto, threads
<1>11. InOnePlace'
  <2> HIDE DEF p, q
  <2> QED
    BY <1>7, <1>8, <1>9, <1>10, Moved
<1> QED
  BY <1>11, <1>1, <1>3, <1>4 DEF h

(* wchan_wakeone moves a sleeper to a private list, *)
LEMMA WakeOneMoves ==
  ASSUME SchedTypeOK, Control, InOnePlace, NEW c \in CPU, NEW w \in Chan, WakeOne(c, w)
  PROVE  /\ InOnePlace'
         /\ wchan'[w] \in Seq(Thread) /\ list'[c] \in Seq(Thread)
<1> DEFINE p == <<"wchan", w>>
           q == <<"list", c>>
<1>1. wchan[w] \in Seq(Thread) /\ IsInjective(wchan[w]) /\ list[c] = << >>
  BY Channels DEF Control, ControlOf, ListLabels, WakeOne, TakeOff, Enter
<1>2. PICK n \in 0..Len(wchan[w]) : n = 1
  BY <1>1 DEF WakeOne
<1> DEFINE a == SubSeq(wchan[w], n + 1, Len(wchan[w]))
           b == SubSeq(wchan[w], 1, n)
<1>3. /\ a \in Seq(Thread) /\ IsInjective(a) /\ b \in Seq(Thread) /\ IsInjective(b)
      /\ Range(a) \cup Range(b) = Range(wchan[w]) /\ Range(a) \cap Range(b) = {}
  BY <1>1, SplitElements
<1>4. wchan'[w] = a /\ list'[c] = b
  BY <1>2 DEF SchedTypeOK, WakeOne, TakeOff
<1> HIDE DEF a, b
<1>5. At(p) = wchan[w] /\ At(q) = << >> /\ At(p)' = a /\ At(q)' = b
  BY <1>1, <1>4, AtIs, AtIsNext
<1>6. Range(At(q)) = {}
  BY <1>5, EmptyElements
<1>7. p \in Place /\ q \in Place /\ p # q
  BY Zenon, Places
<1>8. \A r \in Place : r \notin {p, q} => At(r)' = At(r)
  <2>1. UNCHANGED <<runq, zombies, isidle, curthread>>
    BY DEF WakeOne, TakeOff, Enter, queues, chans
  <2>2. /\ \A d \in CPU : d # c => list'[d] = list[d]
        /\ \A v \in Chan : v # w => wchan'[v] = wchan[v]
    BY DEF SchedTypeOK, WakeOne, TakeOff, Enter
  <2> QED
    BY Zenon, <2>1, <2>2, Elsewhere
<1>9. /\ IsInjective(At(p)') /\ IsInjective(At(q)')
      /\ Range(At(p)') \cup Range(At(q)') = Range(At(p)) \cup Range(At(q))
      /\ Range(At(p)') \cap Range(At(q)') = {}
  BY Zenon, <1>3, <1>5, <1>6
<1>10. t_state' = t_state
  BY DEF WakeOne, TakeOff, Enter, threads
<1>11. InOnePlace'
  <2> HIDE DEF p, q
  <2> QED
    BY <1>7, <1>8, <1>9, <1>10, Moved
<1> QED
  BY <1>11, <1>3, <1>4

(* and wchan_wakeall all of them. *)
LEMMA WakeAllMoves ==
  ASSUME SchedTypeOK, Control, InOnePlace, NEW c \in CPU, NEW w \in Chan, WakeAll(c, w)
  PROVE  /\ InOnePlace'
         /\ wchan'[w] \in Seq(Thread) /\ list'[c] \in Seq(Thread)
<1> DEFINE p == <<"wchan", w>>
           q == <<"list", c>>
<1>1. wchan[w] \in Seq(Thread) /\ IsInjective(wchan[w]) /\ list[c] = << >>
  BY Channels DEF Control, ControlOf, ListLabels, WakeAll, TakeOff, Enter
<1>2. PICK n \in 0..Len(wchan[w]) : n = Len(wchan[w])
  BY <1>1 DEF WakeAll
<1> DEFINE a == SubSeq(wchan[w], n + 1, Len(wchan[w]))
           b == SubSeq(wchan[w], 1, n)
<1>3. /\ a \in Seq(Thread) /\ IsInjective(a) /\ b \in Seq(Thread) /\ IsInjective(b)
      /\ Range(a) \cup Range(b) = Range(wchan[w]) /\ Range(a) \cap Range(b) = {}
  BY <1>1, SplitElements
<1>4. wchan'[w] = a /\ list'[c] = b
  BY <1>2 DEF SchedTypeOK, WakeAll, TakeOff
<1> HIDE DEF a, b
<1>5. At(p) = wchan[w] /\ At(q) = << >> /\ At(p)' = a /\ At(q)' = b
  BY <1>1, <1>4, AtIs, AtIsNext
<1>6. Range(At(q)) = {}
  BY <1>5, EmptyElements
<1>7. p \in Place /\ q \in Place /\ p # q
  BY Zenon, Places
<1>8. \A r \in Place : r \notin {p, q} => At(r)' = At(r)
  <2>1. UNCHANGED <<runq, zombies, isidle, curthread>>
    BY DEF WakeAll, TakeOff, Enter, queues, chans
  <2>2. /\ \A d \in CPU : d # c => list'[d] = list[d]
        /\ \A v \in Chan : v # w => wchan'[v] = wchan[v]
    BY DEF SchedTypeOK, WakeAll, TakeOff, Enter
  <2> QED
    BY Zenon, <2>1, <2>2, Elsewhere
<1>9. /\ IsInjective(At(p)') /\ IsInjective(At(q)')
      /\ Range(At(p)') \cup Range(At(q)') = Range(At(p)) \cup Range(At(q))
      /\ Range(At(p)') \cap Range(At(q)') = {}
  BY Zenon, <1>3, <1>5, <1>6
<1>10. t_state' = t_state
  BY DEF WakeAll, TakeOff, Enter, threads
<1>11. InOnePlace'
  <2> HIDE DEF p, q
  <2> QED
    BY <1>7, <1>8, <1>9, <1>10, Moved
<1> QED
  BY <1>11, <1>3, <1>4

(* Migration moves the end of the run queue to the private list, *)
LEMMA MigTakeMoves ==
  ASSUME SchedTypeOK, Control, Counted, InOnePlace, NEW c \in CPU, MigTake(c)
  PROVE  /\ InOnePlace'
         /\ runq'[c] \in Seq(Thread) /\ list'[c] \in Seq(Thread)
         /\ Range(runq'[c]) \subseteq Range(runq[c]) /\ Range(list'[c]) \subseteq Range(runq[c])
         /\ Len(list'[c]) = mig[c].my - OneShare(c)
<1> DEFINE p == <<"runq", c>>
           q == <<"list", c>>
<1>1. runq[c] \in Seq(Thread) /\ IsInjective(runq[c]) /\ list[c] = << >>
  BY Lists DEF Control, ControlOf, ListLabels, MigTake, Goto
<1>2. PICK n \in 0..Len(runq[c]) : n = Len(runq[c]) - (mig[c].my - OneShare(c))
  <2>1. mig[c].my <= Len(runq[c]) /\ mig[c].my >= OneShare(c)
    BY DEF MigTake, Goto, Counted
  <2>2. mig[c].my \in Nat /\ OneShare(c) \in Nat /\ Len(runq[c]) \in Nat
    BY <1>1, MigFields, ShareIsNat
  <2>3. Len(runq[c]) - (mig[c].my - OneShare(c)) \in 0..Len(runq[c])
    BY <2>1, <2>2
  <2> QED
    BY <2>3
<1> DEFINE a == SubSeq(runq[c], 1, n)
           b == SubSeq(runq[c], n + 1, Len(runq[c]))
<1>3. /\ a \in Seq(Thread) /\ IsInjective(a) /\ b \in Seq(Thread) /\ IsInjective(b)
      /\ Range(a) \cup Range(b) = Range(runq[c]) /\ Range(a) \cap Range(b) = {}
      /\ Len(b) = Len(runq[c]) - n
  BY <1>1, SplitElements
<1>4. runq'[c] = a /\ list'[c] = b
  BY Zenon, <1>2 DEF SchedTypeOK, MigTake
<1> HIDE DEF a, b
<1>5. At(p) = runq[c] /\ At(q) = << >> /\ At(p)' = a /\ At(q)' = b
  BY <1>1, <1>4, AtIs, AtIsNext
<1>6. Range(At(q)) = {}
  BY <1>5, EmptyElements
<1>12. Len(list'[c]) = mig[c].my - OneShare(c)
  <2>1. mig[c].my \in Nat /\ OneShare(c) \in Nat /\ Len(runq[c]) \in Nat
    BY <1>1, MigFields, ShareIsNat
  <2> QED
    BY <1>2, <1>3, <1>4, <2>1
<1>7. p \in Place /\ q \in Place /\ p # q
  BY Zenon, Places
<1>8. \A r \in Place : r \notin {p, q} => At(r)' = At(r)
  <2>1. UNCHANGED <<zombies, isidle, curthread, wchan>>
    BY DEF MigTake, Goto, Local, queues, chans
  <2>2. /\ \A d \in CPU : d # c => runq'[d] = runq[d]
        /\ \A d \in CPU : d # c => list'[d] = list[d]
    BY DEF SchedTypeOK, MigTake, Goto, Local
  <2> QED
    BY Zenon, <2>1, <2>2, Elsewhere
<1>9. /\ IsInjective(At(p)') /\ IsInjective(At(q)')
      /\ Range(At(p)') \cup Range(At(q)') = Range(At(p)) \cup Range(At(q))
      /\ Range(At(p)') \cap Range(At(q)') = {}
  BY Zenon, <1>3, <1>5, <1>6
<1>10. t_state' = t_state
  BY DEF MigTake, Goto, Local, threads
<1>11. InOnePlace'
  <2> HIDE DEF p, q
  <2> QED
    BY <1>7, <1>8, <1>9, <1>10, Moved
<1> QED
  BY <1>11, <1>3, <1>4, <1>12

(* and what is left of it back to the run queue. *)
LEMMA MigFinishMoves ==
  ASSUME SchedTypeOK, Control, InOnePlace, NEW c \in CPU, MigFinish(c)
  PROVE  /\ InOnePlace'
         /\ runq'[c] \in Seq(Thread) /\ Range(runq'[c]) = Range(runq[c]) \cup Range(list[c])
<1> DEFINE p == <<"list", c>>
           q == <<"runq", c>>
<1>1. /\ runq[c] \in Seq(Thread) /\ IsInjective(runq[c]) /\ list[c] \in Seq(Thread) /\ IsInjective(list[c])
      /\ Range(runq[c]) \cap Range(list[c]) = {}
  BY Zenon, Lists, ListsApart
<1> DEFINE b == runq[c] \o list[c]
<1>3. b \in Seq(Thread) /\ IsInjective(b) /\ Range(b) = Range(runq[c]) \cup Range(list[c])
  BY <1>1, ConcatElements
<1>4. runq'[c] = b /\ list'[c] = << >>
  BY DEF SchedTypeOK, MigFinish
<1> HIDE DEF b
<1>5. At(p) = list[c] /\ At(q) = runq[c] /\ At(p)' = << >> /\ At(q)' = b
  BY <1>4, AtIs, AtIsNext
<1>6. Range(At(p)') = {} /\ IsInjective(At(p)')
  BY <1>5, EmptyElements
<1>7. p \in Place /\ q \in Place /\ p # q
  BY Zenon, Places
<1>8. \A r \in Place : r \notin {p, q} => At(r)' = At(r)
  <2>1. UNCHANGED <<zombies, isidle, curthread, wchan>>
    BY DEF MigFinish, Goto, Local, Sending, queues, chans
  <2>2. /\ \A d \in CPU : d # c => runq'[d] = runq[d]
        /\ \A d \in CPU : d # c => list'[d] = list[d]
    BY DEF SchedTypeOK, MigFinish, Goto, Local, Sending
  <2> QED
    BY Zenon, <2>1, <2>2, Elsewhere
<1>9. /\ IsInjective(At(p)') /\ IsInjective(At(q)')
      /\ Range(At(p)') \cup Range(At(q)') = Range(At(p)) \cup Range(At(q))
      /\ Range(At(p)') \cap Range(At(q)') = {}
  BY <1>3, <1>5, <1>6
<1>10. t_state' = t_state
  BY DEF MigFinish, Goto, Local, Sending, threads
<1>11. InOnePlace'
  <2> HIDE DEF p, q
  <2> QED
    BY <1>7, <1>8, <1>9, <1>10, Moved
<1> QED
  BY <1>11, <1>3, <1>4

(* A victim passed over stays on the list. *)
LEMMA MigKeepMoves ==
  ASSUME SchedTypeOK, Control, Counted, InOnePlace, NEW c \in CPU, MigKeep(c)
  PROVE  /\ InOnePlace'
         /\ list'[c] \in Seq(Thread) /\ Range(list'[c]) = Range(list[c]) /\ Len(list'[c]) = Len(list[c])
<1> DEFINE p == <<"list", c>>
           q == <<"runq", c>>
<1>1. list[c] # << >>
  <2>1. mig[c].send > 0 /\ mig[c].send <= Len(list[c])
    BY DEF MigKeep, Room, Counted
  <2>2. mig[c].send \in Nat
    BY MigFields
  <2>3. Len(list[c]) # 0
    BY <2>1, <2>2
  <2> QED
    BY <2>3
<1>2. /\ runq[c] \in Seq(Thread) /\ IsInjective(runq[c]) /\ list[c] \in Seq(Thread) /\ IsInjective(list[c])
      /\ Range(list[c]) \cap Range(runq[c]) = {}
  BY Zenon, Lists, ListsApart
<1> DEFINE b == Append(Tail(list[c]), Head(list[c]))
<1>3. b \in Seq(Thread) /\ IsInjective(b) /\ Range(b) = Range(list[c]) /\ Len(b) = Len(list[c])
  BY <1>1, <1>2, RotateElements
<1>4. list'[c] = b /\ runq' = runq
  BY Zenon DEF SchedTypeOK, MigKeep, queues
<1> HIDE DEF b
<1>5. At(p) = list[c] /\ At(q) = runq[c] /\ At(p)' = b /\ At(q)' = runq[c]
  BY <1>4, AtIs, AtIsNext
<1>7. p \in Place /\ q \in Place /\ p # q
  BY Zenon, Places
<1>8. \A r \in Place : r \notin {p, q} => At(r)' = At(r)
  <2>1. UNCHANGED <<zombies, isidle, curthread, wchan>>
    BY DEF MigKeep, Local, Room, queues, chans
  <2>2. /\ \A d \in CPU : d # c => runq'[d] = runq[d]
        /\ \A d \in CPU : d # c => list'[d] = list[d]
    BY DEF SchedTypeOK, MigKeep, Local, Room, queues
  <2> QED
    BY Zenon, <2>1, <2>2, Elsewhere
<1>9. /\ IsInjective(At(p)') /\ IsInjective(At(q)')
      /\ Range(At(p)') \cup Range(At(q)') = Range(At(p)) \cup Range(At(q))
      /\ Range(At(p)') \cap Range(At(q)') = {}
  BY Zenon, <1>2, <1>3, <1>5
<1>10. t_state' = t_state
  BY DEF MigKeep, Local, Room, threads
<1>11. InOnePlace'
  <2> HIDE DEF p, q
  <2> QED
    BY <1>7, <1>8, <1>9, <1>10, Moved
<1> QED
  BY <1>11, <1>3, <1>4

(* exorcise frees the zombies of a processor. *)
LEMMA ExorciseMoves ==
  ASSUME SchedTypeOK, InOnePlace, NEW c \in CPU, Exorcise(c)
  PROVE  InOnePlace'
<1> DEFINE p == <<"zombies", c>>
           Z == Range(zombies[c])
<1>0. Apart
  BY ApartIs
<1>1. p \in Place /\ At(p) = zombies[c] /\ At(p)' = << >>
  <2>1. zombies'[c] = << >>
    BY DEF SchedTypeOK, Exorcise
  <2> QED
    BY Zenon, <2>1, Places, AtIs, AtIsNext
<1>2. Range(At(p)) = Z /\ Range(At(p)') = {} /\ IsInjective(At(p)')
  BY <1>1, EmptyElements
<1>3. \A r \in Place : r \notin {p} => At(r)' = At(r)
  <2>1. \A d \in CPU : d # c => zombies'[d] = zombies[d]
    BY DEF SchedTypeOK, Exorcise
  <2>2. UNCHANGED <<isidle, curthread, runq, list, wchan>>
    BY DEF Exorcise, chans
  <2> QED
    BY Zenon, <2>1, <2>2, Elsewhere
<1>4. /\ \A t \in Thread : t \in Z => t_state'[t] = "none"
      /\ \A t \in Thread : t \notin Z => t_state'[t] = t_state[t]
  BY DEF Exorcise
<1> HIDE DEF p, Z
<1>5. \A r \in Place : IsInjective(At(r)')
  BY <1>0, <1>2, <1>3 DEF Apart
<1>6. ASSUME NEW t \in Thread, NEW r \in Place, t \in Range(At(r)')
      PROVE  r # p /\ t \in Range(At(r)) /\ t \notin Z
  BY <1>0, <1>1, <1>2, <1>3, <1>6 DEF Apart
<1>7. ASSUME NEW t \in Thread, NEW r \in Place, NEW s \in Place, t \in Range(At(r)'), t \in Range(At(s)')
      PROVE  r = s
  BY <1>0, <1>6, <1>7 DEF Apart
<1>8. ASSUME NEW t \in Thread, NEW r \in Place, t \in Range(At(r)') PROVE t_state'[t] # "none"
  BY <1>0, <1>4, <1>6, <1>8 DEF Apart
<1>9. ASSUME NEW t \in Thread, t_state'[t] # "none" PROVE \E r \in Place : t \in Range(At(r)')
  <2>1. t \notin Z /\ t_state[t] # "none"
    BY <1>4, <1>9
  <2>2. PICK r \in Place : t \in Range(At(r))
    BY <1>0, <2>1 DEF Apart
  <2>3. r # p
    BY <1>2, <2>1, <2>2
  <2> QED
    BY <1>3, <2>2, <2>3
<1>10. Apart'
  BY <1>5, <1>7, <1>8, <1>9 DEF Apart
<1> QED
  BY <1>10, ApartIsNext

(* thread_fork puts a free structure on the private list. *)
LEMMA ForkMoves ==
  ASSUME SchedTypeOK, Control, InOnePlace, NEW c \in CPU, NEW t \in Thread, Fork(c, t)
  PROVE  InOnePlace' /\ list[c] = << >> /\ list'[c] = <<t>>
<1> DEFINE p == <<"list", c>>
<1>0. Apart
  BY ApartIs
<1>1. list[c] = << >> /\ list'[c] = <<t>>
  BY Zenon DEF SchedTypeOK, Control, ControlOf, ListLabels, Fork, Goto
<1>2. /\ p \in Place /\ At(p) = << >> /\ At(p)' = <<t>>
  BY Zenon, <1>1, Places, AtIs, AtIsNext
<1>3. Range(At(p)) = {} /\ Range(At(p)') = {t} /\ IsInjective(At(p)')
  BY <1>2, OneElement, EmptyElements
<1>4. \A r \in Place : r \notin {p} => At(r)' = At(r)
  <2>1. \A d \in CPU : d # c => list'[d] = list[d]
    BY DEF SchedTypeOK, Fork
  <2>2. UNCHANGED <<isidle, curthread, runq, zombies, wchan>>
    BY DEF Fork, queues, chans
  <2> QED
    BY Zenon, <2>1, <2>2, Elsewhere
<1>5. /\ t_state[t] = "none" /\ t_state'[t] # "none"
      /\ \A u \in Thread : u # t => t_state'[u] = t_state[u]
  BY DEF SchedTypeOK, Fork
<1> HIDE DEF p
<1>6. \A r \in Place : t \notin Range(At(r))
  BY <1>0, <1>5 DEF Apart
<1>7. \A r \in Place : IsInjective(At(r)')
  BY <1>0, <1>3, <1>4 DEF Apart
<1>8. ASSUME NEW u \in Thread, NEW r \in Place, NEW s \in Place, u \in Range(At(r)'), u \in Range(At(s)')
      PROVE  r = s
  BY <1>0, <1>3, <1>4, <1>6, <1>8 DEF Apart
<1>9. ASSUME NEW u \in Thread, NEW r \in Place, u \in Range(At(r)') PROVE t_state'[u] # "none"
  BY <1>0, <1>3, <1>4, <1>5, <1>9 DEF Apart
<1>10. ASSUME NEW u \in Thread, t_state'[u] # "none" PROVE \E r \in Place : u \in Range(At(r)')
  <2>1. CASE u = t
    BY <1>2, <1>3, <2>1
  <2>2. CASE u # t
    <3>1. PICK r \in Place : u \in Range(At(r))
      BY <1>0, <1>5, <1>10, <2>2 DEF Apart
    <3> QED
      BY <1>3, <1>4, <3>1
  <2> QED
    BY <2>1, <2>2
<1>11. Apart'
  BY <1>7, <1>8, <1>9, <1>10 DEF Apart
<1> QED
  BY <1>1, <1>11, ApartIsNext

(* A step that moves no thread. *)
LEMMA StayedInPlace ==
  ASSUME InOnePlace, UNCHANGED <<isidle, curthread, runq, zombies, list, wchan>>,
         \A t \in Thread : t_state'[t] = "none" <=> t_state[t] = "none"
  PROVE  InOnePlace'
<1> DEFINE X == {}
<1>0. \A r \in Place : r \notin X => At(r)' = At(r)
  <2> HIDE DEF X
  <2> QED
    BY Elsewhere
<1>1. \A r \in Place : At(r)' = At(r)
  BY <1>0
<1>2. Apart
  BY ApartIs
<1>3. Apart'
  BY <1>1, <1>2 DEF Apart
<1> QED
  BY <1>3, ApartIsNext

-----------------------------------------------------------------------------
(* The steps that move no thread: they change where their processor is,    *)
(* what it has locked, its local variables and its interrupt line.         *)
Plain(c) ==
  \/ YieldCall(c) \/ YieldIdle(c) \/ YieldNothing(c) \/ ExitCall(c) \/ GoIdle(c) \/ Relock(c)
  \/ ReadyTarget(c) \/ ReadyReturn(c) \/ TakeIpi(c) \/ ClearIpi(c) \/ Hardclock(c)
  \/ MigCount(c) \/ MigNotBusy(c) \/ MigSkipSelf(c) \/ MigLock(c) \/ MigUnlock(c)
  \/ \E w \in Chan : SleepCall(c, w)

(* A plain step moves no thread. *)
LEMMA PlainStays ==
  ASSUME NEW c \in CPU, Plain(c)
  PROVE  UNCHANGED <<isidle, curthread, runq, zombies, list, tcpu, t_state, wchan>>
<1> USE DEF queues, threads, chans
<1>1. CASE YieldCall(c)
  BY <1>1 DEF YieldCall
<1>2. CASE YieldIdle(c)
  BY <1>2 DEF YieldIdle
<1>3. CASE YieldNothing(c)
  BY <1>3 DEF YieldNothing
<1>4. CASE ExitCall(c)
  BY <1>4 DEF ExitCall
<1>5. CASE GoIdle(c)
  BY <1>5 DEF GoIdle
<1>6. CASE Relock(c)
  BY <1>6 DEF Relock
<1>7. CASE ReadyTarget(c)
  BY <1>7 DEF ReadyTarget
<1>8. CASE ReadyReturn(c)
  BY <1>8 DEF ReadyReturn
<1>9. CASE TakeIpi(c)
  BY <1>9 DEF TakeIpi
<1>10. CASE ClearIpi(c)
  BY <1>10 DEF ClearIpi
<1>11. CASE Hardclock(c)
  BY <1>11 DEF Hardclock
<1>12. CASE MigCount(c)
  BY <1>12 DEF MigCount
<1>13. CASE MigNotBusy(c)
  BY <1>13 DEF MigNotBusy
<1>14. CASE MigSkipSelf(c)
  BY <1>14 DEF MigSkipSelf
<1>15. CASE MigLock(c)
  BY <1>15 DEF MigLock
<1>16. CASE MigUnlock(c)
  BY <1>16 DEF MigUnlock
<1>17. CASE \E w \in Chan : SleepCall(c, w)
  BY <1>17 DEF SleepCall
<1> QED
  BY Zenon, <1>1, <1>2, <1>3, <1>4, <1>5, <1>6, <1>7, <1>8, <1>9,
     <1>10, <1>11, <1>12, <1>13, <1>14, <1>15, <1>16, <1>17 DEF Plain

(* The cases of a step. *)
LEMMA Cases ==
  ASSUME [Next]_vars
  PROVE  \/ UNCHANGED vars
         \/ \E c \in CPU :
              \/ Plain(c)
              \/ SwitchReady(c) \/ SwitchZombie(c) \/ \E w \in Chan : SwitchSleep(c, w)
              \/ Switch(c) \/ SwitchTail(c) \/ Exorcise(c) \/ \E t \in Thread : Fork(c, t)
              \/ \E w \in Chan : WakeOne(c, w) \/ WakeAll(c, w)
              \/ ReadyPost(c) \/ MigTake(c) \/ MigMove(c) \/ MigKeep(c) \/ MigFinish(c)
  BY DEF Next, Continue, Start, Plain

(* Every step keeps every thread in one place. *)
LEMMA PlacedStep ==
  ASSUME SchedTypeOK, Control, Counted, InOnePlace, [Next]_vars
  PROVE  InOnePlace'
<1>1. ASSUME NEW c \in CPU, Plain(c) PROVE InOnePlace'
  BY <1>1, PlainStays, StayedInPlace
<1>2. ASSUME NEW c \in CPU, SwitchReady(c) PROVE InOnePlace'
  BY <1>2, SwitchReadyMoves
<1>3. ASSUME NEW c \in CPU, SwitchZombie(c) PROVE InOnePlace'
  BY <1>3, SwitchZombieMoves
<1>4. ASSUME NEW c \in CPU, NEW w \in Chan, SwitchSleep(c, w) PROVE InOnePlace'
  BY <1>4, SwitchSleepMoves
<1>5. ASSUME NEW c \in CPU, Switch(c) PROVE InOnePlace'
  BY <1>5, SwitchMoves
<1>6. ASSUME NEW c \in CPU, SwitchTail(c) PROVE InOnePlace'
  <2>1. t_state[curthread[c]] # "none"
    BY Zenon, <1>6, CurrentApart DEF Control, ControlOf, SwitchTail, Goto
  <2>2. \A t \in Thread : t_state'[t] = "none" <=> t_state[t] = "none"
    BY <1>6, <2>1 DEF SchedTypeOK, SwitchTail
  <2>3. UNCHANGED <<isidle, curthread, runq, zombies, list, wchan>>
    BY <1>6 DEF SwitchTail, chans
  <2> QED
    BY <2>2, <2>3, StayedInPlace
<1>7. ASSUME NEW c \in CPU, Exorcise(c) PROVE InOnePlace'
  BY <1>7, ExorciseMoves
<1>8. ASSUME NEW c \in CPU, NEW t \in Thread, Fork(c, t) PROVE InOnePlace'
  BY <1>8, ForkMoves
<1>9. ASSUME NEW c \in CPU, NEW w \in Chan, WakeOne(c, w) PROVE InOnePlace'
  BY <1>9, WakeOneMoves
<1>10. ASSUME NEW c \in CPU, NEW w \in Chan, WakeAll(c, w) PROVE InOnePlace'
  BY <1>10, WakeAllMoves
<1>11. ASSUME NEW c \in CPU, ReadyPost(c) PROVE InOnePlace'
  BY <1>11, ReadyPostMoves
<1>12. ASSUME NEW c \in CPU, MigTake(c) PROVE InOnePlace'
  BY <1>12, MigTakeMoves
<1>13. ASSUME NEW c \in CPU, MigMove(c) PROVE InOnePlace'
  BY <1>13, MigMoveMoves
<1>14. ASSUME NEW c \in CPU, MigKeep(c) PROVE InOnePlace'
  BY <1>14, MigKeepMoves
<1>15. ASSUME NEW c \in CPU, MigFinish(c) PROVE InOnePlace'
  BY <1>15, MigFinishMoves
<1>16. CASE UNCHANGED vars
  BY <1>16, StayedInPlace DEF vars, queues, threads, chans
<1> QED
  BY <1>1, <1>2, <1>3, <1>4, <1>5, <1>6, <1>7, <1>8, <1>9, <1>10, <1>11, <1>12, <1>13, <1>14, <1>15, <1>16,
     Cases

=============================================================================
