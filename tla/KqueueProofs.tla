----------------------------- MODULE KqueueProofs -----------------------------
(***************************************************************************)
(* Proofs about the kqueue visor, for every number of cords, set of        *)
(* descriptors and capacity of the list: the list, the knotes and the      *)
(* blocked cords agree, and a cord that comes back from fdwait finds its   *)
(* input still there, whoever else waited for the same descriptor.         *)
(***************************************************************************)
EXTENDS Kqueue, BraidProofs

Kev == [udata : Cords, ident : Idents]

KTypeOK ==
  /\ visor \in Cords \cup {NULL}
  /\ vpc \in {"start", "top", "waiting"}
  /\ owner \in Cords
  /\ kevs \in Seq(Kev)
  /\ cap \in Nat
  /\ home \in Cords \cup {NULL}
  /\ isBlocked \in BOOLEAN
  /\ failed \in BOOLEAN
  /\ knote \in [Idents -> Cords \cup {NULL}]
  /\ ready \subseteq Fds
  /\ elapsed \subseteq Cords
  /\ toRead \in [Cords -> Fds \cup {NULL}]

Dead == zombies \cup freed

(* The visor is there when braidstart is called, and does not die before   *)
(* braidstart cleans up.                                                   *)
VisorLives ==
  /\ visor # NULL => visor \in 0 .. count - 1
  /\ phase \in {"running", "returning"} => visor # NULL
  /\ phase # "done" => visor \notin Dead

(* ctx->cord is the visor's as soon as it has run, 0 before.               *)
OwnerKnown ==
  /\ vpc = "start" => owner = 0 /\ ~isBlocked
  /\ vpc # "start" => owner = visor /\ visor # NULL

(* Before braidstart nobody waits.                                         *)
IdleAtFirst ==
  phase = "init" =>
    /\ kevs = << >> /\ blocked = {} /\ home = NULL /\ ~failed
    /\ \A i \in Idents : knote[i] = NULL

(* A visor that was added first has the list in its own arena.             *)
HomeInVisor == visor = 0 => ~failed /\ home \in {visor, NULL}

(* Only a timer that is registered expires.                                *)
ElapsedKnown == \A c \in elapsed : knote[c] # NULL

ListInv ==
  /\ BraidInv
  /\ KTypeOK
  /\ VisorLives
  /\ OwnerKnown
  /\ IdleAtFirst
  /\ HomeInVisor
  /\ ElapsedKnown
  /\ KnotesListed

(* The cords that have come back from fdwait and not read yet.             *)
Pending == {c \in Cords : toRead[c] # NULL}
Live == Running \cup ToSet(runable)

(* In a run queue q the cords of P are ahead of cord v.                    *)
Ahead(q, P, v) ==
  \A i \in DOMAIN q : q[i] \in P => \E j \in DOMAIN q : q[j] = v /\ i < j

(* They read before the visor runs again: it is behind them in the run     *)
(* queue.                                                                  *)
ReadersAhead ==
  /\ Pending \subseteq (0 .. count - 1) \ {visor}
  /\ Pending \cap blocked = {}
  /\ Pending \cap Running # {} => visor \in ToSet(runable)
  /\ Ahead(runable, Pending, visor)

(* No two of them read the same descriptor.                                *)
ReadersApart == \A c, d \in Pending \cap Live : toRead[c] = toRead[d] => c = d

KInv ==
  /\ ListInv
  /\ ReadFindsInput
  /\ ReadersAhead
  /\ ReadersApart

-----------------------------------------------------------------------------
(* Where the cords are, and where they are not.                            *)
LEMMA KFacts ==
  ASSUME ListInv
  PROVE  /\ runable \in Seq(Cords) /\ IsInjective(runable)
         /\ ToSet(runable) \subseteq Cords
         /\ blocked \subseteq Cords
         /\ blocked \cap Dead = {} /\ ToSet(runable) \cap (blocked \cup Dead) = {}
         /\ phase = "running" => /\ curr \in Cords /\ curr # NULL
                                 /\ curr \notin ToSet(runable) \cup blocked \cup Dead
                                 /\ Running = {curr}
         /\ phase # "running" => Running = {}
         /\ NULL \notin Cords /\ 0 \in Cords /\ NULL # 0
BY WhereCordsAre, NullAssumption DEF ListInv, Dead, Running

(* A knote, once the list has been registered, still has its entry there.  *)
Listed(kn) ==
  /\ kn \in [Idents -> Cords \cup {NULL}]
  /\ \A i \in Idents : kn[i] # NULL => [udata |-> kn[i], ident |-> i] \in ToSet(kevs)

LEMMA RegisteredListed ==
  ASSUME ListInv, phase # "done"
  PROVE  Listed(knote) /\ Listed(Registered)
<1>1. Listed(knote)
  BY DEF ListInv, KTypeOK, KnotesListed, Listed
<1>2. kevs \in Seq(Kev) /\ Len(kevs) \in Nat /\ DOMAIN kevs = 1 .. Len(kevs)
  BY LenProperties DEF ListInv, KTypeOK
<1>3. \A j \in DOMAIN kevs : kevs[j] \in Kev /\ kevs[j] \in ToSet(kevs)
  BY <1>2, LenProperties DEF ToSet
<1>4. ASSUME NEW i \in Idents
      PROVE  /\ Registered[i] \in Cords \cup {NULL}
             /\ Registered[i] # NULL => [udata |-> Registered[i], ident |-> i] \in ToSet(kevs)
  <2> DEFINE of == {j \in DOMAIN kevs : kevs[j].ident = i}
  <2>1. Registered[i] = IF of = {} THEN knote[i] ELSE kevs[Max(of)].udata
    BY DEF Registered
  <2>2. CASE of = {}
    BY <2>1, <2>2, <1>1 DEF Listed
  <2>3. CASE of # {}
    <3>1. of \in SUBSET (0 .. Len(kevs))
      BY <1>2
    <3>2. Max(of) \in of
      <4> HIDE DEF of
      <4> QED BY <2>3, <3>1, <1>2, MinMax
    <3>3. kevs[Max(of)] \in Kev /\ kevs[Max(of)] \in ToSet(kevs) /\ kevs[Max(of)].ident = i
      BY <3>2, <1>3
    <3>4. kevs[Max(of)] = [udata |-> kevs[Max(of)].udata, ident |-> i]
                /\ kevs[Max(of)].udata \in Cords
      BY <3>3 DEF Kev
    <3> QED BY <2>1, <2>3, <3>3, <3>4
  <2> QED BY <2>2, <2>3
<1>5. Registered = [i \in Idents |-> Registered[i]]
  BY DEF Registered
<1> QED BY <1>1, <1>4, <1>5 DEF Listed

-----------------------------------------------------------------------------
(* kev_remove and the loop over the events.                                *)

UniqueUdata(list) ==
  \A i, j \in DOMAIN list : list[i].udata = list[j].udata => i = j

LEMMA RemovedKev ==
  ASSUME NEW l \in Seq(Kev), UniqueUdata(l), NEW c
  PROVE  /\ kev_remove(l, c) \in Seq(Kev)
         /\ UniqueUdata(kev_remove(l, c))
         /\ ToSet(kev_remove(l, c)) = {k \in ToSet(l) : k.udata # c}
<1> DEFINE of == {j \in DOMAIN l : l[j].udata = c}
           r == RemoveAt(l, Min(of))
<1>1. Len(l) \in Nat /\ DOMAIN l = 1 .. Len(l) /\ ToSet(l) = {l[j] : j \in DOMAIN l}
  BY LenProperties DEF ToSet
<1>2. CASE of = {}
  <2>1. kev_remove(l, c) = l
    BY <1>2 DEF kev_remove
  <2>2. \A k \in ToSet(l) : k.udata # c
    BY <1>1, <1>2
  <2> QED BY <2>1, <2>2
<1>3. CASE of # {}
  <2>1. kev_remove(l, c) = r
    BY <1>3 DEF kev_remove
  <2>2. Min(of) \in of
    <3>1. of \in SUBSET (0 .. Len(l))
      BY <1>1
    <3> HIDE DEF of
    <3> QED BY <3>1, <1>1, <1>3, MinMax
  <2>3. IsInjective(l)
    BY DEF UniqueUdata, IsInjective
  <2>4. Min(of) \in DOMAIN l /\ l[Min(of)].udata = c
    BY <2>2
  <2> DEFINE i == Min(of)
  <2> HIDE DEF of, i
  <2>5. r \in Seq(Kev) /\ IsInjective(r) /\ ToSet(r) = ToSet(l) \ {l[i]}
    BY <2>3, <2>4, RemoveAtElements DEF i
  <2> HIDE DEF r
  <2>6. \A j \in DOMAIN l : l[j].udata = c => j = i
    BY <2>4 DEF UniqueUdata, i
  <2>7. \A k, m \in ToSet(l) : k.udata = m.udata => k = m
    BY <1>1 DEF UniqueUdata
  <2>8. ToSet(r) = {k \in ToSet(l) : k.udata # c}
    BY <2>4, <2>5, <2>7, <1>1 DEF i
  <2>9. UniqueUdata(r)
    <3> SUFFICES ASSUME NEW a \in DOMAIN r, NEW b \in DOMAIN r, r[a].udata = r[b].udata
                 PROVE  a = b
      BY DEF UniqueUdata
    <3>1. r[a] \in ToSet(l) /\ r[b] \in ToSet(l)
      BY <2>5 DEF ToSet
    <3>2. r[a] = r[b]
      BY <3>1, <2>7
    <3> QED BY <3>2, <2>5 DEF IsInjective
  <2> QED BY <2>1, <2>5, <2>8, <2>9
<1> QED BY <1>2, <1>3

(* The loop takes the entries of the cords of s off the list, and leaves   *)
(* the others.                                                             *)
LEMMA WithoutElements ==
  ASSUME kevs \in Seq(Kev), UniqueUdata(kevs), NEW A, NEW s \in Seq(A)
  PROVE  /\ Without(s) \in Seq(Kev)
         /\ UniqueUdata(Without(s))
         /\ ToSet(Without(s)) = {k \in ToSet(kevs) : k.udata \notin ToSet(s)}
<1> DEFINE Next1(f, i) == IF i = 0 THEN kevs ELSE kev_remove(f[i - 1], s[i])
           Loop(f, n) == f = [i \in 0 .. n |-> Next1(f, i)]
<1>1. Len(s) \in Nat /\ DOMAIN s = 1 .. Len(s)
  BY LenProperties
<1>2. \E f : Loop(f, Len(s))
  <2> DEFINE T == {n \in Nat : \E f : Loop(f, n)}
  <2>1. 0 \in T
    <3>1. Loop([i \in 0 .. 0 |-> kevs], 0)
      OBVIOUS
    <3> QED BY <3>1
  <2>2. ASSUME NEW n \in T PROVE n + 1 \in T
    <3>1. PICK f : Loop(f, n)
      OBVIOUS
    <3> DEFINE g == [i \in 0 .. n + 1 |-> IF i = n + 1 THEN Next1(f, i) ELSE f[i]]
    <3>2. ASSUME NEW i \in 0 .. n + 1 PROVE g[i] = Next1(g, i)
      <4>1. CASE i = 0
        BY <3>1, <4>1
      <4>2. CASE i \in 1 .. n
        <5>1. g[i] = f[i] /\ g[i - 1] = f[i - 1]
          BY <4>2
        <5>2. f[i] = Next1(f, i)
          <6>1. i \in 0 .. n
            BY <4>2
          <6> HIDE DEF Next1
          <6> QED BY <3>1, <6>1
        <5> HIDE DEF g
        <5> QED BY <5>1, <5>2
      <4>3. CASE i = n + 1
        BY <4>3
      <4> QED BY <4>1, <4>2, <4>3
    <3>3. \E h : Loop(h, n + 1)
      <4>1. g = [i \in 0 .. n + 1 |-> g[i]]
        OBVIOUS
      <4> HIDE DEF g, Next1
      <4>2. Loop(g, n + 1)
        BY <3>2, <4>1
      <4> QED BY <4>2
    <3> HIDE DEF Loop
    <3> QED BY <3>3
  <2> HIDE DEF T
  <2>3. \A n \in Nat : n \in T
    BY <2>1, <2>2, SetInduction DEF T
  <2> QED BY <1>1, <2>3 DEF T
<1>3. PICK w : Loop(w, Len(s)) /\ Without(s) = w[Len(s)]
  BY <1>2 DEF Without
<1> DEFINE Upto(n) == {s[j] : j \in 1 .. n}
           Good(n) == /\ w[n] \in Seq(Kev)
                      /\ UniqueUdata(w[n])
                      /\ ToSet(w[n]) = {k \in ToSet(kevs) : k.udata \notin Upto(n)}
           T == {n \in Nat : n <= Len(s) => Good(n)}
<1>4. 0 \in T
  <2>1. w[0] = kevs
    BY <1>1, <1>3
  <2>2. Upto(0) = {}
    OBVIOUS
  <2> HIDE DEF Upto
  <2>3. Good(0)
    BY <2>1, <2>2
  <2> QED BY <2>3
<1>5. ASSUME NEW n \in T PROVE n + 1 \in T
  <2> SUFFICES ASSUME n + 1 <= Len(s) PROVE Good(n + 1)
    OBVIOUS
  <2>1. Good(n)
    BY <1>1
  <2>2. Upto(n + 1) = Upto(n) \cup {s[n + 1]}
    OBVIOUS
  <2>3. w[n + 1] = Next1(w, n + 1)
    <3>1. n + 1 \in 0 .. Len(s)
      BY <1>1
    <3> HIDE DEF Next1
    <3> QED BY <1>3, <3>1
  <2>4. w[n + 1] = kev_remove(w[n], s[n + 1])
    BY <2>3, n + 1 # 0, n + 1 - 1 = n
  <2> HIDE DEF Upto
  <2>5. /\ w[n + 1] \in Seq(Kev)
        /\ UniqueUdata(w[n + 1])
        /\ ToSet(w[n + 1]) = {k \in ToSet(w[n]) : k.udata # s[n + 1]}
    BY <2>1, <2>4, RemovedKev
  <2> QED BY <2>1, <2>2, <2>5
<1> HIDE DEF T
<1>6. Len(s) \in T
  BY <1>1, <1>4, <1>5, SetInduction DEF T
<1>7. Upto(Len(s)) = ToSet(s)
  BY <1>1 DEF ToSet
<1> QED BY <1>1, <1>3, <1>6, <1>7 DEF T

-----------------------------------------------------------------------------
(* Every call keeps the list, the knotes and the blocked cords together.   *)

(* The entries of the list, and whose they are.                            *)
LEMMA EntriesFacts ==
  ASSUME ListInv, phase # "done"
  PROVE  /\ kevs \in Seq(Kev) /\ UniqueUdata(kevs) /\ ToSet(kevs) \subseteq Kev
         /\ \A k, m \in ToSet(kevs) : k.udata = m.udata => k = m
         /\ \A k \in ToSet(kevs) : k.udata \in (blocked \ {visor}) \cup Dead
         /\ \A c \in blocked \ {visor} : \E k \in ToSet(kevs) : k.udata = c
         /\ \A k \in ToSet(kevs) : k.udata # visor
<1>1. kevs \in Seq(Kev) /\ UniqueUdata(kevs)
  BY DEF ListInv, KTypeOK, KnotesListed, UniqueUdata
<1>2. DOMAIN kevs = 1 .. Len(kevs) /\ ToSet(kevs) = {kevs[j] : j \in DOMAIN kevs}
      /\ \A j \in DOMAIN kevs : kevs[j] \in Kev
  BY <1>1, LenProperties DEF ToSet
<1>3. ToSet(kevs) \subseteq Kev
  BY <1>2
<1>4. \A k, m \in ToSet(kevs) : k.udata = m.udata => k = m
  BY <1>1, <1>2 DEF UniqueUdata
<1>5. blocked \ {visor} = {k.udata : k \in ToSet(kevs)} \ Dead
  BY DEF ListInv, KnotesListed, Dead
<1>6. visor \notin Dead
  BY DEF ListInv, VisorLives
<1> QED BY <1>1, <1>3, <1>4, <1>5, <1>6

(* A step that leaves the list alone and blocks nobody: whoever stops      *)
(* being blocked is dead.                                                  *)
LEMMA QuietKeepsList ==
  ASSUME ListInv, BraidInv', KTypeOK', OwnerKnown', HomeInVisor', ElapsedKnown',
         0 .. count - 1 \subseteq 0 .. count' - 1,
         Dead \subseteq Dead',
         blocked' = blocked \ Dead',
         phase' = "done" <=> phase = "done",
         phase' = "init" => phase = "init" /\ UNCHANGED <<failed, knote>>,
         phase' \in {"running", "returning"} => visor # NULL,
         phase' # "done" => visor \notin Dead',
         UNCHANGED <<visor, kevs, home, isBlocked>>,
         phase # "done" => Listed(knote')
  PROVE  ListInv'
<1>1. VisorLives'
  BY DEF ListInv, VisorLives
<1>2. IdleAtFirst'
  BY DEF ListInv, IdleAtFirst
<1>3. KnotesListed'
  <2> SUFFICES ASSUME phase' # "done" PROVE KnotesListed'
    BY DEF KnotesListed
  <2>1. blocked' \ {visor'} = {k.udata : k \in ToSet(kevs)'} \ (zombies \cup freed)'
    <3>1. blocked \ {visor} = {k.udata : k \in ToSet(kevs)} \ Dead
      BY DEF ListInv, KnotesListed, Dead
    <3>2. blocked' \ {visor} = {k.udata : k \in ToSet(kevs)} \ Dead'
      BY <3>1
    <3> QED BY <3>2 DEF Dead
  <2>2. /\ \A i, j \in DOMAIN kevs' : kevs'[i].udata = kevs'[j].udata => i = j
        /\ kevs' # << >> => visor' \notin blocked'
    BY DEF ListInv, KnotesListed
  <2>3. isBlocked' <=> visor' \in blocked'
    BY DEF ListInv, KnotesListed
  <2>4. visor' = 0 => Alive'
    <3>1. freed' \subseteq Cords /\ NULL \notin Cords
      BY NullAssumption DEF BraidInv, TypeOK, Cords
    <3> QED BY <3>1 DEF HomeInVisor, Alive, Dead
  <2>5. \A i \in Idents :
          knote'[i] # NULL => [udata |-> knote'[i], ident |-> i] \in ToSet(kevs)'
    BY DEF Listed
  <2> QED BY <2>1, <2>2, <2>3, <2>4, <2>5 DEF KnotesListed
<1> QED BY <1>1, <1>2, <1>3 DEF ListInv

(* A call of the scheduler: the visor and the kernel see nothing of it.    *)
LEMMA SchedulerKeepsList ==
  ASSUME ListInv, BraidInv', UNCHANGED <<visor, owner, listVars, kernelVars>>,
         vpc' \in {"start", "top", "waiting"}, vpc' = "start" <=> vpc = "start",
         0 .. count - 1 \subseteq 0 .. count' - 1,
         Dead \subseteq Dead',
         blocked' = blocked \ Dead',
         phase # "done", phase' # "done",
         phase' = "init" => phase = "init",
         phase' # "init" => visor # NULL,
         visor \notin Dead'
  PROVE  ListInv'
<1>1. UNCHANGED <<visor, owner, kevs, cap, home, isBlocked, failed,
                 knote, ready, elapsed, toRead>>
  BY DEF listVars, kernelVars
<1>2. KTypeOK'
  BY <1>1 DEF ListInv, KTypeOK
<1>3. OwnerKnown' /\ HomeInVisor' /\ ElapsedKnown'
  BY <1>1 DEF ListInv, OwnerKnown, HomeInVisor, ElapsedKnown
<1>4. Listed(knote')
  BY <1>1, RegisteredListed
<1> HIDE DEF listVars, kernelVars
<1> QED BY <1>1, <1>2, <1>3, <1>4, QuietKeepsList

LEMMA AddCordKeepsList ==
  ASSUME ListInv, AddCord
  PROVE  ListInv'
<1>1. Add("normal") /\ "normal" \in Flags
  BY DEF AddCord, Flags
<1>2. BraidInv'
  BY <1>1, AddKeepsInv DEF ListInv
<1>3. count' = count + 1
  BY <1>1, NextIdIsCount DEF Add, ListInv, BraidInv
<1>4. UNCHANGED <<phase, blocked, zombies, freed>> /\ phase \in {"init", "running"}
  BY <1>1 DEF Add, Usable
<1>5. count \in Nat
  BY MaxCordsAssumption DEF ListInv, BraidInv, TypeOK
<1>6. UNCHANGED <<visor, owner, listVars, kernelVars>> /\ vpc' = vpc
  BY DEF AddCord, kVars
<1>7. phase # "init" => visor # NULL
  BY <1>4 DEF ListInv, VisorLives
<1>8. visor \notin Dead /\ Dead' = Dead
  BY <1>4 DEF ListInv, VisorLives, Dead
<1>9. vpc \in {"start", "top", "waiting"} /\ blocked = blocked \ Dead
  BY KFacts DEF ListInv, KTypeOK
<1> QED BY <1>2, <1>3, <1>4, <1>5, <1>6, <1>7, <1>8, <1>9, SchedulerKeepsList

LEMMA KStartKeepsList ==
  ASSUME ListInv, KStart
  PROVE  ListInv'
<1>1. visor # NULL /\ Start /\ phase = "init" /\ count' = count
  BY DEF KStart, Start
<1>2. BraidInv'
  BY <1>1, SwitchKeepsInv DEF ListInv
<1>3. /\ blocked' = blocked /\ zombies' \cup freed' = zombies \cup freed
      /\ phase' \in {"running", "returning"}
  BY <1>1, ScheduleLists DEF Start
<1>4. UNCHANGED <<visor, owner, listVars, kernelVars>> /\ vpc' = vpc
  BY DEF KStart, kVars
<1>5. visor \notin Dead /\ Dead' = Dead
  BY <1>1, <1>3 DEF ListInv, VisorLives, Dead
<1>6. vpc \in {"start", "top", "waiting"} /\ blocked = blocked \ Dead
  BY KFacts DEF ListInv, KTypeOK
<1> QED BY <1>1, <1>2, <1>3, <1>4, <1>5, <1>6, SchedulerKeepsList

(* What a call that only ends in schedule() does to the lists.             *)
LEMMA YieldFacts ==
  ASSUME ListInv, Yield
  PROVE  /\ BraidInv'
         /\ blocked' = blocked /\ Dead' = Dead /\ count' = count
         /\ phase = "running" /\ phase' \in {"running", "returning"}
<1>1. BraidInv'
  BY SwitchKeepsInv DEF ListInv
<1>2. /\ blocked' = blocked /\ zombies' \cup freed' = zombies \cup freed
      /\ phase' \in {"running", "returning"}
  BY ScheduleLists DEF Yield
<1> QED BY <1>1, <1>2 DEF Yield, Dead

LEMMA KOthersKeepList ==
  ASSUME ListInv, KOthers
  PROVE  ListInv'
<1>1. /\ UNCHANGED <<visor, owner, listVars, kernelVars>> /\ vpc' = vpc
      /\ phase = "running" /\ curr # visor
  BY DEF KOthers, kVars, Free, InCord
<1>2. visor # NULL /\ visor \notin Dead
  BY <1>1 DEF ListInv, VisorLives
<1>3. vpc \in {"start", "top", "waiting"} /\ blocked = blocked \ Dead
  BY KFacts DEF ListInv, KTypeOK
<1>4. CASE Yield
  BY <1>1, <1>2, <1>3, <1>4, YieldFacts, SchedulerKeepsList
<1>5. CASE Exit
  <2>1. BraidInv' /\ count' = count
    BY <1>5, SwitchKeepsInv DEF ListInv, Exit
  <2>2. /\ blocked' = blocked /\ zombies' \cup freed' = (zombies \cup {curr}) \cup freed
        /\ phase' \in {"running", "returning"}
    BY <1>5, ScheduleLists DEF Exit
  <2>3. Dead' = Dead \cup {curr} /\ curr \notin blocked
    BY <1>1, <2>2, KFacts DEF Dead
  <2> QED BY <1>1, <1>2, <1>3, <2>1, <2>2, <2>3, SchedulerKeepsList
<1>6. CASE \E c \in Cords \ {visor} : Halt(c)
  <2>1. PICK c \in Cords \ {visor} : Halt(c)
    BY <1>6
  <2>2. BraidInv'
    BY <2>1, HaltKeepsInv DEF ListInv
  <2>3. /\ UNCHANGED <<phase, freed, count>> /\ zombies' = zombies \cup {c}
        /\ (blocked' = blocked /\ c \in ToSet(runable)) \/ blocked' = blocked \ {c}
    BY <2>1 DEF Halt, HaltRunable, HaltBlocked, ToSet
  <2>4. Dead' = Dead \cup {c} /\ blocked' = blocked \ Dead'
    BY <1>3, <2>3, KFacts DEF Dead
  <2> QED BY <1>1, <1>2, <1>3, <2>1, <2>2, <2>3, <2>4, SchedulerKeepsList
<1> QED BY <1>4, <1>5, <1>6 DEF KOthers

(* A signal interrupts the wait of the visor, and it yields.               *)
LEMMA InterruptedKeepsList ==
  ASSUME ListInv, Interrupted
  PROVE  ListInv'
<1>1. /\ Yield /\ vpc = "waiting" /\ vpc' = "top"
      /\ UNCHANGED <<visor, owner, listVars, kernelVars>>
  BY DEF Interrupted
<1>2. visor # NULL /\ visor \notin Dead /\ blocked = blocked \ Dead
  BY <1>1, YieldFacts, KFacts DEF ListInv, VisorLives
<1> QED BY <1>1, <1>2, YieldFacts, SchedulerKeepsList

(* Steps that leave the scheduler alone.                                   *)
StandStill ==
  \/ AwaitFails \/ Read \/ VisorStarts \/ VisorWaits \/ InputArrives \/ TimerExpires
  \/ UNCHANGED allVars

LEMMA StandStillFacts ==
  ASSUME ListInv, StandStill
  PROVE  /\ UNCHANGED vars
         /\ UNCHANGED <<phase, curr, runable, blocked, zombies, freed, count, visor>>
         /\ UNCHANGED <<kevs, cap, home, isBlocked>>
         /\ BraidInv' /\ Dead' = Dead
<1>1. UNCHANGED vars
  BY DEF StandStill, AwaitFails, Read, VisorStarts, VisorWaits, InputArrives, TimerExpires,
         allVars
<1>2. UNCHANGED <<visor, kevs, cap, home, isBlocked>>
  BY DEF StandStill, AwaitFails, Read, VisorStarts, VisorWaits, InputArrives, TimerExpires,
         allVars, kVars, listVars
<1>3. BraidInv'
  BY <1>1, BraidInvStep DEF ListInv
<1>4. UNCHANGED <<phase, curr, runable, blocked, zombies, freed, count>>
  BY <1>1 DEF vars
<1> QED BY <1>1, <1>2, <1>3, <1>4 DEF Dead

(* What is left to show of such a step.                                    *)
LEMMA QuietStandStill ==
  ASSUME ListInv, StandStill, KTypeOK', OwnerKnown', HomeInVisor', ElapsedKnown',
         phase = "init" => UNCHANGED <<failed, knote>>,
         phase # "done" => Listed(knote')
  PROVE  ListInv'
<1>1. blocked = blocked \ Dead /\ (phase # "done" => visor \notin Dead)
      /\ (phase \in {"running", "returning"} => visor # NULL)
  BY KFacts DEF ListInv, VisorLives
<1> QED BY <1>1, StandStillFacts, QuietKeepsList

LEMMA StandStillKeepsList ==
  ASSUME ListInv, StandStill
  PROVE  ListInv'
<1> USE DEF ListInv
<1>1. /\ UNCHANGED <<phase, curr, runable, blocked, zombies, freed, count, visor>>
      /\ UNCHANGED <<kevs, cap, home, isBlocked>>
      /\ BraidInv'
  BY StandStillFacts
<1>2. CASE AwaitFails
  <2>1. failed' = TRUE /\ UNCHANGED <<vpc, owner, knote, ready, elapsed, toRead>>
        /\ phase = "running" /\ curr # visor /\ MustGrow /\ ~CanGrow
    BY <1>2 DEF AwaitFails, Free, InCord, kernelVars
  <2>2. visor # 0
    <3> SUFFICES ASSUME visor = 0 PROVE FALSE
      OBVIOUS
    <3>1. owner = visor
      BY DEF OwnerKnown, KTypeOK
    <3>2. visor \in ToSet(runable) \cup blocked
      BY <2>1, KFacts DEF VisorLives, BraidInv, Accounted, Dead
    <3> QED BY <2>1, <3>1, <3>2 DEF CanGrow
  <2>3. KTypeOK' /\ OwnerKnown' /\ HomeInVisor' /\ ElapsedKnown'
    BY <1>1, <2>1, <2>2 DEF KTypeOK, OwnerKnown, HomeInVisor, ElapsedKnown
  <2>4. phase # "done" => Listed(knote')
    BY <2>1, RegisteredListed
  <2> QED BY <2>1, <2>3, <2>4, QuietStandStill
<1>3. CASE Read
  <2>1. UNCHANGED <<vpc, owner, failed, knote, elapsed>>
        /\ phase = "running" /\ curr \in Cords
    BY <1>3, KFacts DEF Read, InCord, listVars
  <2>2. ready' \subseteq Fds /\ toRead' \in [Cords -> Fds \cup {NULL}]
    BY <1>3, <2>1 DEF Read, KTypeOK
  <2>3. KTypeOK' /\ OwnerKnown' /\ HomeInVisor' /\ ElapsedKnown'
    BY <1>1, <2>1, <2>2 DEF KTypeOK, OwnerKnown, HomeInVisor, ElapsedKnown
  <2>4. phase # "done" => Listed(knote')
    BY <2>1, RegisteredListed
  <2> QED BY <2>1, <2>3, <2>4, QuietStandStill
<1>4. CASE VisorStarts
  <2>1. UNCHANGED <<failed, knote, ready, elapsed, toRead>>
        /\ owner' = curr /\ vpc' = "top" /\ vpc = "start"
        /\ phase = "running" /\ curr = visor /\ curr \in Cords /\ curr # NULL
    BY <1>4, KFacts DEF VisorStarts, InVisor, listVars, kernelVars
  <2>2. KTypeOK' /\ OwnerKnown' /\ HomeInVisor' /\ ElapsedKnown'
    BY <1>1, <2>1 DEF KTypeOK, OwnerKnown, HomeInVisor, ElapsedKnown
  <2>3. phase # "done" => Listed(knote')
    BY <2>1, RegisteredListed
  <2> QED BY <2>1, <2>2, <2>3, QuietStandStill
<1>5. CASE VisorWaits
  <2>1. UNCHANGED <<owner, failed, ready, toRead>> /\ vpc' = "waiting" /\ vpc = "top"
        /\ knote' = Registered /\ elapsed' = {} /\ phase = "running"
    BY <1>5 DEF VisorWaits, InVisor, listVars
  <2>2. Listed(Registered)
    BY <2>1, RegisteredListed
  <2>3. knote' \in [Idents -> Cords \cup {NULL}]
    BY <2>1, <2>2 DEF Listed
  <2>4. KTypeOK' /\ OwnerKnown' /\ HomeInVisor' /\ ElapsedKnown'
    BY <1>1, <2>1, <2>3 DEF KTypeOK, OwnerKnown, HomeInVisor, ElapsedKnown
  <2>5. Listed(knote')
    BY <2>1, <2>2
  <2> QED BY <2>1, <2>4, <2>5, QuietStandStill
<1>6. CASE InputArrives \/ TimerExpires \/ UNCHANGED allVars
  <2>1. UNCHANGED <<vpc, owner, failed, knote, toRead>>
        /\ ready' \subseteq Fds /\ elapsed' \subseteq Cords
        /\ \A c \in elapsed' : knote[c] # NULL
    <3>1. CASE InputArrives
      BY <3>1 DEF InputArrives, KTypeOK, ElapsedKnown, listVars
    <3>2. CASE TimerExpires
      BY <3>2 DEF TimerExpires, KTypeOK, ElapsedKnown, listVars
    <3>3. CASE UNCHANGED allVars
      BY <3>3 DEF KTypeOK, ElapsedKnown, listVars, allVars, kVars, kernelVars
    <3> QED BY <1>6, <3>1, <3>2, <3>3
  <2>2. KTypeOK' /\ OwnerKnown' /\ HomeInVisor' /\ ElapsedKnown'
    BY <1>1, <2>1 DEF KTypeOK, OwnerKnown, HomeInVisor, ElapsedKnown
  <2>3. phase # "done" => Listed(knote')
    BY <2>1, RegisteredListed
  <2> QED BY <2>1, <2>2, <2>3, QuietStandStill
<1> QED BY <1>2, <1>3, <1>4, <1>5, <1>6 DEF StandStill

LEMMA AddVisorKeepsList ==
  ASSUME ListInv, AddVisor
  PROVE  ListInv'
<1>1. /\ Add("system") /\ "system" \in Flags /\ phase = "init" /\ visor = NULL
      /\ UNCHANGED <<vpc, owner, kevs, cap, home, isBlocked, failed,
                     knote, ready, elapsed, toRead>>
  BY DEF AddVisor, Flags, listVars, kernelVars
<1>2. BraidInv'
  BY <1>1, AddKeepsInv DEF ListInv
<1>3. visor' = count /\ count' = count + 1 /\ count \in Cords
  BY <1>1, NextIdIsCount DEF Add, AddVisor, ListInv, BraidInv
<1>4. UNCHANGED <<phase, blocked, zombies, freed>>
  BY <1>1 DEF Add
<1>5. count \in Nat /\ count \notin Dead /\ freed \subseteq Cords /\ NULL \notin Cords
  BY MaxCordsAssumption, NullAssumption DEF ListInv, BraidInv, TypeOK, Accounted, Dead, Cords
<1>6. /\ vpc = "start" /\ owner = 0 /\ ~isBlocked /\ kevs = << >> /\ blocked = {}
      /\ home = NULL /\ ~failed /\ \A i \in Idents : knote[i] = NULL
  BY <1>1 DEF ListInv, OwnerKnown, IdleAtFirst, KTypeOK
<1>7. ToSet(kevs) = {}
  BY <1>6 DEF ToSet
<1>8. KTypeOK' /\ VisorLives'
  BY <1>1, <1>3, <1>4, <1>5 DEF ListInv, KTypeOK, VisorLives, Dead
<1>9. OwnerKnown' /\ IdleAtFirst' /\ HomeInVisor' /\ ElapsedKnown'
  BY <1>1, <1>3, <1>4, <1>6 DEF ListInv, OwnerKnown, IdleAtFirst, HomeInVisor, ElapsedKnown
<1>10. KnotesListed'
  BY <1>1, <1>4, <1>5, <1>6, <1>7 DEF KnotesListed, Alive
<1> QED BY <1>2, <1>8, <1>9, <1>10 DEF ListInv

(* The visor goes to sleep with an empty list.                             *)
LEMMA VisorSleepsKeepsList ==
  ASSUME ListInv, VisorSleeps
  PROVE  ListInv'
<1>1. /\ Block /\ phase = "running" /\ curr = visor /\ vpc = "top" /\ kevs = << >>
      /\ isBlocked' = TRUE /\ count' = count /\ Alive
      /\ UNCHANGED <<visor, vpc, owner, kevs, cap, home, failed,
                     knote, ready, elapsed, toRead>>
  BY DEF VisorSleeps, InVisor, Block, kernelVars
<1>2. BraidInv'
  BY <1>1, SwitchKeepsInv DEF ListInv
<1>3. /\ blocked' = blocked \cup {visor} /\ zombies' \cup freed' = zombies \cup freed
      /\ phase' \in {"running", "returning"}
  BY <1>1, ScheduleLists DEF Block
<1>4. ToSet(kevs) = {} /\ blocked \ {visor} = {}
  <2>1. ToSet(kevs) = {}
    BY <1>1 DEF ToSet
  <2> QED BY <1>1, <2>1 DEF ListInv, KnotesListed
<1>5. KTypeOK'
  BY <1>1 DEF ListInv, KTypeOK
<1>6. VisorLives' /\ OwnerKnown' /\ IdleAtFirst' /\ HomeInVisor' /\ ElapsedKnown'
  BY <1>1, <1>3 DEF ListInv, VisorLives, OwnerKnown, IdleAtFirst, HomeInVisor, ElapsedKnown,
                    Dead
<1>7. KnotesListed'
  <2>1. visor = 0 => Alive'
    <3>1. freed' \subseteq Cords /\ NULL \notin Cords
      BY <1>2, NullAssumption DEF BraidInv, TypeOK, Cords
    <3>2. visor \notin freed'
      BY <1>1, <1>3, <1>6 DEF VisorLives, Dead
    <3> QED BY <1>1, <1>6, <3>1, <3>2 DEF HomeInVisor, Alive
  <2>2. \A i \in Idents : knote'[i] = NULL
    BY <1>1, <1>4 DEF ListInv, KnotesListed
  <2> QED BY <1>1, <1>3, <1>4, <2>1, <2>2 DEF KnotesListed
<1> QED BY <1>2, <1>5, <1>6, <1>7 DEF ListInv

LEMMA KReturnKeepsList ==
  ASSUME ListInv, KReturn
  PROVE  ListInv'
<1>1. /\ Return /\ phase' = "done" /\ phase = "returning" /\ blocked' = {} /\ count' = count
      /\ UNCHANGED <<visor, vpc, owner, kevs, cap, home, isBlocked, failed,
                     knote, ready, elapsed, toRead>>
  BY DEF KReturn, Return, kVars, listVars, kernelVars
<1>2. BraidInv'
  BY <1>1, ReturnKeepsInv DEF ListInv
<1>3. KTypeOK'
  BY <1>1 DEF ListInv, KTypeOK
<1> QED BY <1>1, <1>2, <1>3 DEF ListInv, VisorLives, OwnerKnown, IdleAtFirst, HomeInVisor,
                                ElapsedKnown, KnotesListed

-----------------------------------------------------------------------------
(* Whom fdwait and cknsleep wake: the visor if it sleeps, nobody else.     *)
LEMMA WakesTheVisor ==
  ASSUME ListInv, phase # "done"
  PROVE  /\ Wakes \in Seq(Cords) /\ IsInjective(Wakes)
         /\ ToSet(Wakes) = blocked \cap {visor}
<1>1. isBlocked <=> visor \in blocked
  BY DEF ListInv, KnotesListed
<1>2. CASE isBlocked
  <2>1. owner = visor /\ owner \in Cords
    BY <1>2 DEF ListInv, OwnerKnown, KTypeOK
  <2>2. <<owner>> \in Seq(Cords) /\ IsInjective(<<owner>>) /\ ToSet(<<owner>>) = {owner}
    BY <2>1 DEF IsInjective, ToSet
  <2>3. /\ Woken(<<owner>>) \in Seq(Cords) /\ IsInjective(Woken(<<owner>>))
        /\ ToSet(Woken(<<owner>>)) = {owner} \cap blocked
    BY <2>2, WokenElements
  <2> QED BY <1>1, <1>2, <2>1, <2>3 DEF Wakes
<1>3. CASE ~isBlocked
  <2>1. Wakes = << >>
    BY <1>3 DEF Wakes
  <2> QED BY <1>1, <1>3, <2>1 DEF IsInjective, ToSet
<1> QED BY <1>2, <1>3

LEMMA AwaitFacts ==
  ASSUME ListInv, NEW i, Await(i)
  PROVE  /\ BraidInv'
         /\ blocked' = (blocked \ {visor}) \cup {curr}
         /\ Dead' = Dead
         /\ phase = "running" /\ phase' \in {"running", "returning"}
<1> DEFINE q == runable \o Wakes
           blk == (blocked \ ToSet(Wakes)) \cup {curr}
<1>1. /\ phase = "running" /\ curr # visor
      /\ Schedule(q, blk, zombies, freed) /\ UNCHANGED <<flags, val, count>>
  BY DEF Await, Free, InCord
<1>2. /\ Wakes \in Seq(Cords) /\ IsInjective(Wakes) /\ ToSet(Wakes) = blocked \cap {visor}
  BY <1>1, WakesTheVisor
<1>3. /\ q \in Seq(Cords) /\ ToSet(q) = ToSet(runable) \cup (blocked \cap {visor})
      /\ IsInjective(q)
  <2>1. ToSet(runable) \cap ToSet(Wakes) = {}
    BY <1>2, KFacts
  <2> QED BY <2>1, <1>2, KFacts, ConcatElements
<1>4. blk = (blocked \ {visor}) \cup {curr}
  BY <1>2
<1> HIDE DEF q, blk
<1>5. Split(q, blk, zombies, freed)
  BY <1>1, <1>3, <1>4, KFacts DEF ListInv, BraidInv, TypeOK, Accounted, Split, Dead
<1>6. BraidInv'
  BY <1>1, <1>5, ScheduleAccounts DEF ListInv, BraidInv, TypeOK
<1>7. /\ blocked' = blk /\ zombies' \cup freed' = zombies \cup freed
      /\ phase' \in {"running", "returning"}
  BY <1>1, ScheduleLists
<1> QED BY <1>1, <1>4, <1>6, <1>7 DEF Dead

(* A cord waits: its entry is in the list, and the visor does not sleep.   *)
LEMMA AwaitKeepsList ==
  ASSUME ListInv, NEW i \in Idents, Await(i)
  PROVE  ListInv'
<1> DEFINE e == [udata |-> curr, ident |-> i]
<1>1. /\ curr # visor /\ count' = count /\ Alive
      /\ kevs' = Append(kevs, e)
      /\ cap' = IF MustGrow THEN (IF cap = 0 THEN FirstCap ELSE cap * 2) ELSE cap
      /\ home' = IF MustGrow THEN owner ELSE home
      /\ isBlocked' = FALSE
      /\ UNCHANGED <<visor, vpc, owner, failed, knote, ready, elapsed, toRead>>
  BY DEF Await, Free, InCord, kernelVars
<1>2. /\ BraidInv' /\ blocked' = (blocked \ {visor}) \cup {curr} /\ Dead' = Dead
      /\ phase = "running" /\ phase' \in {"running", "returning"}
  BY AwaitFacts
<1>3. curr \in Cords /\ curr \notin blocked \cup Dead /\ visor # NULL
  BY <1>2, KFacts DEF ListInv, VisorLives
<1>4. e \in Kev
  BY <1>3 DEF Kev
<1>5. /\ kevs \in Seq(Kev) /\ UniqueUdata(kevs) /\ ToSet(kevs) \subseteq Kev
      /\ \A k \in ToSet(kevs) : k.udata \in (blocked \ {visor}) \cup Dead
  BY <1>2, EntriesFacts
<1>6. kevs' \in Seq(Kev) /\ ToSet(kevs') = ToSet(kevs) \cup {e}
  <2> HIDE DEF e
  <2> QED BY <1>1, <1>4, <1>5, AppendElements
<1>7. \A a, b \in DOMAIN kevs' : kevs'[a].udata = kevs'[b].udata => a = b
  <2>1. /\ DOMAIN kevs' = 1 .. Len(kevs) + 1 /\ Len(kevs) \in Nat
        /\ DOMAIN kevs = 1 .. Len(kevs)
        /\ \A a \in 1 .. Len(kevs) : kevs'[a] = kevs[a]
        /\ kevs'[Len(kevs) + 1] = e
    <3> HIDE DEF e
    <3> QED BY <1>1, <1>4, <1>5, <1>6, AppendProperties, LenProperties
  <2>2. \A a \in 1 .. Len(kevs) : kevs[a] \in ToSet(kevs) /\ kevs[a].udata # curr
    <3>1. \A a \in 1 .. Len(kevs) : kevs[a] \in ToSet(kevs)
      BY <2>1 DEF ToSet
    <3> QED BY <3>1, <1>3, <1>5
  <2>3. e.udata = curr
    OBVIOUS
  <2> HIDE DEF e
  <2> QED BY <2>1, <2>2, <2>3, <1>5 DEF UniqueUdata
<1>8. KTypeOK'
  <2>1. cap' \in Nat /\ home' \in Cords \cup {NULL}
    BY <1>1, KqueueAssumption DEF ListInv, KTypeOK
  <2> QED BY <1>1, <1>6, <2>1 DEF ListInv, KTypeOK
<1>9. VisorLives' /\ OwnerKnown' /\ IdleAtFirst' /\ ElapsedKnown'
  BY <1>1, <1>2 DEF ListInv, VisorLives, OwnerKnown, IdleAtFirst, ElapsedKnown
<1>10. HomeInVisor'
  BY <1>1, <1>2 DEF ListInv, HomeInVisor, OwnerKnown, KTypeOK
<1>11. KnotesListed'
  <2>1. blocked' \ {visor'} = {k.udata : k \in ToSet(kevs)'} \ (zombies \cup freed)'
    <3>1. blocked \ {visor} = {k.udata : k \in ToSet(kevs)} \ Dead
      BY <1>2 DEF ListInv, KnotesListed, Dead
    <3>2. {k.udata : k \in ToSet(kevs')} = {k.udata : k \in ToSet(kevs)} \cup {curr}
      <4>1. e.udata = curr
        OBVIOUS
      <4> HIDE DEF e
      <4> QED BY <4>1, <1>6
    <3>3. blocked' \ {visor} = {k.udata : k \in ToSet(kevs')} \ Dead
      BY <3>1, <3>2, <1>1, <1>2, <1>3
    <3> QED BY <3>3, <1>1, <1>2 DEF Dead
  <2>2. \A j \in Idents :
          knote'[j] # NULL => [udata |-> knote'[j], ident |-> j] \in ToSet(kevs)'
    BY <1>1, <1>2, <1>6 DEF ListInv, KnotesListed
  <2>3. visor = 0 => Alive'
    <3>1. freed' \subseteq Cords /\ NULL \notin Cords
      BY <1>2, NullAssumption DEF BraidInv, TypeOK, Cords
    <3>2. visor \notin freed'
      BY <1>1, <1>2, <1>9 DEF VisorLives, Dead
    <3> QED BY <1>1, <1>10, <3>1, <3>2 DEF HomeInVisor, Alive
  <2> HIDE DEF e
  <2> QED BY <2>1, <2>2, <2>3, <1>1, <1>2, <1>7 DEF KnotesListed
<1> QED BY <1>2, <1>8, <1>9, <1>10, <1>11 DEF ListInv

-----------------------------------------------------------------------------
(* The events of a kevent, and the knotes they are taken from.             *)
Reports(events, kn) ==
  /\ Listed(kn)
  /\ events \subseteq {i \in Idents : kn[i] # NULL}
  /\ events \cap Fds \subseteq ready

LEMMA KeventReports ==
  ASSUME ListInv, VisorPolls \/ VisorReturns
  PROVE  /\ phase = "running" /\ curr = visor /\ elapsed' = {}
         /\ vpc # "start" /\ vpc' \in {"top", "waiting"}
         /\ \E events, kn : Reports(events, kn) /\ Deliver(events, kn)
<1>1. Listed(knote) /\ Listed(Registered) /\ phase = "running"
  BY RegisteredListed DEF VisorPolls, VisorReturns, InVisor
<1>2. ready \subseteq Fds /\ elapsed \subseteq Cords /\ Fds \cap Cords = {}
  BY KqueueAssumption DEF ListInv, KTypeOK
<1>3. CASE VisorPolls
  <2>1. PICK short \in SUBSET {c \in Cords : Registered[c] # NULL} :
          Deliver({f \in ready : Registered[f] # NULL} \cup short, Registered)
    BY <1>3 DEF VisorPolls
  <2> DEFINE events == {f \in ready : Registered[f] # NULL} \cup short
  <2>2. Reports(events, Registered)
    BY <1>1, <1>2 DEF Reports, Idents
  <2> HIDE DEF events
  <2> QED BY <1>3, <2>1, <2>2 DEF VisorPolls, InVisor, events
<1>4. CASE VisorReturns
  <2>1. Deliver(Active, knote)
    BY <1>4 DEF VisorReturns
  <2>2. Reports(Active, knote)
    BY <1>1, <1>2 DEF Reports, Idents, Active, ListInv, ElapsedKnown
  <2> QED BY <1>4, <2>1, <2>2 DEF VisorReturns, InVisor
<1> QED BY <1>3, <1>4

(* Each event names one cord, by the only entry that cord has.             *)
LEMMA NamedFacts ==
  ASSUME ListInv, phase = "running", NEW events, NEW kn, Reports(events, kn)
  PROVE  /\ Named(events, kn) \in SUBSET Cords /\ IsFiniteSet(Named(events, kn))
         /\ visor \notin Named(events, kn)
         /\ \A i \in events : /\ i \in Idents /\ kn[i] \in Cords
                              /\ [udata |-> kn[i], ident |-> i] \in ToSet(kevs)
         /\ \A i \in Idents, j \in events : kn[i] = kn[j] => i = j
         /\ \A c, i, j : /\ [udata |-> c, ident |-> i] \in ToSet(kevs)
                         /\ [udata |-> c, ident |-> j] \in ToSet(kevs)
                         => i = j
<1>1. \A i \in events : /\ i \in Idents /\ kn[i] \in Cords
                        /\ [udata |-> kn[i], ident |-> i] \in ToSet(kevs)
  BY DEF Reports, Listed
<1>2. ASSUME NEW c, NEW i, NEW j, [udata |-> c, ident |-> i] \in ToSet(kevs),
             [udata |-> c, ident |-> j] \in ToSet(kevs)
      PROVE  i = j
  <2> DEFINE a == [udata |-> c, ident |-> i]
             b == [udata |-> c, ident |-> j]
  <2>1. a.udata = b.udata
    OBVIOUS
  <2>2. a = b
    <3> HIDE DEF a, b
    <3> QED BY <1>2, <2>1, EntriesFacts DEF a, b
  <2>3. a.ident = b.ident
    <3> HIDE DEF a, b
    <3> QED BY <2>2
  <2> QED BY <2>3
<1>3. \A i \in Idents, j \in events : kn[i] = kn[j] => i = j
  <2> SUFFICES ASSUME NEW i \in Idents, NEW j \in events, kn[i] = kn[j] PROVE i = j
    OBVIOUS
  <2>1. [udata |-> kn[j], ident |-> j] \in ToSet(kevs) /\ kn[j] # NULL
    BY <1>1, KFacts
  <2>2. [udata |-> kn[j], ident |-> i] \in ToSet(kevs)
    BY <2>1 DEF Reports, Listed
  <2> QED BY <2>1, <2>2, <1>2
<1>4. Named(events, kn) \in SUBSET Cords
  BY <1>1 DEF Named
<1>5. IsFiniteSet(Named(events, kn))
  <2>1. IsFiniteSet(Cords)
    BY MaxCordsAssumption, FS_Interval DEF Cords
  <2> QED BY <2>1, <1>4, FS_Subset
<1>6. visor \notin Named(events, kn)
  <2> SUFFICES ASSUME NEW i \in events, kn[i] = visor PROVE FALSE
    BY DEF Named
  <2> DEFINE e == [udata |-> visor, ident |-> i]
  <2>1. e \in ToSet(kevs) /\ e.udata = visor
    BY <1>1
  <2> HIDE DEF e
  <2> QED BY <2>1, EntriesFacts
<1> QED BY <1>1, <1>2, <1>3, <1>4, <1>5, <1>6

(* What kevent's events do to the lists of the scheduler, and to ctx->kevs.*)
LEMMA DeliverFacts ==
  ASSUME ListInv, phase = "running", curr = visor, NEW events, NEW kn,
         Reports(events, kn), Deliver(events, kn)
  PROVE  /\ BraidInv' /\ Dead' = Dead /\ phase' \in {"running", "returning"}
         /\ blocked' = blocked \ Named(events, kn)
         /\ kevs' \in Seq(Kev) /\ UniqueUdata(kevs')
         /\ ToSet(kevs') = {k \in ToSet(kevs) : k.udata \notin Named(events, kn)}
         /\ \E q \in Seq(Cords) :
              /\ Schedule(q, blocked', zombies, freed)
              /\ ToSet(q) = ToSet(runable) \cup (Named(events, kn) \cap blocked) \cup {visor}
              /\ q # << >> /\ q[Len(q)] = visor
<1>1. PICK s \in SetToSeqs(Named(events, kn)) :
        /\ Schedule(Append(runable \o Woken(s), curr), blocked \ ToSet(s), zombies, freed)
        /\ kevs' = Without(s)
  BY DEF Deliver
<1>2. s \in Seq(Cords) /\ ToSet(s) = Named(events, kn) /\ IsInjective(s)
  BY NamedFacts, ListingElements
<1> DEFINE woken == Woken(s)
           both == runable \o woken
           q == Append(both, curr)
           blk == blocked \ ToSet(s)
<1>3. /\ woken \in Seq(Cords) /\ IsInjective(woken) /\ ToSet(woken) = ToSet(s) \cap blocked
  BY <1>2, WokenElements
<1> HIDE DEF woken
<1>4. /\ both \in Seq(Cords) /\ IsInjective(both)
      /\ ToSet(both) = ToSet(runable) \cup ToSet(woken)
  <2>1. ToSet(runable) \cap ToSet(woken) = {}
    BY <1>3, KFacts
  <2> QED BY <2>1, <1>3, KFacts, ConcatElements
<1>5. curr \in Cords /\ curr \notin ToSet(both)
  BY <1>3, <1>4, KFacts
<1> HIDE DEF both
<1>6. /\ q \in Seq(Cords) /\ IsInjective(q)
      /\ ToSet(q) = ToSet(runable) \cup ToSet(woken) \cup {curr}
  BY <1>4, <1>5, AppendElements
<1>7. q # << >> /\ q[Len(q)] = curr
  BY <1>4, <1>5, AppendProperties
<1>8. Schedule(q, blk, zombies, freed) /\ UNCHANGED <<flags, val, count>>
  BY <1>1 DEF Deliver, q, both, woken
<1>9. blk \cup ToSet(woken) = blocked /\ blk \cap ToSet(woken) = {}
  BY <1>3
<1> HIDE DEF q, blk
<1>10. Split(q, blk, zombies, freed)
  BY <1>6, <1>9, KFacts DEF ListInv, BraidInv, TypeOK, Accounted, Split, Dead
<1>11. BraidInv'
  BY <1>8, <1>10, ScheduleAccounts DEF ListInv, BraidInv, TypeOK
<1>12. /\ blocked' = blk /\ zombies' \cup freed' = zombies \cup freed
       /\ phase' \in {"running", "returning"}
  BY <1>8, ScheduleLists
<1>13. /\ kevs' \in Seq(Kev) /\ UniqueUdata(kevs')
       /\ ToSet(kevs') = {k \in ToSet(kevs) : k.udata \notin Named(events, kn)}
  BY <1>1, <1>2, EntriesFacts, WithoutElements
<1>14. blocked' = blocked \ Named(events, kn)
  BY <1>2, <1>12 DEF blk
<1> QED BY <1>2, <1>3, <1>6, <1>7, <1>8, <1>11, <1>12, <1>13, <1>14 DEF Dead

(* Who comes back from fdwait reads the descriptor that its knote was for. *)
NewReader(c, events, kn) ==
  /\ c \in Named(events, kn) \cap blocked
  /\ \E f \in events \cap Fds : [udata |-> c, ident |-> f] \in ToSet(kevs)

LEMMA NewReadersRead ==
  ASSUME ListInv, phase = "running", NEW events, NEW kn,
         Reports(events, kn), Deliver(events, kn)
  PROVE  /\ \A c \in Cords : NewReader(c, events, kn) =>
                               toRead'[c] \in events \cap Fds /\ kn[toRead'[c]] = c
         /\ \A c \in Cords : ~NewReader(c, events, kn) => toRead'[c] = toRead[c]
         /\ toRead' \in [Cords -> Fds \cup {NULL}]
<1> DEFINE P(c, f) == [udata |-> c, ident |-> f] \in ToSet(kevs)
<1>1. toRead' = [c \in Cords |-> IF NewReader(c, events, kn)
                                   THEN CHOOSE f \in events : P(c, f)
                                   ELSE toRead[c]]
  BY DEF Deliver, NewReader
<1>2. ASSUME NEW c \in Cords, NewReader(c, events, kn)
      PROVE  toRead'[c] \in events \cap Fds /\ kn[toRead'[c]] = c
  <2>1. PICK g \in events \cap Fds : P(c, g)
    BY <1>2 DEF NewReader
  <2>2. PICK i \in events : kn[i] = c /\ P(c, i)
    BY <1>2, NamedFacts DEF NewReader, Named
  <2>3. \A h, k : P(c, h) /\ P(c, k) => h = k
    BY NamedFacts
  <2>4. toRead'[c] = CHOOSE f \in events : P(c, f)
    BY <1>1, <1>2
  <2> HIDE DEF P
  <2>5. toRead'[c] \in events /\ P(c, toRead'[c])
    BY <2>1, <2>4
  <2> QED BY <2>1, <2>2, <2>3, <2>5
<1>3. \A c \in Cords : ~NewReader(c, events, kn) => toRead'[c] = toRead[c]
  BY <1>1
<1>4. toRead' \in [Cords -> Fds \cup {NULL}]
  <2>1. toRead' = [c \in Cords |-> toRead'[c]]
    BY <1>1
  <2>2. \A c \in Cords : toRead'[c] \in Fds \cup {NULL}
    BY <1>2, <1>3 DEF ListInv, KTypeOK
  <2> QED BY <2>1, <2>2
<1> HIDE DEF P
<1> QED BY <1>2, <1>3, <1>4

(* The events are delivered: no knote and no entry is left behind.         *)
LEMMA DeliverKeepsList ==
  ASSUME ListInv, VisorPolls \/ VisorReturns
  PROVE  ListInv'
<1>1. /\ phase = "running" /\ curr = visor /\ elapsed' = {}
      /\ vpc # "start" /\ vpc' \in {"top", "waiting"}
  BY KeventReports
<1>2. PICK events, kn : Reports(events, kn) /\ Deliver(events, kn)
  BY KeventReports
<1>3. /\ knote' = [i \in Idents |-> IF i \in events THEN NULL ELSE kn[i]]
      /\ UNCHANGED <<count, visor, owner, cap, home, isBlocked, failed, ready>>
  BY <1>2 DEF Deliver
<1> DEFINE N == Named(events, kn)
<1>4. /\ BraidInv' /\ Dead' = Dead /\ phase' \in {"running", "returning"}
      /\ blocked' = blocked \ N
      /\ kevs' \in Seq(Kev) /\ UniqueUdata(kevs')
      /\ ToSet(kevs') = {k \in ToSet(kevs) : k.udata \notin N}
  BY <1>1, <1>2, DeliverFacts
<1>5. visor \in Cords /\ visor \notin blocked \cup Dead /\ visor # NULL
  BY <1>1, KFacts
<1>6. KTypeOK'
  <2>1. knote' \in [Idents -> Cords \cup {NULL}]
    BY <1>2, <1>3 DEF Reports, Listed
  <2>2. toRead' \in [Cords -> Fds \cup {NULL}]
    BY <1>1, <1>2, NewReadersRead
  <2> QED BY <1>1, <1>3, <1>4, <2>1, <2>2 DEF ListInv, KTypeOK
<1>7. VisorLives' /\ OwnerKnown' /\ IdleAtFirst' /\ HomeInVisor' /\ ElapsedKnown'
  BY <1>1, <1>3, <1>4 DEF ListInv, VisorLives, OwnerKnown, IdleAtFirst, HomeInVisor,
                          ElapsedKnown
<1>8. blocked' \ {visor'} = {k.udata : k \in ToSet(kevs)'} \ (zombies \cup freed)'
  <2>1. blocked \ {visor} = {k.udata : k \in ToSet(kevs)} \ Dead
    BY <1>1 DEF ListInv, KnotesListed, Dead
  <2> HIDE DEF N
  <2>2. {k.udata : k \in ToSet(kevs')} = {k.udata : k \in ToSet(kevs)} \ N
    BY <1>4
  <2>3. blocked' \ {visor} = {k.udata : k \in ToSet(kevs')} \ Dead
    BY <2>1, <2>2, <1>4
  <2> QED BY <2>3, <1>3, <1>4 DEF Dead
<1>9. ASSUME NEW i \in Idents, knote'[i] # NULL
      PROVE  [udata |-> knote'[i], ident |-> i] \in ToSet(kevs')
  <2>1. i \notin events /\ knote'[i] = kn[i] /\ kn[i] # NULL
    BY <1>3, <1>9
  <2> DEFINE e == [udata |-> kn[i], ident |-> i]
  <2>2. e \in ToSet(kevs) /\ e.udata = kn[i]
    BY <1>2, <2>1 DEF Reports, Listed
  <2>3. kn[i] \notin N
    <3> SUFFICES ASSUME kn[i] \in N PROVE FALSE
      OBVIOUS
    <3>1. PICK j \in events : kn[i] = kn[j]
      BY DEF Named
    <3>2. i = j
      BY <3>1, <1>1, <1>2, NamedFacts
    <3> QED BY <3>2, <2>1
  <2>4. e \in ToSet(kevs')
    <3> HIDE DEF e, N
    <3> QED BY <1>4, <2>2, <2>3
  <2> QED BY <2>1, <2>4
<1>10. visor = 0 => Alive'
  <2>1. freed' \subseteq Cords /\ NULL \notin Cords
    BY <1>4, NullAssumption DEF BraidInv, TypeOK, Cords
  <2>2. visor \notin freed'
    BY <1>3, <1>4, <1>7 DEF VisorLives, Dead
  <2> QED BY <1>3, <1>7, <2>1, <2>2 DEF HomeInVisor, Alive
<1>11. isBlocked <=> visor \in blocked
  BY <1>1 DEF ListInv, KnotesListed
<1>12. KnotesListed'
  <2>1. \A i \in Idents :
          knote'[i] # NULL => [udata |-> knote'[i], ident |-> i] \in ToSet(kevs)'
    BY <1>9
  <2> HIDE DEF N
  <2> QED BY <2>1, <1>3, <1>4, <1>5, <1>8, <1>10, <1>11 DEF KnotesListed, UniqueUdata
<1> QED BY <1>4, <1>6, <1>7, <1>12 DEF ListInv

-----------------------------------------------------------------------------
(* Run queues that keep the readers ahead of the visor.                    *)
LEMMA AheadLonger ==
  ASSUME NEW S, NEW q \in Seq(S), NEW t \in Seq(S), NEW P, NEW v, Ahead(q, P, v),
         Len(q) <= Len(t), \A i \in 1 .. Len(q) : t[i] = q[i],
         \A i \in 1 .. Len(t) : i > Len(q) => t[i] \notin P
  PROVE  Ahead(t, P, v)
<1>1. DOMAIN q = 1 .. Len(q) /\ DOMAIN t = 1 .. Len(t) /\ Len(q) \in Nat /\ Len(t) \in Nat
  BY LenProperties
<1>2. \A i \in 1 .. Len(t) : t[i] \in P => i \in 1 .. Len(q) /\ q[i] \in P
  BY <1>1
<1>3. \A i \in 1 .. Len(q) : q[i] \in P => \E j \in 1 .. Len(q) : q[j] = v /\ i < j
  BY <1>1 DEF Ahead
<1>4. \A i \in 1 .. Len(t) : t[i] \in P => \E j \in 1 .. Len(t) : t[j] = v /\ i < j
  BY <1>1, <1>2, <1>3
<1> QED BY <1>1, <1>4 DEF Ahead

LEMMA AheadConcat ==
  ASSUME NEW S, NEW q \in Seq(S), NEW t \in Seq(S), NEW P, NEW v, Ahead(q, P, v),
         ToSet(t) \cap P = {}
  PROVE  Ahead(q \o t, P, v)
<1> DEFINE u == q \o t
<1>1. /\ u \in Seq(S) /\ Len(u) = Len(q) + Len(t)
      /\ \A i \in 1 .. Len(q) + Len(t) : u[i] = IF i <= Len(q) THEN q[i] ELSE t[i - Len(q)]
      /\ Len(q) \in Nat /\ Len(t) \in Nat /\ DOMAIN t = 1 .. Len(t)
  BY ConcatProperties, LenProperties
<1> HIDE DEF u
<1>2. ASSUME NEW i \in 1 .. Len(u), i > Len(q) PROVE u[i] \notin P
  <2>1. i - Len(q) \in DOMAIN t /\ u[i] = t[i - Len(q)]
    BY <1>1, <1>2
  <2> QED BY <2>1 DEF ToSet
<1>3. Ahead(u, P, v)
  BY <1>1, <1>2, AheadLonger
<1> QED BY <1>3 DEF u

LEMMA AheadAppend ==
  ASSUME NEW S, NEW q \in Seq(S), NEW e \in S, NEW P, NEW v, Ahead(q, P, v), e \notin P
  PROVE  Ahead(Append(q, e), P, v)
<1>1. /\ Append(q, e) \in Seq(S) /\ Len(Append(q, e)) = Len(q) + 1
      /\ \A i \in 1 .. Len(q) : Append(q, e)[i] = q[i]
      /\ Append(q, e)[Len(q) + 1] = e
      /\ Len(q) \in Nat
  BY AppendProperties, LenProperties
<1> DEFINE t == Append(q, e)
<1> HIDE DEF t
<1>2. \A i \in 1 .. Len(t) : i > Len(q) => t[i] \notin P
  <2>1. \A i \in 1 .. Len(t) : i > Len(q) => i = Len(q) + 1
    BY <1>1 DEF t
  <2> QED BY <2>1, <1>1 DEF t
<1>3. t \in Seq(S) /\ Len(q) <= Len(t) /\ \A i \in 1 .. Len(q) : t[i] = q[i]
  BY <1>1 DEF t
<1>4. Ahead(t, P, v)
  BY <1>2, <1>3, AheadLonger
<1> QED BY <1>4 DEF t

LEMMA AheadRemoveAt ==
  ASSUME NEW S, NEW q \in Seq(S), NEW k \in DOMAIN q, NEW P, NEW v, Ahead(q, P, v), q[k] # v
  PROVE  /\ Ahead(RemoveAt(q, k), P, v)
         /\ v \in ToSet(q) => v \in ToSet(RemoveAt(q, k))
<1> DEFINE r == RemoveAt(q, k)
<1>1. /\ r \in Seq(S) /\ Len(r) = Len(q) - 1
      /\ \A j \in 1 .. Len(q) - 1 : r[j] = IF j < k THEN q[j] ELSE q[j + 1]
  BY RemoveAtShape
<1> HIDE DEF r
<1>2. /\ DOMAIN r = 1 .. Len(q) - 1 /\ DOMAIN q = 1 .. Len(q)
      /\ Len(q) \in Nat /\ k \in 1 .. Len(q)
  BY <1>1, LenProperties
<1>3. ASSUME NEW i \in DOMAIN r, r[i] \in P PROVE \E j \in DOMAIN r : r[j] = v /\ i < j
  <2> DEFINE a == IF i < k THEN i ELSE i + 1
  <2>1. a \in DOMAIN q /\ q[a] \in P /\ i <= a
    BY <1>1, <1>2, <1>3
  <2>2. PICK b \in DOMAIN q : q[b] = v /\ a < b
    BY <2>1 DEF Ahead
  <2>3. b # k
    BY <2>2
  <2> DEFINE j == IF b < k THEN b ELSE b - 1
  <2>4. j \in DOMAIN r /\ r[j] = v /\ i < j
    BY <2>1, <2>2, <2>3, <1>1, <1>2
  <2> QED BY <2>4
<1>4. ASSUME NEW b \in DOMAIN q, q[b] = v PROVE \E j \in DOMAIN r : r[j] = v
  <2> DEFINE j == IF b < k THEN b ELSE b - 1
  <2>1. j \in DOMAIN r /\ r[j] = v
    BY <1>1, <1>2, <1>4
  <2> QED BY <2>1
<1> QED BY <1>3, <1>4 DEF Ahead, ToSet, r

LEMMA AheadOfLast ==
  ASSUME NEW S, NEW q \in Seq(S), q # << >>, NEW P, q[Len(q)] \notin P
  PROVE  Ahead(q, P, q[Len(q)])
<1>1. DOMAIN q = 1 .. Len(q) /\ Len(q) \in Nat \ {0}
  BY LenProperties, EmptySeq
<1> QED BY <1>1 DEF Ahead

(* schedule(), called with the readers ahead of the visor, leaves them so. *)
LEMMA ReadersPass ==
  ASSUME NEW q \in Seq(Cords), NEW blk, NEW zom, NEW fre, Schedule(q, blk, zom, fre),
         Ahead(q, Pending', visor'),
         Pending' \cap blk = {},
         Pending' \subseteq (0 .. count' - 1) \ {visor'}
  PROVE  ReadersAhead' /\ Live' = ToSet(q)
<1>1. CASE KeepsRunning(q, blk) /\ SwitchTo(Head(q), Tail(q), blk, zom, fre)
  <2>1. q # << >>
    BY <1>1 DEF KeepsRunning
  <2>2. /\ phase' = "running" /\ curr' = Head(q) /\ runable' = Tail(q) /\ blocked' = blk
    BY <1>1 DEF SwitchTo
  <2>3. Running' = {Head(q)}
    BY <2>2 DEF Running
  <2>4. Live' = ToSet(q)
    BY <2>1, <2>2, <2>3, TailElements DEF Live
  <2>5. /\ Len(q) \in Nat \ {0} /\ DOMAIN q = 1 .. Len(q) /\ Head(q) = q[1]
        /\ DOMAIN Tail(q) = 1 .. Len(q) - 1
        /\ \A i \in 1 .. Len(q) - 1 : Tail(q)[i] = q[i + 1]
    BY <2>1, HeadTailProperties, LenProperties, EmptySeq
  <2> DEFINE t == Tail(q)
  <2> HIDE DEF t
  <2>6. ASSUME NEW i \in DOMAIN q, q[i] \in Pending'
        PROVE  \E j \in DOMAIN t : t[j] = visor' /\ i < j + 1
    <3>1. PICK j \in DOMAIN q : q[j] = visor' /\ i < j
      BY <2>6 DEF Ahead
    <3>2. j - 1 \in DOMAIN t /\ t[j - 1] = visor' /\ i < (j - 1) + 1
      BY <2>5, <3>1 DEF t
    <3> QED BY <3>2
  <2>7. Pending' \cap Running' # {} => visor' \in ToSet(t)
    BY <2>3, <2>5, <2>6 DEF ToSet
  <2>8. Ahead(t, Pending', visor')
    <3> SUFFICES ASSUME NEW i \in DOMAIN t, t[i] \in Pending'
                 PROVE  \E j \in DOMAIN t : t[j] = visor' /\ i < j
      BY DEF Ahead
    <3>1. i + 1 \in DOMAIN q /\ q[i + 1] \in Pending'
      BY <2>5 DEF t
    <3>2. PICK j \in DOMAIN t : t[j] = visor' /\ i + 1 < j + 1
      BY <3>1, <2>6
    <3> QED BY <3>2, <2>5 DEF t
  <2>9. runable' = t
    BY <2>2 DEF t
  <2> QED BY <2>2, <2>4, <2>7, <2>8, <2>9 DEF ReadersAhead
<1>2. CASE ~KeepsRunning(q, blk) /\ ReturnToStart(q, blk, zom, fre)
  <2>1. phase' = "returning" /\ runable' = q /\ blocked' = blk
    BY <1>2 DEF ReturnToStart
  <2>2. Running' = {}
    BY <2>1 DEF Running
  <2> QED BY <2>1, <2>2 DEF ReadersAhead, Live
<1> QED BY <1>1, <1>2 DEF Schedule

(* The input of the readers is still there, and each has its own, when no  *)
(* reader joins them.                                                      *)
ReadersServed == ReadFindsInput /\ ReadersApart

LEMMA LiveStayCords ==
  ASSUME BraidInv'
  PROVE  Live' \subseteq Cords
<1>1. count' \in 0 .. MaxCords
  BY DEF BraidInv, TypeOK
<1>2. 0 .. count' - 1 \subseteq Cords
  <2>1. \A n \in 0 .. MaxCords : 0 .. n - 1 \subseteq 0 .. MaxCords - 1
    BY MaxCordsAssumption
  <2> QED BY <1>1, <2>1 DEF Cords
<1>3. Live' \subseteq 0 .. count' - 1
  BY DEF BraidInv, Accounted, Live
<1> QED BY <1>2, <1>3

LEMMA ReadersStayServed ==
  ASSUME KInv, BraidInv', toRead' = toRead, ready \subseteq ready',
         Pending \cap Live' \subseteq Live
  PROVE  ReadersServed'
<1>1. Pending' = Pending
  BY DEF Pending
<1>2. \A c \in Pending \cap Live : toRead[c] \in ready
  BY DEF KInv, ReadFindsInput, Live, Pending
<1>3. \A c \in Live' : toRead[c] # NULL => toRead[c] \in ready'
  BY <1>2, LiveStayCords DEF Pending
<1>4. ReadFindsInput'
  BY <1>3 DEF ReadFindsInput, Live
<1>5. ReadersApart'
  BY <1>1 DEF KInv, ReadersApart
<1> QED BY <1>4, <1>5 DEF ReadersServed

(* A call that ends in schedule() and makes no reader.                     *)
LEMMA ScheduledReaders ==
  ASSUME KInv, BraidInv', UNCHANGED <<toRead, ready, visor, count>>,
         NEW q \in Seq(Cords), NEW blk, NEW zom, NEW fre, Schedule(q, blk, zom, fre),
         Ahead(q, Pending, visor), Pending \cap blk = {}, Pending \cap ToSet(q) \subseteq Live
  PROVE  ReadersAhead' /\ ReadersServed'
<1>1. Pending' = Pending
  BY DEF Pending
<1>2. Pending \subseteq (0 .. count - 1) \ {visor}
  BY DEF KInv, ReadersAhead
<1>3. ReadersAhead' /\ Live' = ToSet(q)
  BY <1>1, <1>2, ReadersPass
<1> QED BY <1>3, ReadersStayServed

(* While the visor runs no cord is about to read.                          *)
LEMMA VisorRunsLast ==
  ASSUME KInv, phase = "running", curr = visor
  PROVE  Pending \cap Live = {} /\ Live = ToSet(runable) \cup {visor}
<1>1. Running = {curr} /\ curr \notin ToSet(runable)
  BY KFacts DEF KInv
<1>2. Pending \cap ToSet(runable) = {}
  BY <1>1 DEF KInv, ReadersAhead, Ahead, ToSet
<1> QED BY <1>1, <1>2 DEF KInv, ReadersAhead, Live

LEMMA AddedReaders ==
  ASSUME KInv, BraidInv', AddVisor \/ AddCord
  PROVE  ReadersAhead' /\ ReadersServed'
<1>1. /\ runable' = Append(runable, count) /\ count' = count + 1 /\ count \in Cords
      /\ UNCHANGED <<phase, curr, blocked, toRead, ready>>
  <2>1. NextId = count
    BY NextIdIsCount DEF KInv, ListInv, BraidInv
  <2> QED BY <2>1 DEF AddVisor, AddCord, Add, kVars, kernelVars
<1>2. runable \in Seq(Cords)
  BY KFacts DEF KInv
<1>3. /\ runable' \in Seq(Cords) /\ ToSet(runable') = ToSet(runable) \cup {count}
      /\ runable' # << >> /\ runable'[Len(runable')] = count
  BY <1>1, <1>2, AppendElements, AppendProperties
<1>4. Pending' = Pending /\ Running' = Running
  BY <1>1 DEF Pending, Running
<1>5. /\ Pending \subseteq (0 .. count - 1) \ {visor} /\ count \notin Pending
      /\ 0 .. count - 1 \subseteq 0 .. count' - 1
  BY <1>1, MaxCordsAssumption DEF KInv, ReadersAhead, Cords
<1>6. Pending \cap Live' \subseteq Live
  BY <1>3, <1>4, <1>5 DEF Live
<1>7. ReadersServed'
  BY <1>1, <1>6, ReadersStayServed
<1>8. CASE AddVisor
  <2>1. visor' = count /\ phase = "init"
    BY <1>8, NextIdIsCount DEF AddVisor, KInv, ListInv, BraidInv
  <2>2. Ahead(runable', Pending, count)
    BY <1>3, <1>5, AheadOfLast
  <2>3. Running' = {}
    BY <2>1, <1>4 DEF Running
  <2> QED BY <2>1, <2>2, <2>3, <1>1, <1>4, <1>5, <1>7 DEF KInv, ReadersAhead
<1>9. CASE AddCord
  <2>1. visor' = visor
    BY <1>9 DEF AddCord, kVars
  <2>2. Ahead(runable', Pending, visor)
    BY <1>1, <1>2, <1>5, AheadAppend DEF KInv, ReadersAhead
  <2> QED BY <2>1, <2>2, <1>1, <1>3, <1>4, <1>5, <1>7 DEF KInv, ReadersAhead
<1> QED BY <1>8, <1>9

LEMMA StartedReaders ==
  ASSUME KInv, BraidInv', KStart
  PROVE  ReadersAhead' /\ ReadersServed'
<1>1. /\ Schedule(runable, blocked, zombies, freed)
      /\ UNCHANGED <<toRead, ready, visor, count>>
  BY DEF KStart, Start, kVars, kernelVars
<1>2. runable \in Seq(Cords) /\ ToSet(runable) \subseteq Live
  BY KFacts DEF KInv, Live
<1> QED BY <1>1, <1>2, ScheduledReaders DEF KInv, ReadersAhead

LEMMA AwaitingReaders ==
  ASSUME KInv, BraidInv', NEW i, Await(i)
  PROVE  ReadersAhead' /\ ReadersServed'
<1> DEFINE q == runable \o Wakes
           blk == (blocked \ ToSet(Wakes)) \cup {curr}
<1>1. /\ Schedule(q, blk, zombies, freed) /\ phase = "running"
      /\ curr \notin Pending
      /\ UNCHANGED <<toRead, ready, visor, count>>
  BY DEF Await, Free, InCord, Pending, kernelVars
<1>2. /\ Wakes \in Seq(Cords) /\ ToSet(Wakes) = blocked \cap {visor}
      /\ runable \in Seq(Cords)
  BY <1>1, WakesTheVisor, KFacts DEF KInv
<1>3. Pending \cap ToSet(Wakes) = {} /\ Pending \cap blk = {}
  BY <1>1, <1>2 DEF KInv, ReadersAhead
<1>4. q \in Seq(Cords) /\ ToSet(q) = ToSet(runable) \cup ToSet(Wakes)
  BY <1>2, ConcatElements
<1>5. Ahead(q, Pending, visor)
  BY <1>2, <1>3, AheadConcat DEF KInv, ReadersAhead
<1>6. Pending \cap ToSet(q) \subseteq Live
  BY <1>3, <1>4 DEF Live
<1> HIDE DEF q, blk
<1> QED BY <1>1, <1>3, <1>4, <1>5, <1>6, ScheduledReaders

LEMMA YieldingReaders ==
  ASSUME KInv, BraidInv', Yield, curr \notin Pending,
         UNCHANGED <<toRead, ready, visor>>
  PROVE  ReadersAhead' /\ ReadersServed'
<1> DEFINE q == Append(runable, curr)
<1>1. /\ Schedule(q, blocked, zombies, freed) /\ phase = "running" /\ count' = count
      /\ runable \in Seq(Cords) /\ curr \in Cords
  BY KFacts DEF KInv, Yield
<1>2. q \in Seq(Cords) /\ ToSet(q) = ToSet(runable) \cup {curr}
  BY <1>1, AppendElements
<1>3. Ahead(q, Pending, visor)
  BY <1>1, AheadAppend DEF KInv, ReadersAhead
<1>4. Pending \cap blocked = {} /\ Pending \cap ToSet(q) \subseteq Live
  BY <1>2 DEF KInv, ReadersAhead, Live
<1> HIDE DEF q
<1> QED BY <1>1, <1>2, <1>3, <1>4, ScheduledReaders

LEMMA OtherReaders ==
  ASSUME KInv, BraidInv', KOthers
  PROVE  ReadersAhead' /\ ReadersServed'
<1>1. /\ curr \notin Pending /\ UNCHANGED <<toRead, ready, visor>>
  BY DEF KOthers, Free, Pending, kVars, kernelVars
<1>2. runable \in Seq(Cords) /\ ToSet(runable) \subseteq Live
  BY KFacts DEF KInv, Live
<1>3. CASE Yield
  BY <1>1, <1>3, YieldingReaders
<1>4. CASE Exit
  <2>1. Schedule(runable, blocked, zombies \cup {curr}, freed) /\ count' = count
    BY <1>4 DEF Exit
  <2> QED BY <2>1, <1>1, <1>2, ScheduledReaders DEF KInv, ReadersAhead
<1>5. CASE \E c \in Cords \ {visor} : Halt(c)
  <2>1. PICK c \in Cords \ {visor} : Halt(c)
    BY <1>5
  <2>2. UNCHANGED <<phase, curr, count>> /\ Running' = Running /\ Pending' = Pending
        /\ blocked' \subseteq blocked
    BY <2>1, <1>1 DEF Halt, HaltRunable, HaltBlocked, Running, Pending
  <2>3. /\ Ahead(runable', Pending, visor)
        /\ visor \in ToSet(runable) => visor \in ToSet(runable')
        /\ ToSet(runable') \subseteq ToSet(runable)
    <3>1. CASE HaltRunable(c)
      <4>1. PICK k \in DOMAIN runable : runable[k] = c /\ runable' = RemoveAt(runable, k)
        BY <3>1 DEF HaltRunable
      <4>2. ToSet(runable') = ToSet(runable) \ {c}
        BY <4>1, KFacts, RemoveAtElements DEF KInv
      <4> QED BY <4>1, <4>2, <2>1, <1>2, AheadRemoveAt DEF KInv, ReadersAhead
    <3>2. CASE HaltBlocked(c)
      BY <3>2 DEF HaltBlocked, KInv, ReadersAhead
    <3> QED BY <2>1, <3>1, <3>2 DEF Halt
  <2>4. ReadersAhead'
    BY <1>1, <2>2, <2>3 DEF KInv, ReadersAhead
  <2>5. ReadersServed'
    BY <1>1, <2>2, <2>3, ReadersStayServed DEF Live
  <2> QED BY <2>4, <2>5
<1> QED BY <1>3, <1>4, <1>5 DEF KOthers

(* The visor gives up the processor, or goes to sleep.                     *)
LEMMA VisorLeavesReaders ==
  ASSUME KInv, BraidInv', VisorSleeps \/ Interrupted
  PROVE  ReadersAhead' /\ ReadersServed'
<1>1. /\ phase = "running" /\ curr = visor /\ visor \notin Pending
      /\ UNCHANGED <<toRead, ready, visor>>
  BY DEF VisorSleeps, Interrupted, InVisor, kernelVars, KInv, ReadersAhead
<1>2. CASE VisorSleeps
  <2>1. Schedule(runable, blocked \cup {curr}, zombies, freed) /\ count' = count
    BY <1>2 DEF VisorSleeps, Block
  <2>2. runable \in Seq(Cords) /\ ToSet(runable) \subseteq Live
    BY KFacts DEF KInv, Live
  <2>3. Pending \cap (blocked \cup {curr}) = {}
    BY <1>1 DEF KInv, ReadersAhead
  <2> QED BY <1>1, <2>1, <2>2, <2>3, ScheduledReaders DEF KInv, ReadersAhead
<1>3. CASE Interrupted
  <2>1. Yield
    BY <1>3 DEF Interrupted
  <2> QED BY <1>1, <2>1, YieldingReaders
<1> QED BY <1>2, <1>3

(* read(2) takes the input of the reader, and of no other.                 *)
LEMMA ReadingReaders ==
  ASSUME KInv, BraidInv', Read
  PROVE  ReadersAhead' /\ ReadersServed'
<1>1. /\ phase = "running" /\ curr \in Cords /\ curr \in Pending \cap Live
      /\ UNCHANGED <<phase, curr, runable, blocked, count, visor>>
      /\ ready' = ready \/ ready' = ready \ {toRead[curr]}
      /\ toRead' = [toRead EXCEPT ![curr] = NULL]
  BY KFacts DEF KInv, Read, InCord, vars, Pending, Live
<1>2. toRead \in [Cords -> Fds \cup {NULL}]
  BY DEF KInv, ListInv, KTypeOK
<1>3. /\ Pending' = Pending \ {curr} /\ Running' = Running /\ Live' = Live
      /\ \A c \in Pending' : toRead'[c] = toRead[c]
  BY <1>1, <1>2 DEF Pending, Running, Live
<1>4. ReadersAhead'
  BY <1>1, <1>3 DEF KInv, ReadersAhead, Ahead
<1>5. \A c \in Pending \cap Live : toRead[c] \in ready
  BY DEF KInv, ReadFindsInput, Live, Pending
<1>6. \A c \in Pending' \cap Live' : toRead'[c] \in ready'
  BY <1>1, <1>3, <1>5 DEF KInv, ReadersApart
<1>7. \A c \in Live' : toRead'[c] # NULL => toRead'[c] \in ready'
  BY <1>6, LiveStayCords DEF Pending
<1>8. ReadFindsInput'
  BY <1>7 DEF ReadFindsInput, Live
<1>9. ReadersApart'
  BY <1>1, <1>3 DEF KInv, ReadersApart
<1> QED BY <1>4, <1>8, <1>9 DEF ReadersServed

(* The other steps that leave the scheduler alone read nothing.            *)
LEMMA StandingReaders ==
  ASSUME KInv, BraidInv', StandStill, ~Read
  PROVE  ReadersAhead' /\ ReadersServed'
<1>1. /\ UNCHANGED <<phase, curr, runable, blocked, count, visor>>
  BY StandStillFacts DEF KInv
<1>2. toRead' = toRead /\ ready \subseteq ready'
  BY DEF StandStill, AwaitFails, VisorStarts, VisorWaits, InputArrives, TimerExpires,
         allVars, kVars, kernelVars
<1>3. Pending' = Pending /\ Running' = Running /\ Live' = Live
  BY <1>1, <1>2 DEF Pending, Running, Live
<1>4. ReadersAhead'
  BY <1>1, <1>3 DEF KInv, ReadersAhead
<1>5. ReadersServed'
  BY <1>2, <1>3, ReadersStayServed
<1> QED BY <1>4, <1>5

(* The visor makes new readers: all are ahead of it, their descriptors are *)
(* ready, and no two have the same one.                                    *)
LEMMA DeliveredReaders ==
  ASSUME KInv, BraidInv', VisorPolls \/ VisorReturns
  PROVE  ReadersAhead' /\ ReadersServed'
<1> USE DEF KInv
<1>1. phase = "running" /\ curr = visor
  BY KeventReports
<1>2. PICK events, kn : Reports(events, kn) /\ Deliver(events, kn)
  BY KeventReports
<1>3. UNCHANGED <<count, visor, ready>>
  BY <1>2 DEF Deliver
<1> DEFINE N == Named(events, kn)
           New == {c \in Cords : NewReader(c, events, kn)}
<1>4. /\ blocked' = blocked \ N
      /\ \E q \in Seq(Cords) : /\ Schedule(q, blocked', zombies, freed)
                               /\ ToSet(q) = ToSet(runable) \cup (N \cap blocked) \cup {visor}
                               /\ q # << >> /\ q[Len(q)] = visor
  BY <1>1, <1>2, DeliverFacts
<1>5. PICK q \in Seq(Cords) : /\ Schedule(q, blocked', zombies, freed)
                              /\ ToSet(q) = ToSet(runable) \cup (N \cap blocked) \cup {visor}
                              /\ q # << >> /\ q[Len(q)] = visor
  BY <1>4
<1>6. /\ \A c \in New : toRead'[c] \in events \cap Fds /\ kn[toRead'[c]] = c
      /\ \A c \in Cords \ New : toRead'[c] = toRead[c]
  BY <1>1, <1>2, NewReadersRead
<1>7. New \subseteq N \cap blocked /\ visor \notin blocked /\ blocked \subseteq 0 .. count - 1
  BY <1>1, KFacts DEF NewReader, ListInv, BraidInv, Accounted
<1>8. events \cap Fds \subseteq ready
  BY <1>2 DEF Reports
<1> HIDE DEF N, New
<1>9. NULL \notin Fds
  BY KqueueAssumption
<1>10. Pending' = Pending \cup New
  <2>1. New \subseteq Cords
    BY DEF New
  <2> QED BY <2>1, <1>6, <1>9 DEF Pending
<1>11. /\ Pending' \subseteq (0 .. count' - 1) \ {visor'}
       /\ Pending' \cap blocked' = {}
  BY <1>3, <1>4, <1>7, <1>10 DEF ReadersAhead
<1>12. Ahead(q, Pending', visor')
  <2>1. q[Len(q)] \notin Pending'
    BY <1>3, <1>5, <1>11
  <2>2. Ahead(q, Pending', q[Len(q)])
    BY <1>5, <2>1, AheadOfLast
  <2> QED BY <2>2, <1>3, <1>5
<1>13. ReadersAhead' /\ Live' = ToSet(q)
  BY <1>5, <1>11, <1>12, ReadersPass
<1>14. Pending' \cap Live' \subseteq New
  <2>1. Pending \cap (ToSet(runable) \cup {visor}) = {} /\ Pending \cap blocked = {}
    BY <1>1, VisorRunsLast DEF ReadersAhead
  <2> QED BY <2>1, <1>5, <1>10, <1>13
<1>15. \A c \in Live' : toRead'[c] # NULL => toRead'[c] \in ready'
  <2>1. \A c \in Live' : toRead'[c] # NULL => c \in New
    BY <1>14, LiveStayCords DEF Pending
  <2> QED BY <2>1, <1>3, <1>6, <1>8
<1>16. ReadFindsInput'
  BY <1>15 DEF ReadFindsInput, Live
<1>17. \A c, d \in Pending' \cap Live' : toRead'[c] = toRead'[d] => c = d
  BY <1>6, <1>14
<1>18. ReadersApart'
  BY <1>17 DEF ReadersApart
<1> QED BY <1>13, <1>16, <1>18 DEF ReadersServed

LEMMA ReturnedReaders ==
  ASSUME KInv, BraidInv', KReturn
  PROVE  ReadersAhead' /\ ReadersServed'
<1>1. /\ phase' = "done" /\ runable' = << >> /\ blocked' = {}
      /\ UNCHANGED <<count, visor, toRead, ready>>
  BY DEF KReturn, Return, kVars, kernelVars
<1>2. Pending' = Pending /\ Running' = {} /\ ToSet(runable') = {} /\ Live' = {}
  BY <1>1 DEF Pending, Running, ToSet, Live
<1>3. ReadersAhead'
  BY <1>1, <1>2 DEF KInv, ReadersAhead, Ahead
<1>4. ReadersServed'
  BY <1>1, <1>2, ReadersStayServed
<1> QED BY <1>3, <1>4

-----------------------------------------------------------------------------
LEMMA KInvInit == KInit => KInv
<1> SUFFICES ASSUME KInit PROVE KInv
  OBVIOUS
<1>1. Init /\ BraidInv
  BY BraidInvInit DEF KInit
<1>2. 0 \in Cords /\ NULL \notin Cords /\ NULL # 0
  BY MaxCordsAssumption, NullAssumption DEF Cords
<1>3. ToSet(<< >>) = {} /\ << >> \in Seq(Kev)
  BY DEF ToSet
<1>4. KTypeOK
  BY <1>2, <1>3 DEF KInit, KTypeOK
<1>5. phase = "init" /\ blocked = {} /\ zombies = {} /\ freed = {} /\ runable = << >>
  BY <1>1 DEF Init
<1>6. KnotesListed
  BY <1>3, <1>5 DEF KInit, KnotesListed, Alive
<1>7. ListInv
  BY <1>1, <1>2, <1>4, <1>5, <1>6
     DEF KInit, ListInv, VisorLives, OwnerKnown, IdleAtFirst, HomeInVisor, ElapsedKnown, Dead
<1>8. Pending = {} /\ Running = {} /\ Live = {}
  BY <1>3, <1>5 DEF KInit, Pending, Running, Live
<1>9. ReadFindsInput /\ ReadersAhead /\ ReadersApart
  BY <1>5, <1>8 DEF ReadFindsInput, ReadersAhead, ReadersApart, Ahead, Live
<1> QED BY <1>7, <1>9 DEF KInv

LEMMA ListStep == ListInv /\ [KNext]_allVars => ListInv'
<1> SUFFICES ASSUME ListInv, [KNext]_allVars PROVE ListInv'
  OBVIOUS
<1>1. CASE AddVisor
  BY <1>1, AddVisorKeepsList
<1>2. CASE AddCord
  BY <1>2, AddCordKeepsList
<1>3. CASE KStart
  BY <1>3, KStartKeepsList
<1>4. CASE FdWait \/ (Sleep /\ Free)
  <2>1. PICK i \in Idents : Await(i)
    BY <1>4, KFacts DEF FdWait, Sleep, Idents, Free, InCord
  <2> QED BY <2>1, AwaitKeepsList
<1>5. CASE KOthers
  BY <1>5, KOthersKeepList
<1>6. CASE VisorSleeps
  BY <1>6, VisorSleepsKeepsList
<1>7. CASE VisorPolls \/ VisorReturns
  BY <1>7, DeliverKeepsList
<1>8. CASE Interrupted
  BY <1>8, InterruptedKeepsList
<1>9. CASE StandStill
  BY <1>9, StandStillKeepsList
<1>10. CASE KReturn
  BY <1>10, KReturnKeepsList
<1> QED BY <1>1, <1>2, <1>3, <1>4, <1>5, <1>6, <1>7, <1>8, <1>9, <1>10
        DEF KNext, Over, StandStill, Sleep, Await

LEMMA KInvStep == KInv /\ [KNext]_allVars => KInv'
<1> SUFFICES ASSUME KInv, [KNext]_allVars PROVE KInv'
  OBVIOUS
<1>1. ListInv' /\ BraidInv'
  <2>1. ListInv'
    BY ListStep DEF KInv
  <2> QED BY <2>1 DEF ListInv
<1> SUFFICES ReadersAhead' /\ ReadersServed'
  BY <1>1 DEF KInv, ReadersServed
<1>2. CASE AddVisor \/ AddCord
  BY <1>1, <1>2, AddedReaders
<1>3. CASE KStart
  BY <1>1, <1>3, StartedReaders
<1>4. CASE FdWait \/ Sleep
  BY <1>1, <1>4, AwaitingReaders DEF FdWait, Sleep
<1>5. CASE KOthers
  BY <1>1, <1>5, OtherReaders
<1>6. CASE VisorSleeps \/ Interrupted
  BY <1>1, <1>6, VisorLeavesReaders
<1>7. CASE VisorPolls \/ VisorReturns
  BY <1>1, <1>7, DeliveredReaders
<1>8. CASE Read
  BY <1>1, <1>8, ReadingReaders
<1>9. CASE StandStill /\ ~Read
  BY <1>1, <1>9, StandingReaders
<1>10. CASE KReturn
  BY <1>1, <1>10, ReturnedReaders
<1> QED BY <1>2, <1>3, <1>4, <1>5, <1>6, <1>7, <1>8, <1>9, <1>10 DEF KNext, Over, StandStill

(* The inductive invariant of the kqueue visor.                            *)
THEOREM KqueueInvariant == KSpec => []KInv
<1> QED BY KInvInit, KInvStep, PTL DEF KSpec

(* Whoever waits in fdwait or cknsleep is in the list once and the visor   *)
(* is awake; a knote belongs to an entry, so that no event is reported to  *)
(* a cord that has gone on; a visor that was added first never fails to    *)
(* grow the list.                                                          *)
THEOREM KnotesAlwaysListed == KSpec => []KnotesListed
<1>1. KInv => KnotesListed
  BY DEF KInv, ListInv
<1> QED BY <1>1, KqueueInvariant, PTL

(* However many cords wait for one descriptor, the one that comes back     *)
(* from fdwait finds the input there.                                      *)
THEOREM ReadAlwaysFindsInput == KSpec => []ReadFindsInput
<1>1. KInv => ReadFindsInput
  BY DEF KInv
<1> QED BY <1>1, KqueueInvariant, PTL
=============================================================================
