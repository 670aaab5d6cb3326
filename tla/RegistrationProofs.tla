------------------------- MODULE RegistrationProofs -------------------------
(***************************************************************************)
(* The shared stack of the register functions, for every grammar.  The      *)
(* agenda holds one pop for each type on ty_map_stack, the innermost first; *)
(* each step takes the first job off and puts at most a pop among new jobs, *)
(* and that only together with a push.  A register to come is always the    *)
(* next job, and its type was not known when it was asked for.              *)
(* And the graph the walk leaves: what a type holds is recorded or promised *)
(* by a job to come from the moment the type is known, so that nothing is   *)
(* missing, and nothing is there that is not owed, when no job is left.     *)
(***************************************************************************)
EXTENDS Registration, FiniteSetTheorems, WellFoundedInduction, TLAPS

JobSet ==
  {j \in [do : {"visit", "register", "variants", "unit", "pop"},
          parent : Types \cup {RootId}, variant : Nat, ty : Ids] :
     /\ j.do # "unit" => j.ty \in Types
     /\ j.do = "unit" => j.parent \in Types
     /\ j.do = "variants" => Walked(j.ty) /\ j.variant \in Variants(j.ty)}

AgendaOK ==
  /\ agenda \in Seq(JobSet)
  /\ \A i \in 2 .. Len(agenda) : agenda[i].do # "register"

HeadIsNew == At("register") => ~ is_recursive(Job.ty)

RegInv == RegTypeOK /\ AgendaOK /\ HeadIsNew /\ PopsMatch

----------------------------------------------------------------------------
(* The first element of a sequence is replaced by new ones.                 *)
LEMMA Replaced ==
  ASSUME NEW S, NEW old \in Seq(S), old # << >>, NEW new \in Seq(S)
  PROVE  /\ new \o Tail(old) \in Seq(S)
         /\ Len(new \o Tail(old)) = Len(new) + Len(old) - 1
         /\ \A i \in 1 .. Len(new) : (new \o Tail(old))[i] = new[i]
         /\ \A i \in 2 .. Len(old) : (new \o Tail(old))[i + (Len(new) - 1)] = old[i]
         /\ Len(new) \in Nat /\ Len(old) \in Nat \ {0}
  <1> DEFINE rest == Tail(old)
  <1>1. /\ rest \in Seq(S) /\ Len(rest) = Len(old) - 1
        /\ \A i \in 2 .. Len(old) : rest[i - 1] = old[i]
    OBVIOUS
  <1>2. Len(new) \in Nat /\ Len(old) \in Nat \ {0}
    OBVIOUS
  <1> HIDE DEF rest
  <1>3. /\ new \o rest \in Seq(S) /\ Len(new \o rest) = Len(new) + Len(rest)
        /\ \A i \in 1 .. Len(new) : (new \o rest)[i] = new[i]
    <2>1. rest \in Seq(S)
      BY <1>1
    <2>2. new \o rest \in Seq(S) /\ Len(new \o rest) = Len(new) + Len(rest)
      BY <2>1
    <2>3. ASSUME NEW i \in 1 .. Len(new) PROVE (new \o rest)[i] = new[i]
      BY <2>1, <1>2
    <2> QED
      BY <2>2, <2>3
  <1>4. ASSUME NEW i \in 2 .. Len(old) PROVE (new \o rest)[i + (Len(new) - 1)] = old[i]
    <2>1. i - 1 \in 1 .. Len(rest)
      BY <1>1, <1>2
    <2>2. (new \o rest)[Len(new) + (i - 1)] = rest[i - 1]
      BY <1>1, <1>2, <2>1
    <2> QED
      BY <1>1, <1>2, <2>2
  <1> QED
    BY <1>1, <1>2, <1>3, <1>4 DEF rest

LEMMA HeadIsAJob ==
  ASSUME agenda \in Seq(JobSet), agenda # << >>
  PROVE  Job \in JobSet /\ Job = agenda[1]
  BY DEF Job

(* How far the jobs behind the first one move                               *)
Shift(new) == Len(new) - 1

(* Where the pops of the agenda are once new jobs replace the first one.    *)
LEMMA PopsShifted ==
  ASSUME agenda \in Seq(JobSet), agenda # << >>,
         NEW new \in Seq(JobSet), agenda' = new \o Rest
  PROVE  /\ Shift(new) \in Int /\ Len(new) \in Nat /\ Len(new) = Shift(new) + 1
         /\ \A i \in Pops : i \in Int /\ i >= 1
         /\ \A i \in Pops' : i \in Int /\ i >= 1
         /\ \A i \in Pops \ {1} : i + Shift(new) \in Pops' /\ agenda'[i + Shift(new)] = agenda[i]
         /\ \A i \in Pops' : i <= Len(new) => agenda'[i] = new[i] /\ new[i].do = "pop"
         /\ \A i \in Pops' : i > Len(new) => i - Shift(new) \in Pops \ {1}
         /\ \A i \in 1 .. Len(new) : new[i].do = "pop" => i \in Pops' /\ agenda'[i] = new[i]
         /\ 1 \in Pops <=> Job.do = "pop"
  <1>1. /\ Len(agenda') = Shift(new) + Len(agenda)
        /\ Len(new) = Shift(new) + 1
        /\ \A i \in 1 .. Len(new) : agenda'[i] = new[i]
        /\ \A i \in 2 .. Len(agenda) : agenda'[i + Shift(new)] = agenda[i]
        /\ Shift(new) \in Int /\ Shift(new) >= -1 /\ Len(agenda) \in Nat \ {0}
    BY Replaced DEF Rest, Shift
  <1>2. /\ \A i \in Pops : i \in 1 .. Len(agenda) /\ agenda[i].do = "pop"
        /\ \A i \in Pops' : i \in 1 .. Len(agenda') /\ agenda'[i].do = "pop"
    BY DEF Pops
  <1>3. ASSUME NEW i \in Pops \ {1}
        PROVE  i + Shift(new) \in Pops' /\ agenda'[i + Shift(new)] = agenda[i]
    <2>1. i \in 2 .. Len(agenda)
      BY <1>1, <1>2
    <2>2. agenda'[i + Shift(new)] = agenda[i]
      BY <1>1, <2>1
    <2>3. i + Shift(new) \in 1 .. Len(agenda')
      BY <1>1, <2>1
    <2> QED
      BY <1>2, <2>2, <2>3 DEF Pops
  <1>4. ASSUME NEW i \in Pops', i > Len(new) PROVE i - Shift(new) \in Pops \ {1}
    <2> DEFINE m == i - Shift(new)
    <2>1. m \in 2 .. Len(agenda) /\ m + Shift(new) = i
      BY <1>1, <1>2, <1>4
    <2> HIDE DEF m
    <2>2. agenda'[m + Shift(new)] = agenda[m]
      BY <1>1, <2>1
    <2>3. agenda[m].do = "pop" /\ m \in 1 .. Len(agenda) /\ m # 1
      BY <1>1, <1>2, <2>1, <2>2
    <2> QED
      BY <2>3 DEF Pops, m
  <1>5. ASSUME NEW i \in Pops', i <= Len(new) PROVE agenda'[i] = new[i] /\ new[i].do = "pop"
    <2>1. i \in 1 .. Len(new)
      BY <1>1, <1>2, <1>5
    <2> QED
      BY <1>1, <1>2, <2>1
  <1>6. ASSUME NEW i \in 1 .. Len(new), new[i].do = "pop" PROVE i \in Pops' /\ agenda'[i] = new[i]
    <2>1. agenda'[i] = new[i]
      BY <1>1
    <2>2. i \in 1 .. Len(agenda')
      BY <1>1
    <2> QED
      BY <1>6, <2>1, <2>2 DEF Pops
  <1>7. 1 \in Pops <=> Job.do = "pop"
    BY <1>1, HeadIsAJob DEF Pops
  <1> QED
    BY <1>1, <1>2, <1>3, <1>4, <1>5, <1>6, <1>7

(* The places of the pops that belong to the types on ty_map_stack          *)
Places(place, n) ==
  /\ place \in [1 .. n -> Pops]
  /\ \A j, k \in 1 .. n : j < k => place[k] < place[j]
  /\ \A i \in Pops : \E k \in 1 .. n : place[k] = i
  /\ \A k \in 1 .. n : agenda[place[k]].ty = ty_map_stack[k]

LEMMA PopsAtPlaces ==
  /\ PopsMatch <=> \E place : Places(place, Len(ty_map_stack))
  /\ PopsMatch' <=> \E place : Places(place, Len(ty_map_stack))'
  BY DEF PopsMatch, Places

(* New jobs that hold no pop leave the pops as they are, further down.      *)
LEMMA PopsMoved ==
  ASSUME agenda \in Seq(JobSet), agenda # << >>, Job.do # "pop", PopsMatch,
         ty_map_stack \in Seq(Types),
         NEW new \in Seq(JobSet), \A i \in 1 .. Len(new) : new[i].do # "pop",
         agenda' = new \o Rest, UNCHANGED ty_map_stack
  PROVE  PopsMatch'
  <1> DEFINE n == Len(ty_map_stack)
             shift == Shift(new)
  <1>1. PICK place : Places(place, n)
    BY PopsAtPlaces
  <1>2. /\ shift \in Int
        /\ \A i \in Pops : i \in Int /\ i # 1
        /\ \A i \in Pops' : i \in Int /\ i > Len(new)
        /\ \A i \in Pops \ {1} : i + shift \in Pops' /\ agenda'[i + shift] = agenda[i]
        /\ \A i \in Pops' : i - shift \in Pops \ {1}
    <2>1. /\ shift \in Int /\ Len(new) \in Nat
          /\ \A i \in Pops : i \in Int
          /\ \A i \in Pops \ {1} : i + shift \in Pops' /\ agenda'[i + shift] = agenda[i]
          /\ 1 \notin Pops
      BY PopsShifted
    <2>2. ASSUME NEW i \in Pops' PROVE i \in Int /\ i > Len(new) /\ i - shift \in Pops \ {1}
      <3>1. /\ i \in Int /\ i >= 1
            /\ i <= Len(new) => new[i].do = "pop"
            /\ i > Len(new) => i - shift \in Pops \ {1}
        BY PopsShifted
      <3>2. i <= Len(new) => i \in 1 .. Len(new)
        BY <2>1, <3>1
      <3> QED
        BY <2>1, <3>1, <3>2
    <2> QED
      BY <2>1, <2>2
  <1> HIDE DEF shift
  <1> DEFINE moved == [k \in 1 .. n |-> place[k] + shift]
  <1>3. \A k \in 1 .. n : place[k] \in Pops /\ place[k] \in Int /\ moved[k] = place[k] + shift
    BY <1>1, <1>2 DEF Places
  <1>4. moved \in [1 .. n -> Pops']
    BY <1>2, <1>3
  <1> HIDE DEF moved
  <1>5. ASSUME NEW j \in 1 .. n, NEW k \in 1 .. n, j < k PROVE moved[k] < moved[j]
    <2>1. place[k] < place[j]
      BY <1>1, <1>5 DEF Places
    <2> QED
      BY <1>2, <1>3, <2>1
  <1>6. ASSUME NEW i \in Pops' PROVE \E k \in 1 .. n : moved[k] = i
    <2>1. i - shift \in Pops
      BY <1>2
    <2>2. PICK k \in 1 .. n : place[k] = i - shift
      BY <1>1, <2>1 DEF Places
    <2>3. moved[k] = (i - shift) + shift
      BY <1>3, <2>2
    <2> QED
      BY <1>2, <2>3
  <1>7. ASSUME NEW k \in 1 .. n PROVE agenda'[moved[k]].ty = ty_map_stack'[k]
    <2>1. agenda'[moved[k]] = agenda[place[k]]
      BY <1>2, <1>3
    <2> QED
      BY <1>1, <2>1 DEF Places
  <1> QED
    <2> DEFINE m == Len(ty_map_stack')
    <2>1. m = n
      OBVIOUS
    <2> HIDE DEF m, n
    <2>2. /\ moved \in [1 .. m -> Pops']
          /\ \A j, k \in 1 .. m : j < k => moved[k] < moved[j]
          /\ \A i \in Pops' : \E k \in 1 .. m : moved[k] = i
          /\ \A k \in 1 .. m : agenda'[moved[k]].ty = ty_map_stack'[k]
      BY <2>1, <1>4, <1>5, <1>6, <1>7
    <2> QED
      BY <2>2 DEF PopsMatch, m

(* A pop after jobs without one goes with the push of its type.             *)
LEMMA TypePushed ==
  ASSUME agenda \in Seq(JobSet), agenda # << >>, Job.do # "pop", PopsMatch,
         ty_map_stack \in Seq(Types), NEW t \in Types,
         NEW new \in Seq(JobSet), Len(new) > 0,
         \A i \in 1 .. Len(new) : new[i].do = "pop" <=> i = Len(new),
         new[Len(new)].ty = t,
         agenda' = new \o Rest, ty_map_stack' = Append(ty_map_stack, t)
  PROVE  PopsMatch'
  <1> DEFINE n == Len(ty_map_stack)
             last == Len(new)
             shift == Shift(new)
  <1>1. PICK place : Places(place, n)
    BY PopsAtPlaces
  <1>2. /\ shift \in Int /\ last \in Nat /\ last > 0 /\ last = shift + 1
        /\ \A i \in Pops : i \in Int /\ i > 1 /\ i \in Pops \ {1}
        /\ \A i \in Pops \ {1} : i + shift \in Pops' /\ agenda'[i + shift] = agenda[i]
        /\ last \in Pops' /\ agenda'[last] = new[last]
    <2>1. /\ shift \in Int /\ last \in Nat /\ last = shift + 1
          /\ \A i \in Pops : i \in Int /\ i >= 1
          /\ \A i \in Pops \ {1} : i + shift \in Pops' /\ agenda'[i + shift] = agenda[i]
          /\ 1 \notin Pops
      BY PopsShifted
    <2>2. last \in 1 .. last
      BY <2>1
    <2>3. last \in Pops' /\ agenda'[last] = new[last]
      BY <2>2, PopsShifted
    <2>4. ASSUME NEW i \in Pops PROVE i > 1 /\ i # 1
      BY <2>1
    <2> QED
      BY <2>1, <2>3, <2>4
  <1>3. ASSUME NEW i \in Pops' PROVE i \in Int /\ (i = last \/ i - shift \in Pops)
    <2>1. /\ i \in Int /\ i >= 1
          /\ i <= Len(new) => new[i].do = "pop"
          /\ i > Len(new) => i - shift \in Pops
      BY PopsShifted
    <2>2. i <= last => i \in 1 .. last
      BY <1>2, <2>1
    <2> QED
      BY <1>2, <2>1, <2>2
  <1>4. /\ n \in Nat /\ Len(ty_map_stack') = n + 1
        /\ \A k \in 1 .. n : ty_map_stack'[k] = ty_map_stack[k]
        /\ ty_map_stack'[n + 1] = t
    OBVIOUS
  <1>5. new[last].ty = t
    OBVIOUS
  <1> HIDE DEF shift, last, n
  <1> DEFINE moved == [k \in 1 .. (n + 1) |-> IF k \in 1 .. n THEN place[k] + shift ELSE last]
  <1>6. /\ \A k \in 1 .. n : place[k] \in Pops /\ moved[k] = place[k] + shift
        /\ moved[n + 1] = last
        /\ \A k \in 1 .. (n + 1) : k \in 1 .. n \/ k = n + 1
    <2>1. \A k \in 1 .. n : place[k] \in Pops
      BY <1>1 DEF Places
    <2>2. /\ \A k \in 1 .. n : k \in 1 .. (n + 1)
          /\ n + 1 \in 1 .. (n + 1) /\ n + 1 \notin 1 .. n
          /\ \A k \in 1 .. (n + 1) : k \in 1 .. n \/ k = n + 1
      BY <1>4
    <2>3. ASSUME NEW k \in 1 .. n PROVE moved[k] = place[k] + shift
      BY <2>2
    <2>4. moved[n + 1] = last
      BY <2>2
    <2> QED
      BY <2>1, <2>2, <2>3, <2>4
  <1>7. moved \in [1 .. (n + 1) -> Pops']
    <2>1. \A k \in 1 .. n : place[k] + shift \in Pops'
      BY <1>2, <1>6
    <2> QED
      BY <1>2, <2>1
  <1> HIDE DEF moved
  <1>8. ASSUME NEW j \in 1 .. (n + 1), NEW k \in 1 .. (n + 1), j < k PROVE moved[k] < moved[j]
    <2>1. j \in 1 .. n
      BY <1>4, <1>8
    <2>2. place[j] \in Int /\ place[j] > 1 /\ moved[j] = place[j] + shift
      BY <1>2, <1>6, <2>1
    <2>3. CASE k = n + 1
      BY <1>2, <1>6, <2>2, <2>3
    <2>4. CASE k \in 1 .. n
      <3>1. place[k] < place[j] /\ place[k] \in Int /\ moved[k] = place[k] + shift
        BY <1>1, <1>2, <1>6, <1>8, <2>1, <2>4 DEF Places
      <3> QED
        BY <1>2, <2>2, <3>1
    <2> QED
      BY <1>6, <2>3, <2>4
  <1>9. ASSUME NEW i \in Pops' PROVE \E k \in 1 .. (n + 1) : moved[k] = i
    <2>1. CASE i = last
      <3>1. n + 1 \in 1 .. (n + 1)
        BY <1>4
      <3> QED
        BY <1>6, <2>1, <3>1
    <2>2. CASE i - shift \in Pops
      <3>1. PICK k \in 1 .. n : place[k] = i - shift
        BY <1>1, <2>2 DEF Places
      <3>2. moved[k] = (i - shift) + shift /\ k \in 1 .. (n + 1)
        BY <1>4, <1>6, <3>1
      <3> QED
        BY <1>2, <1>3, <3>2
    <2> QED
      BY <1>3, <2>1, <2>2
  <1>10. ASSUME NEW k \in 1 .. (n + 1) PROVE agenda'[moved[k]].ty = ty_map_stack'[k]
    <2>1. CASE k = n + 1
      BY <1>2, <1>4, <1>5, <1>6, <2>1
    <2>2. CASE k \in 1 .. n
      <3>1. agenda'[moved[k]] = agenda[place[k]]
        BY <1>2, <1>6, <2>2
      <3> QED
        BY <1>1, <1>4, <2>2, <3>1 DEF Places
    <2> QED
      BY <1>6, <2>1, <2>2
  <1> QED
    <2> DEFINE m == Len(ty_map_stack')
    <2>1. m = n + 1
      BY <1>4
    <2> HIDE DEF m
    <2>2. /\ moved \in [1 .. m -> Pops']
          /\ \A j, k \in 1 .. m : j < k => moved[k] < moved[j]
          /\ \A i \in Pops' : \E k \in 1 .. m : moved[k] = i
          /\ \A k \in 1 .. m : agenda'[moved[k]].ty = ty_map_stack'[k]
      BY <2>1, <1>7, <1>8, <1>9, <1>10
    <2> QED
      BY <2>2 DEF PopsMatch, m

(* The next job, when it is a pop, is that of the innermost type.           *)
LEMMA TypePopped ==
  ASSUME agenda \in Seq(JobSet), agenda # << >>, Job.do = "pop", PopsMatch,
         ty_map_stack \in Seq(Types), agenda' = Rest,
         ty_map_stack' = Front(ty_map_stack)
  PROVE  /\ PopsMatch'
         /\ ty_map_stack # << >>
         /\ Last(ty_map_stack) = Job.ty
  <1> DEFINE n == Len(ty_map_stack)
  <1>1. PICK place : Places(place, n)
    BY PopsAtPlaces
  <1>2. /\ \A i \in Pops : i \in Int /\ i >= 1
        /\ \A i \in Pops' : i \in Int /\ i + 1 \in Pops \ {1}
        /\ \A i \in Pops \ {1} : i - 1 \in Pops' /\ agenda'[i - 1] = agenda[i]
        /\ 1 \in Pops
    <2>1. agenda' = << >> \o Rest /\ << >> \in Seq(JobSet) /\ Shift(<< >>) = -1
      BY DEF Rest, Shift
    <2>2. /\ \A i \in Pops : i \in Int /\ i >= 1
          /\ \A i \in Pops \ {1} : i + Shift(<< >>) \in Pops' /\ agenda'[i + Shift(<< >>)] = agenda[i]
          /\ 1 \in Pops
      BY <2>1, PopsShifted
    <2>3. ASSUME NEW i \in Pops' PROVE i \in Int /\ i + 1 \in Pops \ {1}
      <3>1. /\ i \in Int /\ i >= 1
            /\ i > Len(<< >>) => i - Shift(<< >>) \in Pops \ {1}
        BY <2>1, PopsShifted
      <3> QED
        BY <2>1, <3>1
    <2> QED
      BY <2>1, <2>2, <2>3
  <1>3. PICK top \in 1 .. n : place[top] = 1
    BY <1>1, <1>2 DEF Places
  <1>4. n \in Nat /\ n > 0
    BY <1>3
  <1>5. \A k \in 1 .. n : place[k] \in Pops /\ place[k] \in Int /\ place[k] >= 1
    BY <1>1, <1>2 DEF Places
  <1>6. top = n
    <2> SUFFICES ASSUME top < n PROVE FALSE
      BY <1>4
    <2>1. place[n] < place[top] /\ n \in 1 .. n
      BY <1>1, <1>4 DEF Places
    <2> QED
      BY <1>3, <1>5, <2>1
  <1>7. /\ ty_map_stack # << >> /\ Last(ty_map_stack) = ty_map_stack[n]
        /\ Len(ty_map_stack') = n - 1
        /\ \A k \in 1 .. (n - 1) : ty_map_stack'[k] = ty_map_stack[k]
    <2>1. ty_map_stack' = SubSeq(ty_map_stack, 1, n - 1) /\ Last(ty_map_stack) = ty_map_stack[n]
      BY DEF Front, Last
    <2>2. n - 1 \in Nat /\ n - 1 <= n
      BY <1>4
    <2>3. Len(ty_map_stack') = n - 1
      <3>1. \A s \in Seq(Types), k \in Nat : k <= Len(s) => Len(SubSeq(s, 1, k)) = k
        OBVIOUS
      <3> QED
        BY <2>1, <2>2, <3>1
    <2>4. ASSUME NEW k \in 1 .. (n - 1) PROVE ty_map_stack'[k] = ty_map_stack[k]
      BY <1>4, <2>1, <2>2
    <2> QED
      BY <1>4, <2>1, <2>3, <2>4
  <1>8. Last(ty_map_stack) = Job.ty
    BY <1>1, <1>3, <1>6, <1>7, HeadIsAJob DEF Places
  <1> HIDE DEF n
  <1> DEFINE moved == [k \in 1 .. (n - 1) |-> place[k] - 1]
  <1>9. \A k \in 1 .. (n - 1) : /\ k \in 1 .. n /\ place[k] \in Pops \ {1}
                                /\ moved[k] = place[k] - 1
    <2> SUFFICES ASSUME NEW k \in 1 .. (n - 1) PROVE k \in 1 .. n /\ place[k] \in Pops \ {1}
      OBVIOUS
    <2>1. k \in 1 .. n /\ n \in 1 .. n /\ k < n
      BY <1>4
    <2>2. place[n] < place[k]
      BY <1>1, <2>1 DEF Places
    <2> QED
      BY <1>3, <1>5, <1>6, <2>1, <2>2
  <1>10. moved \in [1 .. (n - 1) -> Pops']
    BY <1>2, <1>9
  <1> HIDE DEF moved
  <1>11. ASSUME NEW j \in 1 .. (n - 1), NEW k \in 1 .. (n - 1), j < k PROVE moved[k] < moved[j]
    <2>1. place[k] < place[j]
      BY <1>1, <1>9, <1>11 DEF Places
    <2> QED
      BY <1>5, <1>9, <2>1
  <1>12. ASSUME NEW i \in Pops' PROVE \E k \in 1 .. (n - 1) : moved[k] = i
    <2>1. PICK k \in 1 .. n : place[k] = i + 1
      BY <1>1, <1>2 DEF Places
    <2>2. k # n
      BY <1>2, <1>3, <1>6, <2>1
    <2>3. k \in 1 .. (n - 1) /\ moved[k] = (i + 1) - 1
      BY <1>4, <1>9, <2>1, <2>2
    <2> QED
      BY <1>2, <2>3
  <1>13. ASSUME NEW k \in 1 .. (n - 1) PROVE agenda'[moved[k]].ty = ty_map_stack'[k]
    <2>1. agenda'[moved[k]] = agenda[place[k]]
      BY <1>2, <1>9
    <2> QED
      BY <1>1, <1>7, <1>9, <2>1 DEF Places
  <1> QED
    <2> DEFINE m == Len(ty_map_stack')
    <2>1. m = n - 1
      BY <1>7
    <2> HIDE DEF m
    <2>2. /\ moved \in [1 .. m -> Pops']
          /\ \A j, k \in 1 .. m : j < k => moved[k] < moved[j]
          /\ \A i \in Pops' : \E k \in 1 .. m : moved[k] = i
          /\ \A k \in 1 .. m : agenda'[moved[k]].ty = ty_map_stack'[k]
      BY <2>1, <1>10, <1>11, <1>12, <1>13
    <2> QED
      BY <1>7, <1>8, <2>2 DEF PopsMatch, m

----------------------------------------------------------------------------
(* The jobs a type's register consists of: no pop and no register.          *)
Plain(jobs) == \A i \in 1 .. Len(jobs) : jobs[i].do \notin {"pop", "register"}

LEMMA FromJobs ==
  ASSUME NEW t \in Types, NEW v \in Nat
  PROVE  /\ Walked(t) => From(t, v) \in Seq(JobSet) /\ Plain(From(t, v))
         /\ Body(t) \in Seq(JobSet) /\ Plain(Body(t))
  <1>1. ASSUME NEW w \in Nat, Walked(t) PROVE From(t, w) \in Seq(JobSet) /\ Plain(From(t, w))
    <2>1. CASE w \in Variants(t)
      <3>1. VariantsFrom(w, t) \in JobSet /\ VariantsFrom(w, t).do = "variants"
        BY <1>1, <2>1 DEF JobSet, VariantsFrom, Ids
      <3> QED
        BY <2>1, <3>1 DEF From, Plain
    <2>2. CASE w \notin Variants(t)
      BY <2>2 DEF From, Plain
    <2> QED
      BY <2>1, <2>2
  <1>2. Body(t) = << >> \/ (Walked(t) /\ Body(t) = From(t, 0))
    <2>1. CASE Walked(t)
      BY <2>1 DEF Body, Walked
    <2>2. CASE ~ Walked(t)
      BY <2>2 DEF Body, Walked
    <2> QED
      BY <2>1, <2>2
  <1>3. << >> \in Seq(JobSet) /\ Plain(<< >>)
    BY DEF Plain
  <1> QED
    BY <1>1, <1>2, <1>3

LEMMA VariantJobsPlain ==
  ASSUME NEW t \in Types, NEW v \in Variants(t)
  PROVE  VariantJobs(t, v) \in Seq(JobSet) /\ Plain(VariantJobs(t, v)) /\ v \in Nat
  <1>1. v \in Nat /\ Fields[t][v] \in Seq(Types)
    BY FieldsAssumption DEF Variants
  <1>2. Unit(t, v) \in JobSet /\ Unit(t, v).do = "unit"
    BY <1>1 DEF JobSet, Unit, Ids
  <1>3. \A i \in 1 .. Len(Fields[t][v]) :
          Visit(t, v, Fields[t][v][i]) \in JobSet /\ Visit(t, v, Fields[t][v][i]).do = "visit"
    BY <1>1 DEF JobSet, Visit, Ids
  <1>4. Visits(t, v) \in Seq(JobSet) /\ Plain(Visits(t, v))
    BY <1>1, <1>3 DEF Visits, Plain
  <1>5. << Unit(t, v) >> \in Seq(JobSet) /\ Plain(<< Unit(t, v) >>)
    BY <1>2 DEF Plain
  <1> QED
    BY <1>1, <1>4, <1>5 DEF VariantJobs

LEMMA PlainJoined ==
  ASSUME NEW a \in Seq(JobSet), NEW b \in Seq(JobSet), Plain(a), Plain(b)
  PROVE  a \o b \in Seq(JobSet) /\ Plain(a \o b)
  <1>1. a \o b \in Seq(JobSet) /\ Len(a \o b) = Len(a) + Len(b)
    OBVIOUS
  <1>2. ASSUME NEW i \in 1 .. Len(a \o b) PROVE (a \o b)[i].do \notin {"pop", "register"}
    <2>1. CASE i <= Len(a)
      <3>1. i \in 1 .. Len(a) /\ (a \o b)[i] = a[i]
        BY <2>1
      <3> QED
        BY <3>1 DEF Plain
    <2>2. CASE i > Len(a)
      <3>1. i - Len(a) \in 1 .. Len(b) /\ (a \o b)[i] = b[i - Len(a)]
        BY <1>1, <2>2
      <3> QED
        BY <3>1 DEF Plain
    <2> QED
      BY <2>1, <2>2
  <1> QED
    BY <1>1, <1>2 DEF Plain

(* Only visiting a new type makes a register the next job.                  *)
LEMMA NoNewRegister ==
  ASSUME AgendaOK, agenda # << >>, NEW new \in Seq(JobSet),
         \A i \in 1 .. Len(new) : new[i].do # "register", agenda' = new \o Rest
  PROVE  AgendaOK' /\ HeadIsNew'
  <1>1. /\ agenda' \in Seq(JobSet)
        /\ Len(agenda') = Shift(new) + Len(agenda)
        /\ Len(new) = Shift(new) + 1 /\ Len(new) \in Nat
        /\ \A i \in 1 .. Len(new) : agenda'[i] = new[i]
        /\ \A i \in 2 .. Len(agenda) : agenda'[i + Shift(new)] = agenda[i]
        /\ Shift(new) \in Int /\ Len(agenda) \in Nat \ {0}
    BY Replaced DEF Rest, Shift, AgendaOK
  <1>2. ASSUME NEW i \in 1 .. Len(agenda') PROVE agenda'[i].do # "register"
    <2>1. CASE i <= Len(new)
      <3>1. i \in 1 .. Len(new)
        BY <1>1, <2>1
      <3> QED
        BY <1>1, <3>1
    <2>2. CASE i > Len(new)
      <3> DEFINE m == i - Shift(new)
      <3>1. m \in 2 .. Len(agenda) /\ m + Shift(new) = i
        BY <1>1, <2>2
      <3> HIDE DEF m
      <3>2. agenda'[m + Shift(new)] = agenda[m]
        BY <1>1, <3>1
      <3> QED
        BY <3>1, <3>2 DEF AgendaOK
    <2> QED
      BY <1>1, <2>1, <2>2
  <1>3. \A i \in 2 .. Len(agenda') : agenda'[i].do # "register"
    BY <1>1, <1>2
  <1>4. ~ At("register")'
    <2> SUFFICES ASSUME At("register")' PROVE FALSE
      OBVIOUS
    <2>1. agenda' # << >> /\ Head(agenda').do = "register"
      BY DEF At, Job
    <2>2. 1 \in 1 .. Len(agenda') /\ Head(agenda') = agenda'[1]
      BY <1>1, <2>1
    <2> QED
      BY <1>2, <2>1, <2>2
  <1> QED
    BY <1>1, <1>3, <1>4 DEF AgendaOK, HeadIsNew

LEMMA RecordedOK ==
  ASSUME RegTypeOK, NEW parent \in Types \cup {RootId}, NEW variant, NEW t \in Ids,
         ty_map' = Recorded(parent, variant, t)
  PROVE  /\ DOMAIN ty_map' \subseteq Types \cup {RootId}
         /\ \A p \in DOMAIN ty_map' : \A v \in DOMAIN ty_map'[p] : ty_map'[p][v] \subseteq Ids
  <1> DEFINE old == IF parent \in DOMAIN ty_map THEN ty_map[parent] ELSE << >>
             ids == IF variant \in DOMAIN old THEN old[variant] ELSE {}
             entry == [v \in DOMAIN old \cup {variant} |->
                         IF v = variant THEN ids \cup {t} ELSE old[v]]
  <1>1. \A v \in DOMAIN old : old[v] \subseteq Ids
    BY DEF RegTypeOK
  <1> HIDE DEF old
  <1>2. \A v \in DOMAIN entry : entry[v] \subseteq Ids
    BY <1>1
  <1>3. ty_map' = [p \in DOMAIN ty_map \cup {parent} |-> IF p = parent THEN entry ELSE ty_map[p]]
    BY DEF Recorded, old
  <1> HIDE DEF entry
  <1>4. DOMAIN ty_map' = DOMAIN ty_map \cup {parent}
    BY <1>3
  <1>5. \A p \in DOMAIN ty_map' : ty_map'[p] = IF p = parent THEN entry ELSE ty_map[p]
    BY <1>3
  <1> QED
    BY <1>2, <1>4, <1>5 DEF RegTypeOK

----------------------------------------------------------------------------
LEMMA JobTypes ==
  ASSUME AgendaOK, agenda # << >>
  PROVE  /\ agenda \in Seq(JobSet) /\ Job \in JobSet
         /\ Job.parent \in Types \cup {RootId} /\ Job.ty \in Ids
         /\ Job.do # "unit" => Job.ty \in Types
         /\ Job.do = "unit" => Job.parent \in Types
         /\ Job.do = "variants" => Walked(Job.ty) /\ Job.variant \in Variants(Job.ty)
         /\ Job.variant \in Nat
  BY HeadIsAJob DEF AgendaOK, JobSet

(* A step that leaves the stack alone and brings no register and no pop     *)
LEMMA StackKept ==
  ASSUME RegInv, agenda # << >>, Job.do # "pop", NEW new \in Seq(JobSet), Plain(new),
         agenda' = new \o Rest, UNCHANGED ty_map_stack
  PROVE  AgendaOK' /\ HeadIsNew' /\ PopsMatch'
  <1>1. AgendaOK' /\ HeadIsNew'
    BY NoNewRegister DEF RegInv, Plain
  <1>2. PopsMatch'
    BY PopsMoved DEF RegInv, RegTypeOK, AgendaOK, Plain
  <1> QED
    BY <1>1, <1>2

LEMMA RegInitial == RegInit => RegInv
  <1> SUFFICES ASSUME RegInit PROVE RegInv
    OBVIOUS
  <1>1. root \in Types /\ Register(RootId, 0, root) \in JobSet
    BY RegRootsAssumption DEF RegInit, Register, JobSet, Ids
  <1>2. agenda = << Register(RootId, 0, root) >> /\ ty_map_stack = << >> /\ ty_done = {}
    BY DEF RegInit
  <1>3. RegTypeOK
    BY DEF RegInit, RegTypeOK
  <1>4. AgendaOK
    BY <1>1, <1>2 DEF AgendaOK
  <1>5. HeadIsNew
    BY <1>2 DEF HeadIsNew, is_recursive, ToSet
  <1>6. Pops = {}
    BY <1>2 DEF Pops, Register
  <1>7. PopsMatch
    <2>1. [k \in 1 .. 0 |-> 0] \in [1 .. 0 -> Pops] /\ Len(ty_map_stack) = 0
      BY <1>2
    <2> QED
      BY <1>6, <2>1 DEF PopsMatch
  <1> QED
    BY <1>3, <1>4, <1>5, <1>7 DEF RegInv

LEMMA VisitNewStep == RegInv /\ VisitNew => RegInv'
  <1> SUFFICES ASSUME RegInv, VisitNew PROVE RegInv'
    OBVIOUS
  <1> DEFINE job == Register(Job.parent, Job.variant, Job.ty)
  <1>1. agenda # << >> /\ Job.do = "visit" /\ ~ is_recursive(Job.ty)
    BY DEF VisitNew, At
  <1>2. /\ agenda' = << job >> \o Rest
        /\ UNCHANGED <<ty_map, ty_map_stack, ty_done, root>>
    BY DEF VisitNew
  <1>3. job \in JobSet /\ job.do = "register" /\ job.ty = Job.ty
    BY <1>1, JobTypes DEF RegInv, Register, JobSet
  <1> HIDE DEF job
  <1>4. /\ agenda' \in Seq(JobSet) /\ agenda'[1] = job
        /\ Len(agenda') = Len(agenda)
        /\ \A i \in 2 .. Len(agenda) : agenda'[i] = agenda[i]
    BY <1>1, <1>2, <1>3, Replaced DEF RegInv, AgendaOK, Rest
  <1>5. AgendaOK'
    BY <1>4 DEF RegInv, AgendaOK
  <1>6. HeadIsNew'
    <2>1. Job' = job
      BY <1>4 DEF Job
    <2> QED
      BY <1>1, <1>2, <1>3, <2>1 DEF HeadIsNew, is_recursive
  <1>7. PopsMatch'
    <2>1. << job >> \in Seq(JobSet) /\ \A i \in 1 .. Len(<< job >>) : << job >>[i].do # "pop"
      BY <1>3
    <2> QED
      BY <1>1, <1>2, <2>1, PopsMoved DEF RegInv, RegTypeOK, AgendaOK
  <1> QED
    BY <1>2, <1>5, <1>6, <1>7 DEF RegInv, RegTypeOK

(* Jobs done without new ones: the type is recorded and done.               *)
LEMMA RecordStep == RegInv /\ (VisitKnown \/ RegisterUnit) => RegInv'
  <1> SUFFICES ASSUME RegInv, VisitKnown \/ RegisterUnit PROVE RegInv'
    OBVIOUS
  <1>1. agenda # << >> /\ Job.do # "pop" /\ agenda' = Rest
        /\ UNCHANGED <<ty_map_stack, root>>
    BY DEF VisitKnown, RegisterUnit, At
  <1>2. PICK t \in Ids : ty_map' = Recorded(Job.parent, Job.variant, t)
                         /\ ty_done' = ty_done \cup {t}
    BY <1>1, JobTypes DEF RegInv, VisitKnown, RegisterUnit, Ids
  <1>3. agenda' = << >> \o Rest /\ << >> \in Seq(JobSet) /\ Plain(<< >>)
    BY <1>1, JobTypes DEF RegInv, Rest, Plain
  <1>4. AgendaOK' /\ HeadIsNew' /\ PopsMatch'
    BY <1>1, <1>3, StackKept
  <1>5. /\ DOMAIN ty_map' \subseteq Types \cup {RootId}
        /\ \A p \in DOMAIN ty_map' : \A v \in DOMAIN ty_map'[p] : ty_map'[p][v] \subseteq Ids
    BY <1>1, <1>2, JobTypes, RecordedOK DEF RegInv
  <1>6. RegTypeOK'
    BY <1>1, <1>2, <1>5 DEF RegInv, RegTypeOK
  <1> QED
    BY <1>4, <1>6 DEF RegInv

LEMMA RegisterInnerStep == RegInv /\ RegisterInner => RegInv'
  <1> SUFFICES ASSUME RegInv, RegisterInner PROVE RegInv'
    OBVIOUS
  <1> DEFINE job == Visit(Job.parent, Job.variant, Fields[Job.ty][0][1])
  <1>1. /\ agenda # << >> /\ Job.do = "register" /\ Transparent(Job.ty)
        /\ agenda' = << job >> \o Rest
        /\ UNCHANGED <<ty_map, ty_map_stack, ty_done, root>>
    BY DEF RegisterInner, At
  <1>2. Job.ty \in Types
    BY <1>1, JobTypes DEF RegInv
  <1>3. Fields[Job.ty][0][1] \in Types
    <2>1. 0 \in DOMAIN Fields[Job.ty]
      BY <1>1, <1>2, ShapeAssumption DEF Transparent, Boxes, Lists, Derived, Structs, Enums, Coins
    <2>2. Fields[Job.ty][0] \in Seq(Types) /\ Len(Fields[Job.ty][0]) = 1
      BY <1>1, <1>2, <2>1, FieldsAssumption, ListAssumption DEF Transparent
    <2> QED
      BY <2>2
  <1>4. job \in JobSet /\ job.do = "visit"
    BY <1>1, <1>3, JobTypes DEF RegInv, Visit, JobSet, Ids
  <1> HIDE DEF job
  <1>5. << job >> \in Seq(JobSet) /\ Plain(<< job >>)
    BY <1>4 DEF Plain
  <1>6. AgendaOK' /\ HeadIsNew' /\ PopsMatch'
    BY <1>1, <1>5, StackKept
  <1> QED
    BY <1>1, <1>6 DEF RegInv, RegTypeOK

LEMMA RegisterVariantStep == RegInv /\ RegisterVariant => RegInv'
  <1> SUFFICES ASSUME RegInv, RegisterVariant PROVE RegInv'
    OBVIOUS
  <1> DEFINE new == VariantJobs(Job.ty, Job.variant) \o From(Job.ty, Job.variant + 1)
  <1>1. /\ agenda # << >> /\ Job.do = "variants" /\ agenda' = new \o Rest
        /\ UNCHANGED <<ty_map, ty_map_stack, ty_done, root>>
    BY DEF RegisterVariant, At
  <1>2. /\ Job.ty \in Types /\ Walked(Job.ty)
        /\ Job.variant \in Variants(Job.ty) /\ Job.variant + 1 \in Nat
    BY <1>1, JobTypes DEF RegInv
  <1>3. new \in Seq(JobSet) /\ Plain(new)
    BY <1>2, VariantJobsPlain, FromJobs, PlainJoined
  <1> HIDE DEF new
  <1>4. AgendaOK' /\ HeadIsNew' /\ PopsMatch'
    BY <1>1, <1>3, StackKept
  <1> QED
    BY <1>1, <1>4 DEF RegInv, RegTypeOK

LEMMA RegisterTypeStep == RegInv /\ RegisterType => RegInv'
  <1> SUFFICES ASSUME RegInv, RegisterType PROVE RegInv'
    OBVIOUS
  <1> DEFINE t == Job.ty
             body == Body(t)
             new == body \o << Pop(t) >>
  <1>1. /\ agenda # << >> /\ Job.do = "register"
        /\ ty_map_stack' = Append(ty_map_stack, t)
        /\ ty_map' = Recorded(Job.parent, Job.variant, t)
        /\ agenda' = new \o Rest
        /\ UNCHANGED <<ty_done, root>>
    BY DEF RegisterType, At
  <1>2. t \in Types /\ t \in Ids /\ ~ is_recursive(t)
    BY <1>1, JobTypes DEF RegInv, HeadIsNew, At, Ids
  <1>3. body \in Seq(JobSet) /\ Plain(body)
    BY <1>2, FromJobs
  <1>4. Pop(t) \in JobSet /\ Pop(t).do = "pop" /\ Pop(t).ty = t
    BY <1>2 DEF Pop, JobSet, Ids
  <1> HIDE DEF body
  <1>5. /\ new \in Seq(JobSet) /\ Len(new) = Len(body) + 1
        /\ new[Len(body) + 1] = Pop(t)
        /\ \A i \in 1 .. Len(body) : new[i] = body[i]
    BY <1>3, <1>4
  <1> HIDE DEF new
  <1>6. /\ Len(new) > 0 /\ new[Len(new)].ty = t
        /\ \A i \in 1 .. Len(new) : new[i].do = "pop" <=> i = Len(new)
        /\ \A i \in 1 .. Len(new) : new[i].do # "register"
    BY <1>3, <1>4, <1>5 DEF Plain
  <1>7. AgendaOK' /\ HeadIsNew'
    BY <1>1, <1>5, <1>6, NoNewRegister DEF RegInv
  <1>8. ty_map_stack \in Seq(Types)
    BY DEF RegInv, RegTypeOK
  <1>9. PopsMatch'
    BY <1>1, <1>2, <1>5, <1>6, <1>8, TypePushed DEF RegInv, AgendaOK
  <1>10. RegTypeOK'
    <2>1. /\ DOMAIN ty_map' \subseteq Types \cup {RootId}
          /\ \A p \in DOMAIN ty_map' : \A v \in DOMAIN ty_map'[p] : ty_map'[p][v] \subseteq Ids
      BY <1>1, <1>2, JobTypes, RecordedOK DEF RegInv
    <2>2. ty_map_stack' \in Seq(Types)
      BY <1>1, <1>2, <1>8
    <2> QED
      BY <1>1, <2>1, <2>2 DEF RegInv, RegTypeOK
  <1> QED
    BY <1>7, <1>9, <1>10 DEF RegInv

LEMMA PopStep == RegInv /\ pop_ty => RegInv'
  <1> SUFFICES ASSUME RegInv, pop_ty PROVE RegInv'
    OBVIOUS
  <1>1. /\ agenda # << >> /\ Job.do = "pop" /\ agenda' = Rest
        /\ ty_map_stack' = Front(ty_map_stack)
        /\ ty_done' = ty_done \cup {Last(ty_map_stack)}
        /\ UNCHANGED <<ty_map, root>>
    BY DEF pop_ty, At
  <1>2. ty_map_stack \in Seq(Types) /\ agenda \in Seq(JobSet) /\ PopsMatch
    BY DEF RegInv, RegTypeOK, AgendaOK
  <1>3. PopsMatch' /\ ty_map_stack # << >> /\ Last(ty_map_stack) = Job.ty
    BY <1>1, <1>2, TypePopped
  <1>4. AgendaOK' /\ HeadIsNew'
    <2>1. /\ << >> \in Seq(JobSet) /\ agenda' = << >> \o Rest
          /\ \A i \in 1 .. Len(<< >>) : << >>[i].do # "register"
      BY <1>1, <1>2 DEF Rest
    <2> QED
      BY <1>1, <2>1, NoNewRegister DEF RegInv
  <1> DEFINE n == Len(ty_map_stack)
  <1>5. n \in Nat \ {0}
    BY <1>2, <1>3
  <1>6. ty_map_stack' \in Seq(Types) /\ Len(ty_map_stack') = n - 1
        /\ \A i \in 1 .. (n - 1) : ty_map_stack'[i] = ty_map_stack[i]
    <2>1. \A s \in Seq(Types), k \in Nat : k <= Len(s) =>
            /\ SubSeq(s, 1, k) \in Seq(Types) /\ Len(SubSeq(s, 1, k)) = k
            /\ \A i \in 1 .. k : SubSeq(s, 1, k)[i] = s[i]
      OBVIOUS
    <2>2. n - 1 \in Nat /\ n - 1 <= n /\ ty_map_stack' = SubSeq(ty_map_stack, 1, n - 1)
      BY <1>1, <1>5 DEF Front
    <2> QED
      BY <1>2, <2>1, <2>2
  <1>7. RegTypeOK'
    <2>1. Job.ty \in Ids
      BY <1>1, JobTypes DEF RegInv
    <2> QED
      BY <1>1, <1>3, <1>6, <2>1 DEF RegInv, RegTypeOK
  <1> QED
    BY <1>3, <1>4, <1>7 DEF RegInv

----------------------------------------------------------------------------
LEMMA RegInvStep == RegInv /\ [RegNext]_regVars => RegInv'
  <1> SUFFICES ASSUME RegInv, [RegNext]_regVars PROVE RegInv'
    OBVIOUS
  <1>1. CASE UNCHANGED regVars
    <2>1. /\ ty_map' = ty_map /\ ty_map_stack' = ty_map_stack /\ ty_done' = ty_done
          /\ agenda' = agenda /\ root' = root
      BY <1>1 DEF regVars
    <2>2. RegTypeOK' /\ AgendaOK'
      BY <2>1 DEF RegInv, RegTypeOK, AgendaOK
    <2>3. HeadIsNew'
      BY <2>1 DEF RegInv, HeadIsNew, At, Job, is_recursive
    <2>4. PopsMatch'
      BY <2>1 DEF RegInv, PopsMatch, Pops
    <2> QED
      BY <2>2, <2>3, <2>4 DEF RegInv
  <1>2. CASE VisitNew
    BY <1>2, VisitNewStep
  <1>3. CASE VisitKnown
    BY <1>3, RecordStep
  <1>4. CASE RegisterInner
    BY <1>4, RegisterInnerStep
  <1>5. CASE RegisterType
    BY <1>5, RegisterTypeStep
  <1>6. CASE RegisterVariant
    BY <1>6, RegisterVariantStep
  <1>7. CASE RegisterUnit
    BY <1>7, RecordStep
  <1>8. CASE pop_ty
    BY <1>8, PopStep
  <1> QED
    BY <1>1, <1>2, <1>3, <1>4, <1>5, <1>6, <1>7, <1>8 DEF RegNext

(* The invariant of the walk: the jobs left and the stack belong together.  *)
THEOREM RegInvariant == RegSpec => []RegInv
  <1> QED
    BY RegInitial, RegInvStep, PTL DEF RegSpec

(* Whatever the grammar, ty_map records only its types and the stand-in.    *)
THEOREM RegTypeCorrect == RegSpec => []RegTypeOK
  <1>1. RegInv => RegTypeOK
    BY DEF RegInv
  <1> QED
    BY <1>1, RegInvariant, PTL

(* Whatever the grammar, every pop_ty finds the type its own register_ty    *)
(* pushed, although impls nest and cut each other short.                    *)
THEOREM PopsAlwaysMatch == RegSpec => []PopsMatch
  <1>1. RegInv => PopsMatch
    BY DEF RegInv
  <1> QED
    BY <1>1, RegInvariant, PTL

(* A step that pushes a type is that of its register, asked for when the    *)
(* type was neither on the stack nor done, and nothing was done in between. *)
LEMMA PushesNew ==
  ASSUME RegInv, RegNext, Len(ty_map_stack') > Len(ty_map_stack)
  PROVE  Last(ty_map_stack') \notin ToSet(ty_map_stack) \cup ty_done
  <1>1. ty_map_stack \in Seq(Types) /\ Len(ty_map_stack) \in Nat
    BY DEF RegInv, RegTypeOK
  <1>2. ty_map_stack' # ty_map_stack
    BY <1>1
  <1>3. CASE RegisterType
    <2>1. At("register") /\ ty_map_stack' = Append(ty_map_stack, Job.ty) /\ Job.ty \in Types
      BY <1>3, JobTypes DEF RegInv, RegisterType, At
    <2>2. Last(ty_map_stack') = Job.ty
      BY <1>1, <2>1 DEF Last
    <2>3. ~ is_recursive(Job.ty)
      BY <2>1 DEF RegInv, HeadIsNew
    <2> QED
      BY <2>2, <2>3 DEF is_recursive
  <1>4. CASE pop_ty
    <2>1. ty_map_stack # << >> /\ ty_map_stack' = Front(ty_map_stack)
      BY <1>4 DEF pop_ty
    <2>2. Len(ty_map_stack') = Len(ty_map_stack) - 1
      BY <1>1, <2>1 DEF Front
    <2> QED
      BY <1>1, <2>2
  <1> QED
    BY <1>2, <1>3, <1>4
    DEF RegNext, VisitNew, VisitKnown, RegisterInner, RegisterVariant, RegisterUnit

(* Whatever the grammar, no walk of a type begins while it is being walked  *)
(* or after it was: no type is on the stack twice, or again.                *)
THEOREM WalksOnce == RegSpec => WalkedOnce
  <1>1. RegInv /\ [RegNext]_regVars =>
          [Len(ty_map_stack') > Len(ty_map_stack) =>
             Last(ty_map_stack') \notin ToSet(ty_map_stack) \cup ty_done]_regVars
    BY PushesNew
  <1> QED
    BY <1>1, RegInvariant, PTL DEF RegSpec, WalkedOnce

----------------------------------------------------------------------------
(* What the walk leaves.  Whether a variant of a type holds another one is  *)
(* either recorded in ty_map or promised by a job still to come, and it is  *)
(* owed as soon as the type is known.                                       *)
Records(p, v, u) == p \in DOMAIN ty_map /\ v \in DOMAIN ty_map[p] /\ u \in ty_map[p][v]

Holds(p, v, u) == p \in Types /\ Walked(p) /\ v \in Variants(p) /\ u \in Children(p, v)

Promises(job, p, v, u) ==
  \/ job.do \in {"visit", "register"} /\ p = job.parent /\ v = job.variant /\ u = Strip[job.ty]
  \/ job.do = "unit" /\ p = job.parent /\ v = job.variant /\ u = Phantom
  \/ job.do = "variants" /\ p = job.ty /\ v >= job.variant /\ Holds(p, v, u)

Promised(jobs, p, v, u) == \E i \in 1 .. Len(jobs) : Promises(jobs[i], p, v, u)

Owed(p, v, u) ==
  \/ p = RootId /\ v = 0 /\ u = Strip[root]
  \/ is_recursive(p) /\ Holds(p, v, u)

NothingMissing ==
  \A p, v, u : Records(p, v, u) \/ Promised(agenda, p, v, u) <=> Owed(p, v, u)

(* A type is met only on the way from the fuzzed one, and known when it is  *)
(* recorded; what a box or a vector is recorded as is not one itself.       *)
ClosedSet(T) == T \in SUBSET Types /\ \A t \in T : ChildTypes(t) \subseteq T

Reached(t) == \A T : ClosedSet(T) /\ Strip[root] \in T => t \in T

KnownReached ==
  /\ \A p, v, u : Records(p, v, u) => is_recursive(u) /\ (p = RootId => u \in Types)
  /\ \A t \in Types : is_recursive(t) => ~ Transparent(t) /\ Reached(t)

NoneEmpty ==
  /\ ty_map = [p \in DOMAIN ty_map |-> [v \in DOMAIN ty_map[p] |-> ty_map[p][v]]]
  /\ \A p \in DOMAIN ty_map : \E v \in DOMAIN ty_map[p] : TRUE
  /\ \A p \in DOMAIN ty_map : \A v \in DOMAIN ty_map[p] : \E u : u \in ty_map[p][v]

MapInv == RegInv /\ NothingMissing /\ KnownReached /\ NoneEmpty

----------------------------------------------------------------------------
LEMMA InnerType ==
  ASSUME NEW t \in Types, Transparent(t)
  PROVE  Fields[t][0][1] \in Types
  <1>1. 0 \in DOMAIN Fields[t]
    BY ShapeAssumption DEF Transparent, Boxes, Lists, Derived, Structs, Enums, Coins
  <1>2. Fields[t][0] \in Seq(Types) /\ Len(Fields[t][0]) = 1
    BY <1>1, FieldsAssumption, ListAssumption DEF Transparent
  <1> QED
    BY <1>2

(* Strip follows the boxes and vectors: such a function exists, because the *)
(* types inside a box are those inside what it holds.                       *)
LEMMA StripFollows ==
  ASSUME NEW t \in Types
  PROVE  Strip[t] = IF Transparent(t) THEN Strip[Fields[t][0][1]] ELSE t
  <1> DEFINE Inner(s) == Fields[s][0][1]
             Within(T) == T \in SUBSET Types /\ \A s \in T : Transparent(s) => Inner(s) \in T
             Behind(s) == {u \in Types : ~ Transparent(u) /\ \A T : Within(T) /\ s \in T => u \in T}
             Choice(s) == CHOOSE u : Behind(s) # {} => u \in Behind(s)
             follow == [s \in Types |-> Choice(s)]
  <1>1. ASSUME NEW s \in Types, Transparent(s) PROVE Behind(s) = Behind(Inner(s))
    <2>1. ASSUME NEW u \in Behind(Inner(s)) PROVE u \in Behind(s)
      BY <1>1
    <2>2. ASSUME NEW u \in Behind(s) PROVE u \in Behind(Inner(s))
      <3>1. ASSUME NEW T, Within(T), Inner(s) \in T PROVE u \in T
        <4>1. Within(T \cup {s}) /\ s \in T \cup {s}
          BY <1>1, <3>1
        <4>2. u \in T \cup {s} /\ u # s
          BY <1>1, <2>2, <4>1
        <4> QED
          BY <4>2
      <3> QED
        BY <2>2, <3>1
    <2> QED
      BY <2>1, <2>2
  <1>2. ASSUME NEW s \in Types, ~ Transparent(s) PROVE Behind(s) = {s}
    <2>1. Within({s})
      BY <1>2
    <2> QED
      BY <1>2, <2>1
  <1>3. ASSUME NEW s \in Types
        PROVE  follow[s] = IF Transparent(s) THEN follow[Inner(s)] ELSE s
    <2>1. CASE Transparent(s)
      <3>1. Inner(s) \in Types
        BY <2>1, InnerType
      <3>2. Behind(s) = Behind(Inner(s))
        BY <1>1, <2>1
      <3> HIDE DEF Behind
      <3> QED
        BY <2>1, <3>1, <3>2
    <2>2. CASE ~ Transparent(s)
      <3>1. Behind(s) = {s}
        BY <1>2, <2>2
      <3> HIDE DEF Behind
      <3> QED
        BY <2>2, <3>1
    <2> QED
      BY <2>1, <2>2
  <1>4. \E f : f = [s \in Types |-> IF Transparent(s) THEN f[Fields[s][0][1]] ELSE s]
    <2>1. follow = [s \in Types |-> follow[s]]
      <3> HIDE DEF Choice
      <3> QED
        OBVIOUS
    <2>2. \A s \in Types : follow[s] = IF Transparent(s) THEN follow[Fields[s][0][1]] ELSE s
      BY <1>3
    <2> HIDE DEF follow
    <2>3. follow = [s \in Types |-> IF Transparent(s) THEN follow[Fields[s][0][1]] ELSE s]
      BY <2>1, <2>2, Zenon
    <2> QED
      BY <2>3
  <1>5. Strip = [s \in Types |-> IF Transparent(s) THEN Strip[Fields[s][0][1]] ELSE s]
    BY <1>4, Zenon DEF Strip
  <1> QED
    BY <1>5, Zenon

LEMMA HoldsAre ==
  /\ \A t, c : c \in ChildTypes(t) => c \in Types
  /\ \A t, c : t \in Types => (c \in ChildTypes(t) <=> c \in Types /\ \E v : Holds(t, v, c))
  <1>1. ASSUME NEW t, NEW c
        PROVE  c \in ChildTypes(t) <=>
                 Walked(t) /\ c \in Types /\ \E v \in Variants(t) : c \in Children(t, v)
    <2>1. CASE Walked(t)
      <3> DEFINE under == UNION {Children(t, v) : v \in Variants(t)}
      <3>1. ChildTypes(t) = under \cap Types
        BY <2>1 DEF ChildTypes
      <3>2. c \in under <=> \E v \in Variants(t) : c \in Children(t, v)
        BY Zenon
      <3> HIDE DEF under
      <3>3. c \in ChildTypes(t) <=> c \in under /\ c \in Types
        BY <3>1
      <3> QED
        BY <2>1, <3>2, <3>3
    <2>2. CASE ~ Walked(t)
      BY <2>2 DEF ChildTypes
    <2> QED
      BY <2>1, <2>2
  <1> QED
    BY <1>1 DEF Holds

LEMMA FewestFirst ==
  ASSUME NEW T \in SUBSET Nat, T # {}
  PROVE  \E x \in T : \A y \in T : x <= y
  <1>1. PICK x \in T : \A y \in T : <<y, x>> \notin OpToRel(<, Nat)
    BY WFMin, NatLessThanWellFounded
  <1>2. ASSUME NEW y \in T PROVE x <= y
    <2>1. x \in Nat /\ y \in Nat
      OBVIOUS
    <2>2. ~ (y < x)
      BY <1>1, <2>1 DEF OpToRel
    <2> QED
      BY <2>1, <2>2
  <1> QED
    BY <1>2

(* Boxes and vectors end at a type that is neither.                         *)
LEMMA StripEnds ==
  ASSUME NEW t \in Types
  PROVE  Strip[t] \in Types /\ ~ Transparent(Strip[t])
  <1> DEFINE Ends(s) == Strip[s] \in Types /\ ~ Transparent(Strip[s])
             N == {Nesting[s] : s \in {r \in Types : ~ Ends(r)}}
  <1> SUFFICES ASSUME ~ Ends(t) PROVE FALSE
    OBVIOUS
  <1>1. N \in SUBSET Nat /\ N # {}
    BY NestingAssumption
  <1>2. PICK n \in N : \A k \in N : n <= k
    <2> HIDE DEF N
    <2> QED
      BY <1>1, FewestFirst
  <1>3. PICK s \in Types : ~ Ends(s) /\ n = Nesting[s]
    OBVIOUS
  <1>4. Transparent(s)
    BY <1>3, StripFollows
  <1>5. Fields[s][0][1] \in Types /\ Strip[s] = Strip[Fields[s][0][1]]
    BY <1>4, InnerType, StripFollows
  <1>6. Nesting[Fields[s][0][1]] \in N
    BY <1>3, <1>5
  <1>7. /\ Nesting[Fields[s][0][1]] < n /\ n <= Nesting[Fields[s][0][1]]
        /\ n \in Nat /\ Nesting[Fields[s][0][1]] \in Nat
    BY <1>2, <1>3, <1>4, <1>5, <1>6, NestingAssumption
  <1> QED
    BY <1>7

(* Closure is what its name says: the least closed set that holds S.        *)
Least(S) == {t \in Types : \A T : ClosedSet(T) /\ S \subseteq T => t \in T}

Wider(S) == S \cup UNION {ChildTypes(t) : t \in S}

LEMMA LeastWidens ==
  ASSUME NEW S \in SUBSET Types
  PROVE  /\ Wider(S) \in SUBSET Types /\ S \subseteq Wider(S)
         /\ Least(S) = IF Wider(S) = S THEN S ELSE Least(Wider(S))
  <1>1. \A t : ChildTypes(t) \subseteq Types
    BY HoldsAre
  <1>2. Wider(S) \in SUBSET Types /\ S \subseteq Wider(S)
    BY <1>1 DEF Wider
  <1>3. \A T : ClosedSet(T) => (S \subseteq T <=> Wider(S) \subseteq T)
    BY DEF ClosedSet, Wider
  <1>4. Least(S) = Least(Wider(S))
    BY <1>3 DEF Least
  <1>5. CASE Wider(S) = S
    <2>1. ClosedSet(S)
      BY <1>5 DEF ClosedSet, Wider
    <2>2. Least(S) = S
      BY <2>1 DEF Least
    <2> QED
      BY <1>2, <1>5, <2>2
  <1> QED
    BY <1>2, <1>4, <1>5

LEMMA ClosureIsLeast ==
  ASSUME NEW S \in SUBSET Types
  PROVE  Closure[S] = Least(S)
  <1> DEFINE least == [R \in SUBSET Types |-> Least(R)]
  <1>1. \A R \in SUBSET Types : Least(R) = IF Wider(R) = R THEN R ELSE least[Wider(R)]
    BY LeastWidens
  <1>2. least = [R \in SUBSET Types |-> IF Wider(R) = R THEN R ELSE least[Wider(R)]]
    <2>1. least = [R \in SUBSET Types |-> Least(R)]
      OBVIOUS
    <2> HIDE DEF least
    <2> QED
      BY <1>1, <2>1
  <1>3. \E f : f = [R \in SUBSET Types |-> IF Wider(R) = R THEN R ELSE f[Wider(R)]]
    BY <1>2
  <1>4. Closure = CHOOSE f : f = [R \in SUBSET Types |-> IF Wider(R) = R THEN R ELSE f[Wider(R)]]
    BY Zenon DEF Closure, Wider
  <1>5. Closure = [R \in SUBSET Types |-> IF Wider(R) = R THEN R ELSE Closure[Wider(R)]]
    BY <1>3, <1>4, Zenon
  <1>6. \A R \in SUBSET Types : Closure[R] = IF Wider(R) = R THEN R ELSE Closure[Wider(R)]
    BY <1>5, Zenon
  <1> DEFINE Left(R) == Cardinality(Types \ R)
             Wrong == {R \in SUBSET Types : Closure[R] # Least(R)}
             T == {Left(R) : R \in Wrong}
  <1>7. \A R \in SUBSET Types : IsFiniteSet(Types \ R) /\ Left(R) \in Nat
    BY FiniteAssumption, FS_Subset, FS_CardinalityType
  <1> SUFFICES ASSUME S \in Wrong PROVE FALSE
    OBVIOUS
  <1>8. T \in SUBSET Nat /\ T # {}
    BY <1>7
  <1>9. PICK R \in Wrong : \A Q \in Wrong : Left(R) <= Left(Q)
    <2> HIDE DEF Left, Wrong
    <2>1. PICK x \in T : \A y \in T : x <= y
      <3> HIDE DEF T
      <3> QED
        BY <1>8, FewestFirst
    <2> QED
      BY <2>1
  <1>10. R \in SUBSET Types /\ Closure[R] # Least(R)
    OBVIOUS
  <1>11. Wider(R) # R
    BY <1>6, <1>10, LeastWidens
  <1>12. Wider(R) \in Wrong
    BY <1>6, <1>10, <1>11, LeastWidens
  <1>13. Left(Wider(R)) < Left(R)
    <2>1. (Types \ Wider(R)) \in SUBSET (Types \ R) /\ Types \ Wider(R) # Types \ R
      BY <1>10, <1>11, LeastWidens
    <2>2. Left(Wider(R)) <= Left(R) /\ Left(Wider(R)) # Left(R)
      BY <1>7, <1>10, <2>1, FS_Subset
    <2>3. Left(Wider(R)) \in Nat /\ Left(R) \in Nat
      BY <1>7, <1>10, <1>12
    <2> HIDE DEF Left
    <2> QED
      BY <2>2, <2>3
  <1>14. Left(Wider(R)) \in Nat /\ Left(R) \in Nat
    BY <1>7, <1>10, <1>12
  <1> HIDE DEF Left, Wrong
  <1> QED
    BY <1>9, <1>12, <1>13, <1>14

----------------------------------------------------------------------------
(* What a list of jobs promises                                             *)
LEMMA PromisedJoined ==
  ASSUME NEW a \in Seq(JobSet), NEW b \in Seq(JobSet), NEW p, NEW v, NEW u
  PROVE  Promised(a \o b, p, v, u) <=> Promised(a, p, v, u) \/ Promised(b, p, v, u)
  <1>1. /\ Len(a \o b) = Len(a) + Len(b) /\ Len(a) \in Nat /\ Len(b) \in Nat
        /\ \A i \in 1 .. Len(a) : (a \o b)[i] = a[i]
        /\ \A i \in 1 .. Len(b) : (a \o b)[Len(a) + i] = b[i]
    <2>1. Len(a \o b) = Len(a) + Len(b) /\ Len(a) \in Nat /\ Len(b) \in Nat
      OBVIOUS
    <2>2. ASSUME NEW i \in 1 .. Len(a) PROVE (a \o b)[i] = a[i]
      BY <2>1
    <2>3. ASSUME NEW i \in 1 .. Len(b) PROVE (a \o b)[Len(a) + i] = b[i]
      BY <2>1
    <2> QED
      BY <2>1, <2>2, <2>3
  <1>2. ASSUME Promised(a \o b, p, v, u) PROVE Promised(a, p, v, u) \/ Promised(b, p, v, u)
    <2>1. PICK i \in 1 .. Len(a \o b) : Promises((a \o b)[i], p, v, u)
      BY <1>2 DEF Promised
    <2>2. CASE i \in 1 .. Len(a)
      BY <1>1, <2>1, <2>2 DEF Promised
    <2>3. CASE i \notin 1 .. Len(a)
      <3> DEFINE k == i - Len(a)
      <3>1. k \in 1 .. Len(b) /\ i = Len(a) + k
        BY <1>1, <2>3
      <3> HIDE DEF k
      <3>2. Promises(b[k], p, v, u)
        BY <1>1, <2>1, <3>1
      <3> QED
        BY <3>1, <3>2 DEF Promised
    <2> QED
      BY <2>2, <2>3
  <1>3. ASSUME Promised(a, p, v, u) PROVE Promised(a \o b, p, v, u)
    <2>1. PICK i \in 1 .. Len(a) : Promises(a[i], p, v, u)
      BY <1>3 DEF Promised
    <2>2. i \in 1 .. Len(a \o b)
      BY <1>1
    <2>3. Promises((a \o b)[i], p, v, u)
      BY <1>1, <2>1
    <2> QED
      BY <2>2, <2>3 DEF Promised
  <1>4. ASSUME Promised(b, p, v, u) PROVE Promised(a \o b, p, v, u)
    <2>1. PICK i \in 1 .. Len(b) : Promises(b[i], p, v, u)
      BY <1>4 DEF Promised
    <2>2. Len(a) + i \in 1 .. Len(a \o b)
      BY <1>1
    <2>3. Promises((a \o b)[Len(a) + i], p, v, u)
      BY <1>1, <2>1
    <2> QED
      BY <2>2, <2>3 DEF Promised
  <1> QED
    BY <1>2, <1>3, <1>4

LEMMA PromisedByFew ==
  /\ \A p, v, u : ~ Promised(<< >>, p, v, u)
  /\ \A job, p, v, u : Promised(<< job >>, p, v, u) <=> Promises(job, p, v, u)
  <1>1. \A p, v, u : ~ Promised(<< >>, p, v, u)
    BY DEF Promised
  <1>2. ASSUME NEW job, NEW p, NEW v, NEW u
        PROVE  Promised(<< job >>, p, v, u) <=> Promises(job, p, v, u)
    <2>1. Len(<< job >>) = 1 /\ << job >>[1] = job
      OBVIOUS
    <2>2. \A i \in 1 .. 1 : i = 1
      OBVIOUS
    <2> QED
      BY <2>1, <2>2 DEF Promised
  <1> QED
    BY <1>1, <1>2

LEMMA AgendaPromises ==
  ASSUME RegInv, agenda # << >>, NEW new \in Seq(JobSet), agenda' = new \o Rest
  PROVE  \A p, v, u :
           /\ Promised(agenda, p, v, u) <=> Promises(Job, p, v, u) \/ Promised(Rest, p, v, u)
           /\ Promised(agenda', p, v, u) <=> Promised(new, p, v, u) \/ Promised(Rest, p, v, u)
  <1>1. agenda \in Seq(JobSet) /\ Job \in JobSet
    BY JobTypes DEF RegInv
  <1>2. Rest \in Seq(JobSet) /\ << Job >> \in Seq(JobSet) /\ agenda = << Job >> \o Rest
    BY <1>1 DEF Rest, Job
  <1> SUFFICES ASSUME NEW p, NEW v, NEW u
               PROVE  /\ Promised(agenda, p, v, u) <=> Promises(Job, p, v, u) \/ Promised(Rest, p, v, u)
                      /\ Promised(agenda', p, v, u) <=> Promised(new, p, v, u) \/ Promised(Rest, p, v, u)
    OBVIOUS
  <1>3. Promised(<< Job >> \o Rest, p, v, u) <=> Promised(<< Job >>, p, v, u) \/ Promised(Rest, p, v, u)
    BY <1>2, PromisedJoined
  <1>4. Promised(new \o Rest, p, v, u) <=> Promised(new, p, v, u) \/ Promised(Rest, p, v, u)
    BY <1>2, PromisedJoined
  <1> QED
    BY <1>2, <1>3, <1>4, PromisedByFew

(* From the first variant on every child of a type is promised, from any    *)
(* other one on those of the variants left.                                 *)
LEMMA FromPromises ==
  ASSUME NEW t \in Types, NEW w \in Nat, NEW p, NEW v, NEW u
  PROVE  Promised(From(t, w), p, v, u) <=> p = t /\ v >= w /\ Holds(p, v, u)
  <1>1. CASE w \in Variants(t)
    <2>1. From(t, w) = << VariantsFrom(w, t) >>
      BY <1>1 DEF From
    <2>2. Promises(VariantsFrom(w, t), p, v, u) <=> p = t /\ v >= w /\ Holds(p, v, u)
      BY DEF Promises, VariantsFrom
    <2> QED
      BY <2>1, <2>2, PromisedByFew
  <1>2. CASE w \notin Variants(t)
    <2>1. From(t, w) = << >>
      BY <1>2 DEF From
    <2>2. ASSUME p = t, v >= w, Holds(p, v, u) PROVE FALSE
      <3>1. v \in Variants(t)
        BY <2>2 DEF Holds
      <3>2. v \in Nat /\ 0 .. v \subseteq Variants(t)
        BY <3>1, FieldsAssumption, VariantsAssumption DEF Variants
      <3>3. w \in 0 .. v
        BY <2>2, <3>2
      <3> QED
        BY <1>2, <3>2, <3>3
    <2> QED
      BY <2>1, <2>2, PromisedByFew
  <1> QED
    BY <1>1, <1>2

LEMMA BodyPromises ==
  ASSUME NEW t \in Types, NEW p, NEW v, NEW u
  PROVE  Promised(Body(t), p, v, u) <=> p = t /\ Holds(p, v, u)
  <1>1. CASE Walked(t)
    <2>1. Body(t) = From(t, 0)
      BY <1>1 DEF Body, Walked
    <2>2. p = t /\ Holds(p, v, u) => v >= 0
      <3> SUFFICES ASSUME p = t, Holds(p, v, u) PROVE v >= 0
        OBVIOUS
      <3>1. v \in DOMAIN Fields[t]
        BY DEF Holds, Variants
      <3>2. v \in Nat
        BY <3>1, FieldsAssumption
      <3> QED
        BY <3>2
    <2> QED
      BY <2>1, <2>2, FromPromises
  <1>2. CASE ~ Walked(t)
    <2>1. Body(t) = << >>
      BY <1>2 DEF Body, Walked
    <2> QED
      BY <1>2, <2>1, PromisedByFew DEF Holds
  <1> QED
    BY <1>1, <1>2

LEMMA VariantPromises ==
  ASSUME NEW t \in Types, Walked(t), NEW w \in Variants(t), NEW p, NEW v, NEW u
  PROVE  Promised(VariantJobs(t, w), p, v, u) <=> p = t /\ v = w /\ Holds(p, v, u)
  <1>1. CASE Fields[t][w] = << >> /\ Kind[t] \in Enums \cup Coins
    <2>1. VariantJobs(t, w) = << Unit(t, w) >>
      BY <1>1 DEF VariantJobs
    <2>2. Children(t, w) = {Phantom}
      BY <2>1 DEF Children
    <2>3. Promises(Unit(t, w), p, v, u) <=> p = t /\ v = w /\ u = Phantom
      BY DEF Promises, Unit
    <2> QED
      BY <2>1, <2>2, <2>3, PromisedByFew DEF Holds
  <1>2. CASE ~ (Fields[t][w] = << >> /\ Kind[t] \in Enums \cup Coins)
    <2> DEFINE n == Len(Fields[t][w])
    <2>1. w \in Nat /\ Fields[t][w] \in Seq(Types) /\ n \in Nat
      BY FieldsAssumption DEF Variants
    <2>2. VariantJobs(t, w) = [i \in 1 .. n |-> Visit(t, w, Fields[t][w][i])]
      BY <1>2 DEF VariantJobs, Visits
    <2>3. Len(VariantJobs(t, w)) = n
      BY <2>1, <2>2
    <2>4. VariantJobs(t, w) # << Unit(t, w) >>
      <3> SUFFICES ASSUME VariantJobs(t, w) = << Unit(t, w) >> PROVE FALSE
        OBVIOUS
      <3>1. n = 1
        BY <2>3
      <3>2. VariantJobs(t, w)[1] = Visit(t, w, Fields[t][w][1])
        BY <2>2, <3>1
      <3>3. VariantJobs(t, w)[1] = Unit(t, w)
        OBVIOUS
      <3> QED
        BY <3>2, <3>3 DEF Visit, Unit
    <2>5. Children(t, w) = {Strip[c] : c \in FieldTypes(t, w)}
      BY <2>4 DEF Children
    <2>6. u \in Children(t, w) <=> \E i \in 1 .. n : u = Strip[Fields[t][w][i]]
      BY <2>5 DEF FieldTypes
    <2>7. \A i \in 1 .. n : Promises(VariantJobs(t, w)[i], p, v, u)
                              <=> p = t /\ v = w /\ u = Strip[Fields[t][w][i]]
      BY <2>2 DEF Promises, Visit
    <2> HIDE DEF n
    <2>8. Promised(VariantJobs(t, w), p, v, u) <=>
            \E i \in 1 .. n : p = t /\ v = w /\ u = Strip[Fields[t][w][i]]
      BY <2>3, <2>7 DEF Promised
    <2> QED
      BY <2>6, <2>8 DEF Holds
  <1> QED
    BY <1>1, <1>2

----------------------------------------------------------------------------
(* register_ty adds one entry.                                              *)
LEMMA RecordsAlso ==
  ASSUME NEW parent, NEW variant, NEW t, ty_map' = Recorded(parent, variant, t), NoneEmpty
  PROVE  /\ \A p, v, u : Records(p, v, u)' <=>
                           Records(p, v, u) \/ (p = parent /\ v = variant /\ u = t)
         /\ NoneEmpty'
  <1> DEFINE old == IF parent \in DOMAIN ty_map THEN ty_map[parent] ELSE << >>
             ids == IF variant \in DOMAIN old THEN old[variant] ELSE {}
             entry == [v \in DOMAIN old \cup {variant} |->
                         IF v = variant THEN ids \cup {t} ELSE old[v]]
  <1>1. \A v, u : v \in DOMAIN old /\ u \in old[v] <=> Records(parent, v, u)
    BY DEF Records
  <1>2. ASSUME NEW v \in DOMAIN old PROVE \E u : u \in old[v]
    BY <1>2 DEF NoneEmpty
  <1>3. ty_map' = [p \in DOMAIN ty_map \cup {parent} |-> IF p = parent THEN entry ELSE ty_map[p]]
    BY DEF Recorded
  <1> HIDE DEF old
  <1>4. \A u : u \in ids <=> Records(parent, variant, u)
    BY <1>1
  <1>5. /\ DOMAIN entry = DOMAIN old \cup {variant}
        /\ entry = [v \in DOMAIN entry |-> entry[v]]
        /\ entry[variant] = ids \cup {t}
        /\ \A v \in DOMAIN old : v # variant => entry[v] = old[v]
    <2> HIDE DEF ids
    <2> QED
      OBVIOUS
  <1> HIDE DEF entry, ids
  <1>6. \A v, u : v \in DOMAIN entry /\ u \in entry[v] <=>
                    Records(parent, v, u) \/ (v = variant /\ u = t)
    BY <1>1, <1>4, <1>5
  <1>7. \A v \in DOMAIN entry : \E u : u \in entry[v]
    BY <1>2, <1>5
  <1>8. /\ DOMAIN ty_map' = DOMAIN ty_map \cup {parent}
        /\ ty_map'[parent] = entry
        /\ \A p \in DOMAIN ty_map : p # parent => ty_map'[p] = ty_map[p]
    BY <1>3
  <1>9. ASSUME NEW p, NEW v, NEW u
        PROVE  Records(p, v, u)' <=> Records(p, v, u) \/ (p = parent /\ v = variant /\ u = t)
    <2>1. CASE p = parent
      BY <1>6, <1>8, <2>1 DEF Records
    <2>2. CASE p # parent
      BY <1>8, <2>2 DEF Records
    <2> QED
      BY <2>1, <2>2
  <1>10. NoneEmpty'
    <2>1. \A p \in DOMAIN ty_map' : ty_map'[p] = [v \in DOMAIN ty_map'[p] |-> ty_map'[p][v]]
      <3> SUFFICES ASSUME NEW p \in DOMAIN ty_map'
                   PROVE  ty_map'[p] = [v \in DOMAIN ty_map'[p] |-> ty_map'[p][v]]
        OBVIOUS
      <3>1. CASE p = parent
        BY <1>5, <1>8, <3>1
      <3>2. CASE p # parent
        <4>1. p \in DOMAIN ty_map /\ ty_map'[p] = ty_map[p]
          BY <1>8, <3>2
        <4>2. ty_map[p] = [v \in DOMAIN ty_map[p] |-> ty_map[p][v]]
          BY <4>1, Zenon DEF NoneEmpty
        <4> QED
          BY <4>1, <4>2
      <3> QED
        BY <3>1, <3>2
    <2>2. ty_map' = [p \in DOMAIN ty_map' |-> ty_map'[p]]
      BY <1>3
    <2>3. ty_map' = [p \in DOMAIN ty_map' |-> [v \in DOMAIN ty_map'[p] |-> ty_map'[p][v]]]
      BY <2>1, <2>2
    <2>4. \A p \in DOMAIN ty_map' : \E v \in DOMAIN ty_map'[p] : TRUE
      BY <1>5, <1>8 DEF NoneEmpty
    <2>5. \A p \in DOMAIN ty_map' : \A v \in DOMAIN ty_map'[p] : \E u : u \in ty_map'[p][v]
      BY <1>7, <1>8 DEF NoneEmpty
    <2> QED
      BY <2>3, <2>4, <2>5 DEF NoneEmpty
  <1> QED
    BY <1>9, <1>10

(* The types on a stack that grows and shrinks at its end                   *)
LEMMA AppendedKnown ==
  ASSUME NEW s \in Seq(Types), NEW t \in Types
  PROVE  \A p : p \in ToSet(Append(s, t)) <=> p \in ToSet(s) \/ p = t
  <1>1. /\ DOMAIN s = 1 .. Len(s) /\ Len(s) \in Nat
        /\ DOMAIN Append(s, t) = 1 .. (Len(s) + 1)
        /\ Append(s, t)[Len(s) + 1] = t
        /\ \A i \in 1 .. Len(s) : Append(s, t)[i] = s[i]
    OBVIOUS
  <1>2. \A i : i \in 1 .. (Len(s) + 1) <=> i \in 1 .. Len(s) \/ i = Len(s) + 1
    BY <1>1
  <1> QED
    BY <1>1, <1>2 DEF ToSet

LEMMA FrontKnown ==
  ASSUME NEW s \in Seq(Types), s # << >>
  PROVE  \A p : p \in ToSet(s) <=> p \in ToSet(Front(s)) \/ p = Last(s)
  <1> DEFINE n == Len(s) - 1
  <1>1. DOMAIN s = 1 .. (n + 1) /\ n \in Nat /\ Last(s) = s[n + 1]
    BY DEF Last
  <1>2. DOMAIN Front(s) = 1 .. n /\ \A i \in 1 .. n : Front(s)[i] = s[i]
    <2>1. \A r \in Seq(Types), k \in Nat : k <= Len(r) =>
            /\ DOMAIN SubSeq(r, 1, k) = 1 .. k
            /\ \A i \in 1 .. k : SubSeq(r, 1, k)[i] = r[i]
      OBVIOUS
    <2>2. Front(s) = SubSeq(s, 1, n) /\ n <= Len(s)
      BY <1>1 DEF Front
    <2> QED
      BY <1>1, <2>1, <2>2
  <1> HIDE DEF n
  <1>3. \A i : i \in 1 .. (n + 1) <=> i \in 1 .. n \/ i = n + 1
    BY <1>1
  <1> QED
    BY <1>1, <1>2, <1>3 DEF ToSet

LEMMA SameMembers ==
  ASSUME NEW S, NEW T, \A u : u \in S <=> u \in T
  PROVE  S = T
  OBVIOUS

----------------------------------------------------------------------------
(* A step that records nothing and makes no type known                      *)
LEMMA MapQuiet ==
  ASSUME MapInv, RegInv', agenda # << >>, NEW new \in Seq(JobSet), agenda' = new \o Rest,
         UNCHANGED <<ty_map, root>>,
         \A p : is_recursive(p)' <=> is_recursive(p),
         \A p, v, u : Promises(Job, p, v, u) <=> Promised(new, p, v, u)
  PROVE  MapInv'
  <1>1. \A p, v, u : Promised(agenda', p, v, u) <=> Promised(agenda, p, v, u)
    BY AgendaPromises DEF MapInv
  <1>2. /\ \A p, v, u : Records(p, v, u)' <=> Records(p, v, u)
        /\ \A p, v, u : Owed(p, v, u)' <=> Owed(p, v, u)
        /\ \A t : Reached(t)' <=> Reached(t)
    BY DEF Records, Owed, Reached
  <1>3. NothingMissing'
    BY <1>1, <1>2 DEF MapInv, NothingMissing
  <1>4. KnownReached'
    BY <1>2 DEF MapInv, KnownReached
  <1>5. NoneEmpty'
    BY DEF MapInv, NoneEmpty
  <1> QED
    BY <1>3, <1>4, <1>5 DEF MapInv

(* A step that records a type t, which may be new; what t holds is promised *)
(* when it is.                                                              *)
LEMMA MapRecords ==
  ASSUME MapInv, RegInv', agenda # << >>, NEW new \in Seq(JobSet), agenda' = new \o Rest,
         UNCHANGED root, NEW t, ty_map' = Recorded(Job.parent, Job.variant, t),
         \A p : is_recursive(p)' <=> is_recursive(p) \/ p = t,
         \A p, v, u : Promises(Job, p, v, u) <=> p = Job.parent /\ v = Job.variant /\ u = t,
         \A p, v, u : Promised(new, p, v, u) <=> p = t /\ ~ is_recursive(t) /\ Holds(p, v, u),
         t \in Types => ~ Transparent(t),
         Job.parent = RootId => t \in Types
  PROVE  MapInv'
  <1>1. \A p, v, u :
          /\ Promised(agenda, p, v, u) <=> Promises(Job, p, v, u) \/ Promised(Rest, p, v, u)
          /\ Promised(agenda', p, v, u) <=> Promised(new, p, v, u) \/ Promised(Rest, p, v, u)
    BY AgendaPromises DEF MapInv
  <1>2. /\ \A p, v, u : Records(p, v, u)' <=>
                          Records(p, v, u) \/ (p = Job.parent /\ v = Job.variant /\ u = t)
        /\ NoneEmpty'
    BY RecordsAlso DEF MapInv
  <1>3. /\ \A p, v, u : Owed(p, v, u)' <=> Owed(p, v, u) \/ (p = t /\ Holds(p, v, u))
        /\ \A s : Reached(s)' <=> Reached(s)
    BY DEF Owed, Reached
  <1>4. NothingMissing'
    <2> SUFFICES ASSUME NEW p, NEW v, NEW u
                 PROVE  Records(p, v, u)' \/ Promised(agenda', p, v, u) <=> Owed(p, v, u)'
      BY DEF NothingMissing
    <2>1. Records(p, v, u) \/ Promised(agenda, p, v, u) <=> Owed(p, v, u)
      BY DEF MapInv, NothingMissing
    <2>2. p = t /\ is_recursive(t) /\ Holds(p, v, u) => Owed(p, v, u)
      BY DEF Owed
    <2>3. Promised(new, p, v, u) <=> p = t /\ ~ is_recursive(t) /\ Holds(p, v, u)
      OBVIOUS
    <2>4. Promises(Job, p, v, u) <=> p = Job.parent /\ v = Job.variant /\ u = t
      OBVIOUS
    <2> QED
      BY <1>1, <1>2, <1>3, <2>1, <2>2, <2>3, <2>4
  <1>5. t \in Types => Reached(t)
    <2> SUFFICES ASSUME t \in Types PROVE Reached(t)
      OBVIOUS
    <2>1. Owed(Job.parent, Job.variant, t)
      BY <1>1 DEF MapInv, NothingMissing
    <2>2. CASE t = Strip[root]
      BY <2>2 DEF Reached
    <2>3. CASE is_recursive(Job.parent) /\ Holds(Job.parent, Job.variant, t)
      <3>1. Job.parent \in Types /\ Reached(Job.parent)
        BY <2>3 DEF Holds, MapInv, KnownReached
      <3>2. t \in ChildTypes(Job.parent)
        BY <2>3, <3>1, HoldsAre
      <3> QED
        BY <3>1, <3>2 DEF Reached, ClosedSet
    <2> QED
      BY <2>1, <2>2, <2>3 DEF Owed
  <1>6. KnownReached'
    <2>1. ASSUME NEW p, NEW v, NEW u, Records(p, v, u)'
          PROVE  is_recursive(u)' /\ (p = RootId => u \in Types)
      BY <1>2, <2>1 DEF MapInv, KnownReached
    <2>2. ASSUME NEW s \in Types, is_recursive(s)' PROVE ~ Transparent(s) /\ Reached(s)'
      BY <1>3, <1>5, <2>2 DEF MapInv, KnownReached
    <2> QED
      BY <2>1, <2>2 DEF KnownReached
  <1> QED
    BY <1>2, <1>4, <1>6 DEF MapInv

LEMMA MapInitially == RegInit => MapInv
  <1> SUFFICES ASSUME RegInit PROVE MapInv
    OBVIOUS
  <1> DEFINE job == Register(RootId, 0, root)
  <1>1. RegInv
    BY RegInitial
  <1>2. ty_map = << >> /\ agenda = << job >> /\ ty_map_stack = << >> /\ ty_done = {}
    BY DEF RegInit
  <1>3. \A p, v, u : Promises(job, p, v, u) <=> p = RootId /\ v = 0 /\ u = Strip[root]
    BY DEF Promises, Register
  <1> HIDE DEF job
  <1>4. DOMAIN ty_map = {} /\ \A p : ~ is_recursive(p)
    BY <1>2 DEF is_recursive, ToSet
  <1>5. \A p, v, u : ~ Records(p, v, u)
    BY <1>4 DEF Records
  <1>6. NothingMissing
    BY <1>2, <1>3, <1>4, <1>5, PromisedByFew DEF NothingMissing, Owed
  <1>7. KnownReached
    BY <1>4, <1>5 DEF KnownReached
  <1>8. NoneEmpty
    <2>1. ty_map = [p \in {} |-> [v \in DOMAIN ty_map[p] |-> ty_map[p][v]]]
      BY <1>2
    <2> QED
      BY <1>4, <2>1 DEF NoneEmpty
  <1> QED
    BY <1>1, <1>6, <1>7, <1>8 DEF MapInv

LEMMA MapStep == MapInv /\ RegNext => MapInv'
  <1> SUFFICES ASSUME MapInv, RegNext PROVE MapInv'
    OBVIOUS
  <1>1. RegInv /\ RegInv'
    BY RegInvStep DEF MapInv
  <1>2. agenda # << >>
    BY DEF RegNext, VisitNew, VisitKnown, RegisterInner, RegisterType, RegisterVariant,
           RegisterUnit, pop_ty, At
  <1>3. /\ agenda \in Seq(JobSet) /\ Rest \in Seq(JobSet) /\ << >> \in Seq(JobSet)
        /\ Job \in JobSet /\ Job.parent \in Types \cup {RootId}
        /\ Rest = << >> \o Rest
    BY <1>1, <1>2, JobTypes DEF RegInv, Rest
  <1>4. \A p, v, u : ~ Promised(<< >>, p, v, u)
    BY PromisedByFew
  <1>5. CASE VisitNew
    <2> DEFINE job == Register(Job.parent, Job.variant, Job.ty)
    <2>1. Job.do = "visit" /\ agenda' = << job >> \o Rest
          /\ UNCHANGED <<ty_map, ty_map_stack, ty_done, root>>
      BY <1>5 DEF VisitNew, At
    <2>2. job \in JobSet
      BY <1>1, <1>2, <2>1, JobTypes DEF RegInv, Register, JobSet
    <2>3. \A p, v, u : Promises(Job, p, v, u) <=> Promises(job, p, v, u)
      BY <2>1 DEF Promises, Register
    <2> HIDE DEF job
    <2>4. << job >> \in Seq(JobSet)
          /\ \A p, v, u : Promises(Job, p, v, u) <=> Promised(<< job >>, p, v, u)
      BY <2>2, <2>3, PromisedByFew
    <2>5. \A p : is_recursive(p)' <=> is_recursive(p)
      BY <2>1 DEF is_recursive
    <2> QED
      BY <1>1, <1>2, <2>1, <2>4, <2>5, MapQuiet
  <1>6. CASE VisitKnown
    <2>1. /\ Job.do = "visit" /\ is_recursive(Job.ty) /\ agenda' = << >> \o Rest
          /\ ty_map' = Recorded(Job.parent, Job.variant, Job.ty)
          /\ ty_done' = ty_done \cup {Job.ty} /\ UNCHANGED <<ty_map_stack, root>>
      BY <1>3, <1>6 DEF VisitKnown, At
    <2>2. Job.ty \in Types /\ ~ Transparent(Job.ty)
      BY <1>1, <1>2, <2>1, JobTypes DEF RegInv, MapInv, KnownReached
    <2>3. \A p, v, u : Promises(Job, p, v, u) <=>
                         p = Job.parent /\ v = Job.variant /\ u = Job.ty
      BY <2>1, <2>2, StripFollows DEF Promises
    <2>4. \A p : is_recursive(p)' <=> is_recursive(p) \/ p = Job.ty
      BY <2>1 DEF is_recursive
    <2> QED
      BY <1>1, <1>2, <1>3, <1>4, <2>1, <2>2, <2>3, <2>4, MapRecords
  <1>7. CASE RegisterInner
    <2> DEFINE inner == Fields[Job.ty][0][1]
               job == Visit(Job.parent, Job.variant, inner)
    <2>1. Job.do = "register" /\ Transparent(Job.ty) /\ agenda' = << job >> \o Rest
          /\ UNCHANGED <<ty_map, ty_map_stack, ty_done, root>>
      BY <1>7 DEF RegisterInner, At
    <2>2. Job.ty \in Types /\ inner \in Types /\ Job.variant \in Nat
      BY <1>1, <1>2, <2>1, JobTypes, InnerType DEF RegInv
    <2>3. Strip[Job.ty] = Strip[inner]
      BY <2>1, <2>2, StripFollows
    <2> HIDE DEF inner
    <2>4. job \in JobSet
      BY <1>3, <2>2 DEF Visit, JobSet, Ids
    <2>5. \A p, v, u : Promises(Job, p, v, u) <=> Promises(job, p, v, u)
      BY <2>1, <2>3 DEF Promises, Visit
    <2> HIDE DEF job
    <2>6. << job >> \in Seq(JobSet)
          /\ \A p, v, u : Promises(Job, p, v, u) <=> Promised(<< job >>, p, v, u)
      BY <2>4, <2>5, PromisedByFew
    <2>7. \A p : is_recursive(p)' <=> is_recursive(p)
      BY <2>1 DEF is_recursive
    <2> QED
      BY <1>1, <1>2, <2>1, <2>6, <2>7, MapQuiet
  <1>8. CASE RegisterType
    <2> DEFINE t == Job.ty
               new == Body(t) \o << Pop(t) >>
    <2>1. /\ Job.do = "register" /\ ~ Transparent(t)
          /\ ty_map_stack' = Append(ty_map_stack, t)
          /\ ty_map' = Recorded(Job.parent, Job.variant, t)
          /\ UNCHANGED <<ty_done, root>>
      BY <1>8 DEF RegisterType, At
    <2>2. t \in Types /\ ~ is_recursive(t) /\ ty_map_stack \in Seq(Types)
      BY <1>1, <1>2, <2>1, JobTypes DEF RegInv, RegTypeOK, HeadIsNew, At
    <2>3. Body(t) \in Seq(JobSet) /\ Pop(t) \in JobSet
      BY <2>2, FromJobs DEF Pop, JobSet, Ids
    <2>4. new \in Seq(JobSet) /\ agenda' = new \o Rest
      <3>1. agenda' = Body(t) \o << Pop(t) >> \o Rest
        BY <1>8 DEF RegisterType
      <3> QED
        BY <1>3, <2>3, <3>1
    <2>5. \A p, v, u : Promised(new, p, v, u) <=> p = t /\ ~ is_recursive(t) /\ Holds(p, v, u)
      <3> SUFFICES ASSUME NEW p, NEW v, NEW u
                   PROVE  Promised(new, p, v, u) <=> p = t /\ Holds(p, v, u)
        BY <2>2
      <3>1. ~ Promises(Pop(t), p, v, u)
        BY DEF Promises, Pop
      <3>2. ~ Promised(<< Pop(t) >>, p, v, u)
        BY <3>1, PromisedByFew
      <3>3. << Pop(t) >> \in Seq(JobSet)
        BY <2>3
      <3>4. Promised(new, p, v, u) <=> Promised(Body(t), p, v, u) \/ Promised(<< Pop(t) >>, p, v, u)
        BY <2>3, <3>3, PromisedJoined
      <3> QED
        BY <2>2, <3>2, <3>4, BodyPromises
    <2>6. \A p, v, u : Promises(Job, p, v, u) <=> p = Job.parent /\ v = Job.variant /\ u = t
      BY <2>1, <2>2, StripFollows DEF Promises
    <2>7. \A p : is_recursive(p)' <=> is_recursive(p) \/ p = t
      BY <2>1, <2>2, AppendedKnown DEF is_recursive
    <2> HIDE DEF new, t
    <2> QED
      BY <1>1, <1>2, <2>1, <2>2, <2>4, <2>5, <2>6, <2>7, MapRecords
  <1>9. CASE RegisterVariant
    <2> DEFINE t == Job.ty
               w == Job.variant
               jobs == VariantJobs(t, w)
               more == From(t, w + 1)
    <2>1. Job.do = "variants" /\ UNCHANGED <<ty_map, ty_map_stack, ty_done, root>>
          /\ agenda' = jobs \o more \o Rest
      BY <1>9 DEF RegisterVariant, At
    <2>2. t \in Types /\ Walked(t) /\ w \in Variants(t) /\ w \in Nat /\ w + 1 \in Nat
      BY <1>1, <1>2, <2>1, JobTypes DEF RegInv
    <2>3. jobs \in Seq(JobSet) /\ more \in Seq(JobSet)
      BY <2>2, VariantJobsPlain, FromJobs
    <2>4. ASSUME NEW p, NEW v, NEW u
          PROVE  Promises(Job, p, v, u) <=> Promised(jobs \o more, p, v, u)
      <3>1. Promised(jobs \o more, p, v, u) <=>
              p = t /\ Holds(p, v, u) /\ (v = w \/ v >= w + 1)
        <4>1. Promised(jobs, p, v, u) <=> p = t /\ v = w /\ Holds(p, v, u)
          BY <2>2, VariantPromises
        <4>2. Promised(more, p, v, u) <=> p = t /\ v >= w + 1 /\ Holds(p, v, u)
          BY <2>2, FromPromises
        <4> HIDE DEF jobs, more
        <4>3. Promised(jobs \o more, p, v, u) <=> Promised(jobs, p, v, u) \/ Promised(more, p, v, u)
          BY <2>3, PromisedJoined
        <4> QED
          BY <4>1, <4>2, <4>3
      <3>2. Promises(Job, p, v, u) <=> p = t /\ v >= w /\ Holds(p, v, u)
        BY <2>1 DEF Promises
      <3>3. p = t /\ Holds(p, v, u) => v \in Nat
        BY <2>2, FieldsAssumption DEF Holds, Variants
      <3>4. ASSUME v \in Nat PROVE v >= w <=> v = w \/ v >= w + 1
        BY <2>2, <3>4
      <3> HIDE DEF t, w, jobs, more
      <3> QED
        BY <3>1, <3>2, <3>3, <3>4
    <2>5. jobs \o more \in Seq(JobSet) /\ agenda' = (jobs \o more) \o Rest
      BY <1>3, <2>1, <2>3
    <2>6. \A p : is_recursive(p)' <=> is_recursive(p)
      BY <2>1 DEF is_recursive
    <2> HIDE DEF jobs, more
    <2> QED
      BY <1>1, <1>2, <2>1, <2>4, <2>5, <2>6, MapQuiet
  <1>10. CASE RegisterUnit
    <2>1. /\ Job.do = "unit" /\ agenda' = << >> \o Rest
          /\ ty_map' = Recorded(Job.parent, Job.variant, Phantom)
          /\ ty_done' = ty_done \cup {Phantom} /\ UNCHANGED <<ty_map_stack, root>>
      BY <1>3, <1>10 DEF RegisterUnit, At
    <2>2. Phantom \in Types => ~ Walked(Phantom) /\ ~ Transparent(Phantom)
      BY PhantomAssumption DEF Walked, Transparent, Leaves, Boxes, Lists
    <2>3. \A p, v, u : Promises(Job, p, v, u) <=> p = Job.parent /\ v = Job.variant /\ u = Phantom
      BY <2>1 DEF Promises
    <2>4. \A p, v, u : ~ (p = Phantom /\ Holds(p, v, u))
      BY <2>2 DEF Holds
    <2>5. \A p : is_recursive(p)' <=> is_recursive(p) \/ p = Phantom
      BY <2>1 DEF is_recursive
    <2>6. Job.parent # RootId
      BY <1>1, <1>2, <2>1, JobTypes, TypesAssumption DEF RegInv
    <2>7. \A p, v, u : Promised(<< >>, p, v, u) <=> p = Phantom /\ ~ is_recursive(Phantom) /\ Holds(p, v, u)
      BY <1>4, <2>4
    <2> QED
      BY <1>1, <1>2, <1>3, <2>1, <2>2, <2>3, <2>5, <2>6, <2>7, MapRecords
  <1>11. CASE pop_ty
    <2>1. /\ Job.do = "pop" /\ agenda' = << >> \o Rest /\ ty_map_stack # << >>
          /\ ty_map_stack' = Front(ty_map_stack)
          /\ ty_done' = ty_done \cup {Last(ty_map_stack)} /\ UNCHANGED <<ty_map, root>>
      BY <1>3, <1>11 DEF pop_ty, At
    <2>2. \A p, v, u : Promises(Job, p, v, u) <=> Promised(<< >>, p, v, u)
      BY <1>4, <2>1 DEF Promises
    <2>3. ty_map_stack \in Seq(Types)
      BY <1>1 DEF RegInv, RegTypeOK
    <2>4. \A p : is_recursive(p)' <=> is_recursive(p)
      BY <2>1, <2>3, FrontKnown DEF is_recursive
    <2> QED
      BY <1>1, <1>2, <1>3, <2>1, <2>2, <2>4, MapQuiet
  <1> QED
    BY <1>5, <1>6, <1>7, <1>8, <1>9, <1>10, <1>11 DEF RegNext

(* When the walk is over, what is owed is recorded, the types that are      *)
(* known are those reachable, and both together make ty_map the type graph. *)
LEMMA MapAtTheEnd == MapInv => MapsTheGrammar
  <1> SUFFICES ASSUME MapInv, agenda = << >> PROVE ty_map = TypeGraph
    BY DEF MapsTheGrammar, Registered
  <1>1. \A p, v, u : Records(p, v, u) <=> Owed(p, v, u)
    BY PromisedByFew DEF MapInv, NothingMissing
  <1>2. RootId \notin Types
    BY TypesAssumption
  <1>3. Records(RootId, 0, Strip[root]) /\ Strip[root] \in Types /\ is_recursive(Strip[root])
    BY <1>1 DEF Owed, MapInv, KnownReached
  <1> DEFINE Known == {t \in Types : is_recursive(t)}
  <1>4. ClosedSet(Known)
    <2> SUFFICES ASSUME NEW t \in Known, NEW c \in ChildTypes(t) PROVE c \in Known
      BY DEF ClosedSet
    <2>1. PICK v : c \in Types /\ Holds(t, v, c)
      BY HoldsAre
    <2>2. Records(t, v, c)
      BY <1>1, <2>1 DEF Owed
    <2> QED
      BY <2>1, <2>2 DEF MapInv, KnownReached
  <1>5. Reachable = Known
    <2>1. Reachable = Least({Strip[root]})
      BY <1>3, ClosureIsLeast DEF Reachable
    <2>2. ASSUME NEW t \in Known PROVE t \in Least({Strip[root]})
      BY DEF MapInv, KnownReached, Reached, Least
    <2>3. ASSUME NEW t \in Least({Strip[root]}) PROVE t \in Known
      BY <1>3, <1>4 DEF Least
    <2> QED
      BY <2>1, <2>2, <2>3
  <1> HIDE DEF Known
  <1>6. \A p, v, u : Records(p, v, u) <=>
          \/ p = RootId /\ v = 0 /\ u = Strip[root]
          \/ p \in Reachable /\ Walked(p) /\ v \in Variants(p) /\ u \in Children(p, v)
    BY <1>1, <1>5 DEF Owed, Holds, Known
  <1>7. Reachable \subseteq Types
    BY <1>5 DEF Known
  <1>8. DOMAIN ty_map = Parents \cup {RootId}
    <2>1. \A p : p \in DOMAIN ty_map <=> \E v, u : Records(p, v, u)
      BY DEF Records, MapInv, NoneEmpty
    <2>2. \A p : p \in Parents <=> \E v, u : p \in Reachable /\ Walked(p) /\ v \in Variants(p) /\ u \in Children(p, v)
      BY DEF Parents
    <2> QED
      BY <1>6, <2>1, <2>2
  <1>9. RootId \notin Parents
    BY <1>2, <1>7 DEF Parents
  <1> DEFINE Row(p) == IF p = RootId THEN [v \in {0} |-> {Strip[root]}]
                       ELSE [v \in {w \in Variants(p) : Children(p, w) # {}} |-> Children(p, v)]
  <1>10. ASSUME NEW p \in DOMAIN ty_map
         PROVE  [v \in DOMAIN ty_map[p] |-> ty_map[p][v]] = Row(p)
    <2>1. \A v : v \in DOMAIN ty_map[p] <=> \E u : Records(p, v, u)
      BY DEF Records, MapInv, NoneEmpty
    <2>2. \A v \in DOMAIN ty_map[p] : \A u : u \in ty_map[p][v] <=> Records(p, v, u)
      BY DEF Records
    <2>3. CASE p = RootId
      <3>1. \A v, u : Records(p, v, u) <=> v = 0 /\ u = Strip[root]
        BY <1>2, <1>6, <1>7, <2>3
      <3>2. DOMAIN ty_map[p] = {0}
        BY <2>1, <3>1
      <3>3. ty_map[p][0] = {Strip[root]}
        BY <2>2, <3>1, <3>2
      <3> QED
        BY <2>3, <3>2, <3>3
    <2>4. CASE p # RootId
      <3>1. p \in Reachable /\ Walked(p)
        BY <1>8, <2>4 DEF Parents
      <3>2. \A v, u : Records(p, v, u) <=> v \in Variants(p) /\ u \in Children(p, v)
        BY <1>6, <2>4, <3>1
      <3> DEFINE D == {w \in Variants(p) : Children(p, w) # {}}
      <3>3. DOMAIN ty_map[p] = D
        BY <2>1, <3>2
      <3>4. \A v \in D : ty_map[p][v] = Children(p, v)
        <4> SUFFICES ASSUME NEW v \in D PROVE ty_map[p][v] = Children(p, v)
          OBVIOUS
        <4>1. v \in DOMAIN ty_map[p] /\ v \in Variants(p)
          BY <3>3
        <4>2. \A u : u \in ty_map[p][v] <=> u \in Children(p, v)
          BY <2>2, <3>2, <4>1
        <4> QED
          BY <4>2, SameMembers
      <3>5. Row(p) = [v \in D |-> Children(p, v)]
        BY <2>4
      <3> HIDE DEF D
      <3> QED
        BY <3>3, <3>4, <3>5
    <2> QED
      BY <2>3, <2>4
  <1>11. TypeGraph = [p \in Parents \cup {RootId} |-> Row(p)]
    BY DEF TypeGraph
  <1>12. ty_map = [p \in DOMAIN ty_map |-> [v \in DOMAIN ty_map[p] |-> ty_map[p][v]]]
    BY DEF MapInv, NoneEmpty
  <1> HIDE DEF Row
  <1>13. [p \in DOMAIN ty_map |-> [v \in DOMAIN ty_map[p] |-> ty_map[p][v]]]
           = [p \in DOMAIN ty_map |-> Row(p)]
    BY <1>10
  <1> QED
    BY <1>8, <1>11, <1>12, <1>13

LEMMA MapInvStep == MapInv /\ [RegNext]_regVars => MapInv'
  <1> SUFFICES ASSUME MapInv, [RegNext]_regVars PROVE MapInv'
    OBVIOUS
  <1>1. CASE UNCHANGED regVars
    <2>1. /\ ty_map' = ty_map /\ ty_map_stack' = ty_map_stack /\ ty_done' = ty_done
          /\ agenda' = agenda /\ root' = root
      BY <1>1 DEF regVars
    <2>2. RegInv'
      BY <1>1, RegInvStep DEF MapInv
    <2>3. NothingMissing'
      BY <2>1 DEF MapInv, NothingMissing, Records, Owed, is_recursive
    <2>4. KnownReached'
      BY <2>1 DEF MapInv, KnownReached, Records, Reached, is_recursive
    <2>5. NoneEmpty'
      BY <2>1 DEF MapInv, NoneEmpty
    <2> QED
      BY <2>2, <2>3, <2>4, <2>5 DEF MapInv
  <1> QED
    BY <1>1, MapStep

(* For every grammar: the walk over the types, cut short wherever a type is *)
(* already known, leaves exactly the type graph of the fuzzed type.         *)
THEOREM LeavesTheTypeGraph == RegSpec => []MapsTheGrammar
  BY MapInitially, MapInvStep, MapAtTheEnd, PTL DEF RegSpec
=============================================================================
