-------------------------- MODULE SideEffectsProofs --------------------------
(****************************************************************************)
(* Proofs about SideEffects, for any number of processes, any operations    *)
(* and any kills: that a changed setting has a note, that a serve clears    *)
(* the notes of its predecessors, and that no note goes before its time.    *)
(*                                                                          *)
(* Every sequence of steps is Orderly, and stays so as steps are taken from *)
(* its front: this is all that the proofs use of the operations.            *)
(****************************************************************************)
EXTENDS SideEffects, TLAPS

USE PidsAreDistinct, Bounds

Guarded == {"limiter", "metrics"}

StepSet ==
  ({"read", "set"} \X (Effects \ CarriesPrior)) \cup ({"apply"} \X CarriesPrior)
    \cup ({"note", "undo", "clear"} \X Effects) \cup {<<"work", "none">>}

Ahead(s, x) == \E i \in 1..Len(s) : s[i] = x

\* An undoing is followed by its clear and a clear follows its undoing; a
\* guarded setting is noted just before it is set, and set once; caps and the
\* profiler are not changed again once they are noted.
Orderly(s) ==
  /\ s \in Seq(StepSet)
  /\ \A i \in 1..Len(s) : s[i][1] = "undo" => i < Len(s) /\ s[i + 1] = <<"clear", s[i][2]>>
  /\ \A i \in 2..Len(s) : s[i][1] = "clear" => s[i - 1] = <<"undo", s[i][2]>>
  /\ \A i \in 2..Len(s) : s[i][1] = "set" /\ s[i][2] \in Guarded => s[i - 1] = <<"note", s[i][2]>>
  /\ \A i, j \in 1..Len(s) : s[i][1] = "set" /\ s[j] = s[i] => i = j
  /\ \A i, j \in 1..Len(s) : s[i][1] = "note" /\ s[j] = <<"apply", s[i][2]>> => j < i

\* A sequence that may begin an operation or its `finally`.
Opens(s) == s # <<>> => s[1][1] \notin {"clear", "set"}

\* Two sequences about different effects, or the second only undoes.
Apart(s, t) ==
  \A i \in 1..Len(s), j \in 1..Len(t) : s[i][2] # t[j][2] \/ t[j][1] \in {"undo", "clear"}

LEMMA TailOrderly ==
  ASSUME NEW s, Orderly(s), s # <<>>
  PROVE  /\ Orderly(Tail(s)) /\ s[1] \in StepSet /\ Head(s) = s[1]
         /\ \A x : Ahead(Tail(s), x) => Ahead(s, x)
         /\ Len(Tail(s)) = Len(s) - 1
         /\ \A i \in 1..Len(Tail(s)) : Tail(s)[i] = s[i + 1]
<1>1. s \in Seq(StepSet) /\ Len(s) \in Nat /\ Len(s) > 0
  BY DEF Orderly
<1>2. /\ Tail(s) \in Seq(StepSet) /\ Len(Tail(s)) = Len(s) - 1 /\ s[1] \in StepSet
      /\ Head(s) = s[1] /\ \A i \in 1..Len(Tail(s)) : Tail(s)[i] = s[i + 1]
  BY <1>1
<1>3. \A x : Ahead(Tail(s), x) => Ahead(s, x)
  <2> SUFFICES ASSUME NEW x, NEW i \in 1..Len(Tail(s)), Tail(s)[i] = x PROVE Ahead(s, x)
    BY DEF Ahead
  <2>1. i + 1 \in 1..Len(s) /\ s[i + 1] = x
    BY <1>1, <1>2
  <2> QED
    BY <2>1 DEF Ahead
<1>4. \A i \in 1..Len(Tail(s)) : i + 1 \in 2..Len(s) /\ (i # 1 => i - 1 \in 1..Len(Tail(s)))
  BY <1>1, <1>2
<1> DEFINE t == Tail(s)
<1> HIDE DEF t
<1>5. /\ t \in Seq(StepSet) /\ Len(t) = Len(s) - 1 /\ \A i \in 1..Len(t) : t[i] = s[i + 1]
  BY <1>2 DEF t
<1>6. \A i \in 1..Len(t) : t[i][1] = "undo" => i < Len(t) /\ t[i + 1] = <<"clear", t[i][2]>>
  <2> SUFFICES ASSUME NEW i \in 1..Len(t), t[i][1] = "undo"
               PROVE  i < Len(t) /\ t[i + 1] = <<"clear", t[i][2]>>
    OBVIOUS
  <2>1. i + 1 \in 1..Len(s) /\ s[i + 1][1] = "undo" /\ t[i] = s[i + 1]
    BY <1>1, <1>5
  <2>2. i + 1 < Len(s) /\ s[i + 2] = <<"clear", s[i + 1][2]>>
    BY <1>1, <2>1 DEF Orderly
  <2>3. i + 1 \in 1..Len(t) /\ t[i + 1] = s[i + 2]
    BY <1>1, <1>5, <2>2
  <2> QED
    BY <1>1, <1>5, <2>1, <2>2, <2>3
<1>7. \A i \in 2..Len(t) :
        /\ t[i][1] = "clear" => t[i - 1] = <<"undo", t[i][2]>>
        /\ t[i][1] = "set" /\ t[i][2] \in Guarded => t[i - 1] = <<"note", t[i][2]>>
  <2> SUFFICES ASSUME NEW i \in 2..Len(t)
               PROVE  /\ t[i][1] = "clear" => t[i - 1] = <<"undo", t[i][2]>>
                      /\ t[i][1] = "set" /\ t[i][2] \in Guarded => t[i - 1] = <<"note", t[i][2]>>
    OBVIOUS
  <2>1. i + 1 \in 2..Len(s) /\ t[i] = s[i + 1] /\ t[i - 1] = s[(i + 1) - 1]
    BY <1>1, <1>5
  <2> QED
    BY <2>1 DEF Orderly
<1>8. \A i, j \in 1..Len(t) : t[i][1] = "set" /\ t[j] = t[i] => i = j
  <2> SUFFICES ASSUME NEW i \in 1..Len(t), NEW j \in 1..Len(t), t[i][1] = "set", t[j] = t[i]
               PROVE  i = j
    OBVIOUS
  <2>1. i + 1 \in 1..Len(s) /\ j + 1 \in 1..Len(s) /\ t[i] = s[i + 1] /\ t[j] = s[j + 1]
    BY <1>1, <1>5
  <2>2. i + 1 = j + 1
    BY <2>1 DEF Orderly
  <2> QED
    BY <2>2
<1>9. \A i, j \in 1..Len(t) : t[i][1] = "note" /\ t[j] = <<"apply", t[i][2]>> => j < i
  <2> SUFFICES ASSUME NEW i \in 1..Len(t), NEW j \in 1..Len(t), t[i][1] = "note",
                      t[j] = <<"apply", t[i][2]>>
               PROVE  j < i
    OBVIOUS
  <2>1. i + 1 \in 1..Len(s) /\ j + 1 \in 1..Len(s) /\ t[i] = s[i + 1] /\ t[j] = s[j + 1]
    BY <1>1, <1>5
  <2>2. j + 1 < i + 1
    BY <2>1 DEF Orderly
  <2> QED
    BY <2>2
<1>10. Orderly(t)
  BY <1>5, <1>6, <1>7, <1>8, <1>9 DEF Orderly
<1> QED
  BY <1>2, <1>3, <1>10 DEF t

LEMMA ConcatIs ==
  ASSUME NEW S, NEW s \in Seq(S), NEW t \in Seq(S)
  PROVE  /\ s \o t \in Seq(S) /\ Len(s \o t) = Len(s) + Len(t)
         /\ \A i \in 1..Len(s) : (s \o t)[i] = s[i]
         /\ \A i \in 1..Len(t) : (s \o t)[Len(s) + i] = t[i]
         /\ \A i \in 1..Len(s \o t) : i \in 1..Len(s) \/ \E j \in 1..Len(t) : i = Len(s) + j
<1>1. ASSUME NEW i \in 1..(Len(s) + Len(t)), i \notin 1..Len(s) PROVE \E j \in 1..Len(t) : i = Len(s) + j
  <2>1. i - Len(s) \in 1..Len(t) /\ i = Len(s) + (i - Len(s))
    BY <1>1
  <2> QED
    BY <2>1
<1> QED
  BY <1>1

LEMMA ConcatOrderly ==
  ASSUME NEW s, NEW t, Orderly(s), Orderly(t), Opens(t), Apart(s, t)
  PROVE  Orderly(s \o t)
<1> DEFINE u == s \o t
<1> DEFINE S == StepSet
<1>1. /\ s \in Seq(S) /\ t \in Seq(S) /\ Len(s) \in Nat /\ Len(t) \in Nat
  BY DEF Orderly
<1> HIDE DEF S
<1>2. /\ u \in Seq(S) /\ Len(u) = Len(s) + Len(t)
      /\ \A i \in 1..Len(s) : u[i] = s[i]
      /\ \A i \in 1..Len(t) : u[Len(s) + i] = t[i]
      /\ \A i \in 1..Len(u) : i \in 1..Len(s) \/ \E j \in 1..Len(t) : i = Len(s) + j
  BY <1>1, ConcatIs
<1> HIDE DEF u
<1>3. ASSUME NEW i \in 1..Len(u), u[i][1] = "undo"
      PROVE  i < Len(u) /\ u[i + 1] = <<"clear", u[i][2]>>
  <2>1. CASE i \in 1..Len(s)
    <3>1. i < Len(s) /\ s[i + 1] = <<"clear", s[i][2]>>
      BY <1>2, <1>3, <2>1 DEF Orderly
    <3>2. i + 1 \in 1..Len(s)
      BY <1>1, <2>1, <3>1
    <3> QED
      BY <1>1, <1>2, <2>1, <3>1, <3>2
  <2>2. CASE \E j \in 1..Len(t) : i = Len(s) + j
    <3>1. PICK j \in 1..Len(t) : i = Len(s) + j
      BY <2>2
    <3>2. j < Len(t) /\ t[j + 1] = <<"clear", t[j][2]>>
      BY <1>2, <1>3, <3>1 DEF Orderly
    <3>3. j + 1 \in 1..Len(t) /\ i + 1 = Len(s) + (j + 1)
      BY <1>1, <3>1, <3>2
    <3> QED
      BY <1>1, <1>2, <3>1, <3>2, <3>3
  <2> QED
    BY <1>2, <2>1, <2>2
<1>4. ASSUME NEW i \in 2..Len(u)
      PROVE  /\ u[i][1] = "clear" => u[i - 1] = <<"undo", u[i][2]>>
             /\ u[i][1] = "set" /\ u[i][2] \in Guarded => u[i - 1] = <<"note", u[i][2]>>
  <2>1. CASE i \in 1..Len(s)
    <3>1. i \in 2..Len(s) /\ i - 1 \in 1..Len(s)
      BY <1>1, <2>1
    <3>2. u[i] = s[i] /\ u[i - 1] = s[i - 1]
      BY <1>2, <3>1
    <3> QED
      BY <3>1, <3>2 DEF Orderly
  <2>2. CASE \E j \in 1..Len(t) : i = Len(s) + j
    <3>1. PICK j \in 1..Len(t) : i = Len(s) + j
      BY <2>2
    <3>2. CASE j = 1
      <4>1. t # <<>> /\ u[i] = t[1]
        BY <1>1, <1>2, <3>1, <3>2
      <4> QED
        BY <4>1 DEF Opens
    <3>3. CASE j # 1
      <4>1. j \in 2..Len(t) /\ j - 1 \in 1..Len(t) /\ i - 1 = Len(s) + (j - 1)
        BY <1>1, <3>1, <3>3
      <4>2. u[i] = t[j] /\ u[i - 1] = t[j - 1]
        BY <1>2, <3>1, <4>1
      <4> QED
        BY <4>1, <4>2 DEF Orderly
    <3> QED
      BY <3>2, <3>3
  <2>3. i \in 1..Len(u)
    BY <1>1, <1>2
  <2> QED
    BY <1>2, <2>1, <2>2, <2>3
<1>5. ASSUME NEW i \in 1..Len(u), NEW j \in 1..Len(u)
      PROVE  /\ u[i][1] = "set" /\ u[j] = u[i] => i = j
             /\ u[i][1] = "note" /\ u[j] = <<"apply", u[i][2]>> => j < i
  <2>1. CASE i \in 1..Len(s) /\ j \in 1..Len(s)
    BY <1>2, <2>1 DEF Orderly
  <2>2. CASE i \in 1..Len(s) /\ \E k \in 1..Len(t) : j = Len(s) + k
    <3>1. PICK k \in 1..Len(t) : j = Len(s) + k
      BY <2>2
    <3>2. u[i] = s[i] /\ u[j] = t[k]
      BY <1>2, <2>2, <3>1
    <3>3. s[i][2] # t[k][2] \/ t[k][1] \in {"undo", "clear"}
      BY <2>2 DEF Apart
    <3> QED
      BY <3>2, <3>3
  <2>3. CASE j \in 1..Len(s) /\ \E k \in 1..Len(t) : i = Len(s) + k
    <3>1. PICK k \in 1..Len(t) : i = Len(s) + k
      BY <2>3
    <3>2. u[j] = s[j] /\ u[i] = t[k] /\ j < i
      BY <1>1, <1>2, <2>3, <3>1
    <3>3. s[j][2] # t[k][2] \/ t[k][1] \in {"undo", "clear"}
      BY <2>3 DEF Apart
    <3> QED
      BY <3>2, <3>3
  <2>4. CASE (\E k \in 1..Len(t) : i = Len(s) + k) /\ (\E k \in 1..Len(t) : j = Len(s) + k)
    <3>1. PICK k \in 1..Len(t), l \in 1..Len(t) : i = Len(s) + k /\ j = Len(s) + l
      BY <2>4
    <3>2. u[i] = t[k] /\ u[j] = t[l]
      BY <1>2, <3>1
    <3>3. /\ t[k][1] = "set" /\ t[l] = t[k] => k = l
          /\ t[k][1] = "note" /\ t[l] = <<"apply", t[k][2]>> => l < k
      BY DEF Orderly
    <3> QED
      BY <1>1, <3>1, <3>2, <3>3
  <2> QED
    BY <1>2, <2>1, <2>2, <2>3, <2>4
<1> QED
  BY <1>2, <1>3, <1>4, <1>5 DEF Orderly, u, S

Within(s, E) == \A i \in 1..Len(s) : s[i][2] \in E

Undoes(s) == \A i \in 1..Len(s) : s[i][1] \in {"undo", "clear"}

\* A sequence that an operation may be put together from.
Part(s, E) == Orderly(s) /\ s # <<>> /\ Opens(s) /\ Within(s, E)

LEMMA PartsJoin ==
  ASSUME NEW s, NEW t, NEW E, NEW F, Part(s, E), Part(t, F), E \cap F = {} \/ Undoes(t)
  PROVE  /\ Part(s \o t, E \cup F)
         /\ Undoes(s) /\ Undoes(t) => Undoes(s \o t)
         /\ (s \o t)[1] = s[1]
<1> DEFINE u == s \o t
<1> DEFINE S == StepSet
<1>1. s \in Seq(S) /\ t \in Seq(S) /\ Len(s) \in Nat /\ Len(t) \in Nat /\ Len(s) > 0
  BY DEF Part, Orderly
<1> HIDE DEF S
<1>2. /\ u \in Seq(S) /\ Len(u) = Len(s) + Len(t)
      /\ \A i \in 1..Len(s) : u[i] = s[i]
      /\ \A i \in 1..Len(t) : u[Len(s) + i] = t[i]
      /\ \A i \in 1..Len(u) : i \in 1..Len(s) \/ \E j \in 1..Len(t) : i = Len(s) + j
  BY <1>1, ConcatIs
<1>3. Apart(s, t)
  BY DEF Apart, Part, Within, Undoes
<1>4. Orderly(u)
  BY <1>3, ConcatOrderly DEF Part
<1> HIDE DEF u
<1>5. Within(u, E \cup F)
  <2>1. ASSUME NEW i \in 1..Len(u) PROVE u[i][2] \in E \cup F
    <3>1. CASE i \in 1..Len(s)
      BY <1>2, <3>1 DEF Within, Part
    <3>2. CASE \E j \in 1..Len(t) : i = Len(s) + j
      BY <1>2, <3>2 DEF Within, Part
    <3> QED
      BY <1>2, <3>1, <3>2
  <2> QED
    BY <2>1 DEF Within
<1>8. ASSUME Undoes(s), Undoes(t) PROVE Undoes(u)
  <2>1. ASSUME NEW i \in 1..Len(u) PROVE u[i][1] \in {"undo", "clear"}
    <3>1. CASE i \in 1..Len(s)
      BY <1>2, <1>8, <3>1 DEF Undoes
    <3>2. CASE \E j \in 1..Len(t) : i = Len(s) + j
      BY <1>2, <1>8, <3>2 DEF Undoes
    <3> QED
      BY <1>2, <3>1, <3>2
  <2> QED
    BY <2>1 DEF Undoes
<1>6. u # <<>> /\ u[1] = s[1]
  BY <1>1, <1>2
<1>7. Opens(u)
  BY <1>1, <1>6 DEF Opens, Part
<1> QED
  BY <1>4, <1>5, <1>6, <1>7, <1>8 DEF Part, u

LEMMA TurnIs == ASSUME NEW e \in Effects \ CarriesPrior PROVE Part(Turn(e), {e})
<1> DEFINE s == Turn(e)
<1>1. /\ s = << <<"read", e>>, <<"note", e>>, <<"set", e>> >> /\ Len(s) = 3
      /\ s[1] = <<"read", e>> /\ s[2] = <<"note", e>> /\ s[3] = <<"set", e>>
  BY DEF Turn
<1>2. <<"read", e>> \in StepSet /\ <<"note", e>> \in StepSet /\ <<"set", e>> \in StepSet
  BY DEF StepSet
<1>3. s \in Seq(StepSet)
  BY <1>1, <1>2
<1> HIDE DEF s
<1>4. Orderly(s)
  BY <1>1, <1>3 DEF Orderly
<1>5. s # <<>> /\ Opens(s) /\ Within(s, {e})
  BY <1>1 DEF Opens, Within
<1> QED
  BY <1>4, <1>5 DEF Part, s

LEMMA ChangeIs == ASSUME NEW e \in CarriesPrior PROVE Part(Change(e), {e})
<1> DEFINE s == Change(e)
<1>1. /\ s = << <<"apply", e>>, <<"note", e>> >> /\ Len(s) = 2
      /\ s[1] = <<"apply", e>> /\ s[2] = <<"note", e>>
  BY DEF Change
<1>2. <<"apply", e>> \in StepSet /\ <<"note", e>> \in StepSet
  BY DEF StepSet, CarriesPrior, Effects
<1>3. s \in Seq(StepSet)
  BY <1>1, <1>2
<1> HIDE DEF s
<1>4. Orderly(s)
  BY <1>1, <1>3 DEF Orderly
<1>5. s # <<>> /\ Opens(s) /\ Within(s, {e})
  BY <1>1 DEF Opens, Within
<1> QED
  BY <1>4, <1>5 DEF Part, s

LEMMA PutBackIs ==
  ASSUME NEW e \in Effects
  PROVE  Part(PutBack(e), {e}) /\ Undoes(PutBack(e)) /\ PutBack(e)[1] = <<"undo", e>>
<1> DEFINE s == PutBack(e)
<1>1. /\ s = << <<"undo", e>>, <<"clear", e>> >> /\ Len(s) = 2
      /\ s[1] = <<"undo", e>> /\ s[2] = <<"clear", e>>
  BY DEF PutBack
<1>2. <<"undo", e>> \in StepSet /\ <<"clear", e>> \in StepSet
  BY DEF StepSet
<1>3. s \in Seq(StepSet)
  BY <1>1, <1>2
<1> HIDE DEF s
<1>4. Orderly(s)
  BY <1>1, <1>3 DEF Orderly
<1>5. s # <<>> /\ Opens(s) /\ Within(s, {e}) /\ Undoes(s)
  BY <1>1 DEF Opens, Within, Undoes
<1> QED
  BY <1>1, <1>4, <1>5 DEF Part, s

LEMMA SeedOpeningIs == Part(SeedOpening, {"email_2fa", "limiter"})
<1> DEFINE s == SeedOpening
<1>1. /\ Len(s) = 6
      /\ s[1] = <<"read", "email_2fa">> /\ s[2] = <<"read", "limiter">>
      /\ s[3] = <<"set", "email_2fa">> /\ s[4] = <<"note", "limiter">>
      /\ s[5] = <<"set", "limiter">> /\ s[6] = <<"note", "email_2fa">>
  BY DEF SeedOpening
<1>2. /\ \A k \in {"read", "note", "set"} : <<k, "limiter">> \in StepSet
      /\ \A k \in {"read", "note", "set"} : <<k, "email_2fa">> \in StepSet
  BY DEF StepSet, CarriesPrior, Effects
<1>3. s \in Seq(StepSet)
  BY <1>2 DEF SeedOpening
<1> HIDE DEF s
<1>4. \A i \in 1..Len(s) : i = 1 \/ i = 2 \/ i = 3 \/ i = 4 \/ i = 5 \/ i = 6
  BY <1>1
<1>5. Orderly(s)
  <2>1. \A i \in 1..Len(s) : s[i][1] \notin {"undo", "clear", "apply"}
    BY <1>1, <1>4
  <2>2. \A i \in 2..Len(s) : s[i][1] = "set" /\ s[i][2] \in Guarded => s[i - 1] = <<"note", s[i][2]>>
    BY <1>1, <1>4 DEF Guarded
  <2>3. \A i, j \in 1..Len(s) : s[i][1] = "set" /\ s[j] = s[i] => i = j
    BY <1>1, <1>4
  <2> QED
    BY <1>1, <1>3, <2>1, <2>2, <2>3 DEF Orderly
<1>6. s # <<>> /\ Opens(s)
  BY <1>1 DEF Opens
<1>7. Within(s, {"email_2fa", "limiter"})
  BY <1>1, <1>4 DEF Within
<1> QED
  BY <1>5, <1>6, <1>7 DEF Part, s

LEMMA OneIs ==
  ASSUME NEW S, NEW w \in S, NEW s, s = <<w>>
  PROVE  s \in Seq(S) /\ Len(s) = 1 /\ s[1] = w
OBVIOUS

LEMMA WorkIs ==
  ASSUME NEW s \in Seq(StepSet), Len(s) = 1, s[1][1] = "work", s[1][2] = "none"
  PROVE  Part(s, {"none"})
<1>1. \A i \in 1..Len(s) : s[i][1] = "work" /\ s[i][2] = "none" /\ i = 1
  OBVIOUS
<1>2. Orderly(s)
  BY <1>1 DEF Orderly
<1>3. s # <<>> /\ Opens(s) /\ Within(s, {"none"})
  BY <1>1 DEF Opens, Within
<1> QED
  BY <1>2, <1>3 DEF Part

\* What a `finally` is put together from.
Ends(s, E) == Part(s, E) /\ Undoes(s) /\ s[1][1] = "undo"

LEMMA EndsJoin ==
  ASSUME NEW s, NEW t, NEW E, NEW F, Ends(s, E), Ends(t, F)
  PROVE  Ends(s \o t, E \cup F)
BY PartsJoin DEF Ends

LEMMA PartsWiden ==
  ASSUME NEW s, NEW E, NEW F, E \subseteq F
  PROVE  Part(s, E) => Part(s, F)
BY DEF Part, Within

LEMMA EndsWiden ==
  ASSUME NEW s, NEW E, NEW F, E \subseteq F, Ends(s, E)
  PROVE  Ends(s, F)
BY DEF Part, Ends, Within

\* The operations that constrain the workspace; the others never touch its caps.
CapsOps == {"loadtest_constrain", "capacity"}

Uses(o) == IF o \in CapsOps THEN Effects ELSE Effects \ {"caps"}

LEMMA ClosingIs == ASSUME NEW o \in Operations PROVE Ends(Closing(o), Uses(o))
<1>1. \A e \in Effects : Ends(PutBack(e), {e})
  BY PutBackIs DEF Ends
<1>2. /\ Ends(PutBack("limiter"), {"limiter"}) /\ Ends(PutBack("metrics"), {"metrics"})
      /\ Ends(PutBack("profiler"), {"profiler"}) /\ Ends(PutBack("caps"), {"caps"})
      /\ Ends(PutBack("email_2fa"), {"email_2fa"})
  BY <1>1 DEF Effects
<1>3. /\ Ends(PutBack("limiter") \o PutBack("caps"), {"limiter"} \cup {"caps"})
      /\ Ends(PutBack("limiter") \o PutBack("email_2fa"), {"limiter"} \cup {"email_2fa"})
      /\ Ends(PutBack("limiter") \o PutBack("metrics"), {"limiter"} \cup {"metrics"})
  BY <1>2, EndsJoin
<1>4. /\ Ends((PutBack("limiter") \o PutBack("metrics")) \o PutBack("profiler"),
              ({"limiter"} \cup {"metrics"}) \cup {"profiler"})
      /\ Ends((PutBack("limiter") \o PutBack("metrics")) \o PutBack("caps"),
              ({"limiter"} \cup {"metrics"}) \cup {"caps"})
  BY <1>2, <1>3, EndsJoin
<1>5. CASE o \in {"loadtest", "import"}
  <2>1. Closing(o) = PutBack("limiter") /\ {"limiter"} \subseteq Uses(o)
    BY <1>5 DEF Closing, Uses, CapsOps, Effects
  <2> QED
    BY <1>2, <2>1, EndsWiden
<1>6. CASE o = "loadtest_constrain"
  <2>1. Closing(o) = PutBack("limiter") \o PutBack("caps") /\ {"limiter"} \cup {"caps"} \subseteq Uses(o)
    BY <1>6 DEF Closing, Uses, CapsOps, Effects
  <2> QED
    BY <1>3, <2>1, EndsWiden
<1>7. CASE o = "loadtest_diag"
  <2>1. /\ Closing(o) = (PutBack("limiter") \o PutBack("metrics")) \o PutBack("profiler")
        /\ ({"limiter"} \cup {"metrics"}) \cup {"profiler"} \subseteq Uses(o)
    BY <1>7 DEF Closing, Uses, CapsOps, Effects
  <2> QED
    BY <1>4, <2>1, EndsWiden
<1>8. CASE o = "capacity"
  <2>1. /\ Closing(o) = (PutBack("limiter") \o PutBack("metrics")) \o PutBack("caps")
        /\ ({"limiter"} \cup {"metrics"}) \cup {"caps"} \subseteq Uses(o)
    BY <1>8 DEF Closing, Uses, CapsOps, Effects
  <2> QED
    BY <1>4, <2>1, EndsWiden
<1>9. CASE o = "seed"
  <2>1. Closing(o) = PutBack("limiter") \o PutBack("email_2fa") /\ {"limiter"} \cup {"email_2fa"} \subseteq Uses(o)
    BY <1>9 DEF Closing, Uses, CapsOps, Effects
  <2> QED
    BY <1>3, <2>1, EndsWiden
<1> QED
  BY <1>5, <1>6, <1>7, <1>8, <1>9 DEF Operations

LEMMA OpeningIs == ASSUME NEW o \in Operations PROVE Part(Opening(o), Uses(o))
<1>1. /\ Part(Turn("limiter"), {"limiter"}) /\ Part(Turn("metrics"), {"metrics"})
      /\ Part(Change("caps"), {"caps"}) /\ Part(Change("profiler"), {"profiler"})
      /\ Part(SeedOpening, {"email_2fa", "limiter"})
  BY TurnIs, ChangeIs, SeedOpeningIs DEF Effects, CarriesPrior
<1>2. CASE o \in {"loadtest", "import"}
  <2>1. Opening(o) = Turn("limiter") /\ {"limiter"} \subseteq Uses(o)
    BY <1>2 DEF Opening, ImportOpening, Uses, CapsOps, Effects
  <2> QED
    BY <1>1, <2>1, PartsWiden
<1>3. Part(Change("caps") \o Turn("limiter"), {"caps"} \cup {"limiter"})
  BY <1>1, PartsJoin
<1>4. CASE o = "loadtest_constrain"
  <2>1. Opening(o) = Change("caps") \o Turn("limiter") /\ {"caps"} \cup {"limiter"} \subseteq Uses(o)
    BY <1>4 DEF Opening, Uses, CapsOps, Effects
  <2> QED
    BY <1>3, <2>1, PartsWiden
<1>5. CASE o = "loadtest_diag"
  <2>1. Part(Turn("limiter") \o Turn("metrics"), {"limiter"} \cup {"metrics"})
    BY <1>1, PartsJoin
  <2>2. ({"limiter"} \cup {"metrics"}) \cap {"profiler"} = {}
    OBVIOUS
  <2>3. Part((Turn("limiter") \o Turn("metrics")) \o Change("profiler"),
             ({"limiter"} \cup {"metrics"}) \cup {"profiler"})
    BY <1>1, <2>1, <2>2, PartsJoin
  <2>4. /\ Opening(o) = (Turn("limiter") \o Turn("metrics")) \o Change("profiler")
        /\ ({"limiter"} \cup {"metrics"}) \cup {"profiler"} \subseteq Uses(o)
    BY <1>5 DEF Opening, Uses, CapsOps, Effects
  <2> QED
    BY <2>3, <2>4, PartsWiden
<1>6. CASE o = "capacity"
  <2>1. ({"caps"} \cup {"limiter"}) \cap {"metrics"} = {}
    OBVIOUS
  <2>2. Part((Change("caps") \o Turn("limiter")) \o Turn("metrics"),
             ({"caps"} \cup {"limiter"}) \cup {"metrics"})
    BY <1>1, <1>3, <2>1, PartsJoin
  <2>3. /\ Opening(o) = (Change("caps") \o Turn("limiter")) \o Turn("metrics")
        /\ ({"caps"} \cup {"limiter"}) \cup {"metrics"} \subseteq Uses(o)
    BY <1>6 DEF Opening, Uses, CapsOps, Effects
  <2> QED
    BY <2>2, <2>3, PartsWiden
<1>7. CASE o = "seed"
  <2>1. Opening(o) = SeedOpening /\ {"email_2fa", "limiter"} \subseteq Uses(o)
    BY <1>7 DEF Opening, Uses, CapsOps, Effects
  <2> QED
    BY <1>1, <2>1, PartsWiden
<1> QED
  BY <1>2, <1>4, <1>5, <1>6, <1>7 DEF Operations

\* An operation's steps, as the invariant needs them.
LEMMA StepsAreOrderly ==
  ASSUME NEW o \in Operations
  PROVE  Orderly(Steps(o)) /\ Opens(Steps(o)) /\ Within(Steps(o), Uses(o) \cup {"none"})
<1> DEFINE w == << <<"work", "none">> >>
<1>4. Part(w, {"none"})
  <2> DEFINE step == <<"work", "none">>
  <2>1. step \in StepSet /\ step[1] = "work" /\ step[2] = "none"
    BY DEF StepSet
  <2> HIDE DEF step
  <2>2. <<step>> \in Seq(StepSet) /\ Len(<<step>>) = 1 /\ <<step>>[1] = step
    BY <2>1, OneIs
  <2> DEFINE s == <<step>>
  <2> HIDE DEF s
  <2>3. s \in Seq(StepSet) /\ Len(s) = 1 /\ s[1] = step
    BY <2>2 DEF s
  <2>4. Part(s, {"none"})
    BY <2>1, <2>3, WorkIs
  <2> QED
    BY <2>4 DEF s, step
<1> HIDE DEF w
<1>1. Part(Opening(o), Uses(o)) /\ Part(w, {"none"}) /\ Uses(o) \cap {"none"} = {}
  BY <1>4, OpeningIs DEF Uses, Effects
<1>2. Part(Opening(o) \o w, Uses(o) \cup {"none"})
  BY <1>1, PartsJoin
<1>3. Part((Opening(o) \o w) \o Closing(o), (Uses(o) \cup {"none"}) \cup Uses(o))
  BY <1>2, ClosingIs, PartsJoin DEF Ends
<1> QED
  BY <1>3 DEF Steps, Part, Within, w
-----------------------------------------------------------------------------
(****************************************************************************)
(* The inductive invariant.  Its last two parts rest on what the instances  *)
(* of the project fix: that a process can be told from an earlier one with  *)
(* its pid, that the calls a performance run undoes settings with work, and *)
(* that one `serve` alone changes the caps.                                 *)
(****************************************************************************)
\* What is true of every note, on disk or in the hands of a recovery.
Genuine(n) ==
  /\ n \in NoteSet
  /\ n.kind \in CarriesPrior => n.prior \in Values
  /\ n.started <= inc[n.owner]
  /\ n.run <= runs

Types ==
  /\ alive \in [Procs -> BOOLEAN]
  /\ inc \in [Procs -> 0..MaxInc]
  /\ op \in [Procs -> Operations \cup {"none"}]
  /\ \A p \in Procs : op[p] \in Ops[p] \cup {"none"}
  /\ run \in [Procs -> 0..MaxRuns]
  /\ todo \in [Procs -> Seq(StepSet)]
  /\ seen \in [Procs -> [Effects -> Values \cup {"unknown"}]]
  /\ did \in [Procs -> [Effects -> BOOLEAN]]
  /\ holds \in [Procs -> SUBSET Effects]
  /\ val \in [Effects -> Values]
  /\ unheard \subseteq Effects
  /\ runs \in 0..MaxRuns
  /\ rec \in [Procs -> SUBSET NoteSet]
  /\ mended \in [Procs -> SUBSET NoteSet]
  /\ \A p \in Procs, e \in CarriesPrior : did[p][e] => seen[p][e] \in Values

Paper == \A n \in notes : Genuine(n)
Taken == \A p \in Procs : \A n \in rec[p] \cup mended[p] : Genuine(n)

\* Who does what: a process in an operation is alive, and its run is its own.
ControlOf(p) ==
  /\ Orderly(todo[p])
  /\ alive[p] => inc[p] >= 1
  /\ op[p] = "none" => run[p] = 0 /\ todo[p] = <<>>
  /\ op[p] # "none" => /\ alive[p] /\ ~Recovering(p)
                       /\ run[p] \in 1..runs
                       /\ Within(todo[p], Uses(op[p]) \cup {"none"})
  /\ Recovering(p) => alive[p] /\ p \in Serves
  /\ \A q \in Procs : run[p] = run[q] /\ run[p] # 0 => p = q

Control == \A p \in Procs : ControlOf(p)

\* A note of a run that goes on is its process's, which will not change again what
\* the note says was there before.
Signed ==
  \A p \in Procs : \A n \in notes :
    n.run = run[p] =>
      /\ n.owner = p /\ n.started = inc[p]
      /\ n.kind = "caps" => n.prior = seen[p]["caps"] /\ ~Ahead(todo[p], <<"apply", "caps">>)

\* A recovery holds notes of dead processes only.
Dead == \A p \in Procs : \A n \in rec[p] \cup mended[p] : ~Running(n)

\* What a `serve` still has to clear of the processes that had its pid.
Pending ==
  \A p \in Serves : alive[p] =>
    \A n \in notes :
      (n.owner = p /\ n.kind # "profiler" /\ <<"none", n.kind>> \notin Flaky /\ n.started # inc[p])
        => n \in rec[p] \cup mended[p]

\* A note that will not be dropped while the setting is changed.
InForce(n) ==
  /\ \A p \in Procs : n \notin mended[p]
  /\ \A p \in Procs : run[p] = n.run =>
       ~Ahead(todo[p], <<"set", n.kind>>) /\ ~At(p, "clear", n.kind)

\* A change in force of which the code knows.
Changed(e) == val[e] = "test" /\ e \notin unheard

Covered(e) ==
  /\ Changed(e) => \E n \in notes : n.kind = e /\ InForce(n)
  /\ \A p \in Procs : At(p, "set", e) /\ MustChange(p, e) =>
       \E n \in notes : n.kind = e /\ n.run = run[p]

Cover == \A e \in Guarded : Covered(e)

\* Where the note of the caps is about to go, they are what it says.
CapsBack ==
  /\ \A p \in Procs : At(p, "clear", "caps") => val["caps"] = seen[p]["caps"]
  /\ \A p \in Procs : \A n \in mended[p] : n.kind = "caps" => val["caps"] = n.prior

Base == Types /\ Paper /\ Taken /\ Control /\ Signed /\ Pending

\* The calls with which a performance run restores the settings work: it clears
\* the note whatever they report.
LoadTestsReach == \A o \in Operations, e \in Guarded : <<o, e>> \in Flaky => o \in Writers

\* One process alone changes caps, and no other recovers them.
OneKeepsCaps ==
  \E s \in Procs : Serves \subseteq {s} /\ \A p \in Procs : Ops[p] \cap CapsOps # {} => p = s

-----------------------------------------------------------------------------
(* Steps of an operation. *)

LEMMA Front ==
  ASSUME NEW s, Orderly(s), s # <<>>
  PROVE  /\ Orderly(Tail(s)) /\ Tail(s) # s
         /\ \A x : Ahead(Tail(s), x) => Ahead(s, x)
         /\ Ahead(s, Head(s))
         /\ \A E : Within(s, E) => Within(Tail(s), E) /\ Head(s)[2] \in E
         /\ \A e : Tail(s) # <<>> /\ Head(Tail(s)) = <<"clear", e>> => Head(s) = <<"undo", e>>
         /\ \A e \in Guarded : Tail(s) # <<>> /\ Head(Tail(s)) = <<"set", e>> => Head(s) = <<"note", e>>
         /\ \A e : Head(s) = <<"undo", e>> => Tail(s) # <<>> /\ Head(Tail(s)) = <<"clear", e>>
         /\ \A e : Head(s) = <<"set", e>> => ~Ahead(Tail(s), <<"set", e>>)
         /\ \A e : Head(s) = <<"note", e>> => ~Ahead(Tail(s), <<"apply", e>>)
<1> DEFINE t == Tail(s)
<1>1. /\ Orderly(t) /\ s[1] \in StepSet /\ Head(s) = s[1]
      /\ \A x : Ahead(t, x) => Ahead(s, x)
      /\ Len(t) = Len(s) - 1
      /\ \A i \in 1..Len(t) : t[i] = s[i + 1]
  BY TailOrderly
<1>2. s \in Seq(StepSet) /\ t \in Seq(StepSet) /\ Len(s) \in Nat /\ Len(s) > 0 /\ Len(t) \in Nat
  BY <1>1 DEF Orderly
<1>3. t # <<>> => Len(t) >= 1 /\ Head(t) = t[1] /\ t[1] = s[2] /\ 2 \in 2..Len(s) /\ 2 \in 1..Len(s)
  BY <1>1, <1>2
<1>4. 1 \in 1..Len(s)
  BY <1>2
<1> DEFINE h == Head(s)
<1> HIDE DEF t, h
<1>5. t # s
  BY <1>1, <1>2
<1>6. Ahead(s, h)
  BY <1>1, <1>4 DEF Ahead, h
<1>7. ASSUME NEW E, Within(s, E) PROVE Within(t, E) /\ h[2] \in E
  <2>1. \A i \in 1..Len(t) : i + 1 \in 1..Len(s)
    BY <1>1, <1>2
  <2> QED
    BY <1>1, <1>4, <1>7, <2>1 DEF Within, h
<1>8. ASSUME NEW e, t # <<>>, Head(t) = <<"clear", e>> PROVE h = <<"undo", e>>
  <2>1. s[2] = <<"clear", e>> /\ 2 \in 2..Len(s)
    BY <1>3, <1>8
  <2>2. s[2 - 1] = <<"undo", s[2][2]>>
    BY <2>1 DEF Orderly
  <2> QED
    BY <1>1, <2>1, <2>2 DEF h
<1>9. ASSUME NEW e \in Guarded, t # <<>>, Head(t) = <<"set", e>> PROVE h = <<"note", e>>
  <2>1. s[2] = <<"set", e>> /\ 2 \in 2..Len(s)
    BY <1>3, <1>9
  <2>2. s[2 - 1] = <<"note", s[2][2]>>
    BY <2>1 DEF Orderly
  <2> QED
    BY <1>1, <2>1, <2>2 DEF h
<1>10. ASSUME NEW e, h = <<"undo", e>> PROVE t # <<>> /\ Head(t) = <<"clear", e>>
  <2>1. s[1] = <<"undo", e>>
    BY <1>1, <1>10 DEF h
  <2>2. 1 < Len(s) /\ s[1 + 1] = <<"clear", s[1][2]>>
    BY <1>4, <2>1 DEF Orderly
  <2>3. t # <<>>
    BY <1>1, <1>2, <2>2
  <2> QED
    BY <1>3, <2>1, <2>2, <2>3
<1>11. ASSUME NEW e, h = <<"set", e>>, NEW i \in 1..Len(t), t[i] = <<"set", e>> PROVE FALSE
  <2>1. i + 1 \in 1..Len(s) /\ s[i + 1] = <<"set", e>> /\ s[1] = <<"set", e>> /\ i + 1 # 1
    BY <1>1, <1>2, <1>11 DEF h
  <2>2. s[1][1] = "set" /\ s[i + 1] = s[1]
    BY <2>1
  <2> QED
    BY <1>4, <2>1, <2>2 DEF Orderly
<1>12. ASSUME NEW e, h = <<"note", e>>, NEW i \in 1..Len(t), t[i] = <<"apply", e>> PROVE FALSE
  <2>1. i + 1 \in 1..Len(s) /\ s[i + 1] = <<"apply", e>> /\ s[1] = <<"note", e>> /\ ~(i + 1 < 1)
    BY <1>1, <1>2, <1>12 DEF h
  <2>2. s[1][1] = "note" /\ s[i + 1] = <<"apply", s[1][2]>>
    BY <2>1
  <2> QED
    BY <1>4, <2>1, <2>2 DEF Orderly
<1>13. \A e : h = <<"set", e>> => ~Ahead(t, <<"set", e>>)
  BY <1>11 DEF Ahead
<1>14. \A e : h = <<"note", e>> => ~Ahead(t, <<"apply", e>>)
  BY <1>12 DEF Ahead
<1> QED
  BY <1>1, <1>5, <1>6, <1>7, <1>8, <1>9, <1>10, <1>13, <1>14 DEF t, h

\* What follows when the clear is skipped.
LEMMA FrontTwo ==
  ASSUME NEW s, Orderly(s), s # <<>>, NEW e, Head(s) = <<"undo", e>>
  PROVE  /\ Orderly(Tail(Tail(s))) /\ Tail(Tail(s)) # s
         /\ \A x : Ahead(Tail(Tail(s)), x) => Ahead(s, x)
         /\ \A E : Within(s, E) => Within(Tail(Tail(s)), E)
         /\ \A f : ~(Tail(Tail(s)) # <<>> /\ Head(Tail(Tail(s))) = <<"clear", f>>)
         /\ \A f \in Guarded : ~(Tail(Tail(s)) # <<>> /\ Head(Tail(Tail(s))) = <<"set", f>>)
<1> DEFINE t == Tail(s)
<1>1. /\ Orderly(t) /\ t # <<>> /\ Head(t) = <<"clear", e>>
      /\ \A x : Ahead(t, x) => Ahead(s, x)
      /\ \A E : Within(s, E) => Within(t, E)
      /\ Len(t) = Len(s) - 1
  BY Front, TailOrderly
<1> HIDE DEF t
<1> DEFINE u == Tail(t)
<1>2. /\ Orderly(u) /\ Len(u) = Len(t) - 1
      /\ \A x : Ahead(u, x) => Ahead(t, x)
      /\ \A E : Within(t, E) => Within(u, E)
      /\ \A f : u # <<>> /\ Head(u) = <<"clear", f>> => Head(t) = <<"undo", f>>
      /\ \A f \in Guarded : u # <<>> /\ Head(u) = <<"set", f>> => Head(t) = <<"note", f>>
  BY <1>1, Front, TailOrderly
<1> HIDE DEF u
<1>3. s \in Seq(StepSet) /\ u \in Seq(StepSet) /\ t \in Seq(StepSet)
  BY <1>1, <1>2 DEF Orderly
<1>4. u # s
  BY <1>1, <1>2, <1>3
<1>5. /\ \A f : ~(u # <<>> /\ Head(u) = <<"clear", f>>)
      /\ \A f \in Guarded : ~(u # <<>> /\ Head(u) = <<"set", f>>)
  BY <1>1, <1>2
<1> QED
  BY <1>1, <1>2, <1>4, <1>5 DEF t, u

\* A `finally` changes nothing again.
LEMMA ClosingOnlyUndoes ==
  ASSUME NEW o \in Operations
  PROVE  /\ Closing(o) # <<>> /\ Closing(o) \in Seq(StepSet)
         /\ \A x : Ahead(Closing(o), x) => x[1] \in {"undo", "clear"}
         /\ Head(Closing(o))[1] = "undo"
         /\ Within(Closing(o), Uses(o) \cup {"none"})
<1>1. Ends(Closing(o), Uses(o))
  BY ClosingIs
<1>2. Closing(o) # <<>> /\ Closing(o) \in Seq(StepSet) /\ Within(Closing(o), Uses(o) \cup {"none"})
  BY <1>1 DEF Ends, Part, Orderly, Within
<1>3. Head(Closing(o)) = Closing(o)[1]
  BY <1>2
<1> QED
  BY <1>1, <1>2, <1>3 DEF Ends, Ahead, Undoes

\* How p's sequence goes on when it takes a step.
Onward(p) ==
  /\ todo' \in [Procs -> Seq(StepSet)] /\ \A q \in Procs \ {p} : todo'[q] = todo[q]
  /\ Orderly(todo'[p]) /\ todo'[p] # todo[p] /\ Within(todo'[p], Uses(op[p]) \cup {"none"})
  /\ \A e : Ahead(todo'[p], <<"set", e>>) => Ahead(todo[p], <<"set", e>>)
  /\ \A e : Ahead(todo'[p], <<"apply", e>>) => Ahead(todo[p], <<"apply", e>>)
  /\ \A e : At(p, "set", e) => ~Ahead(todo'[p], <<"set", e>>)
  /\ \A e : At(p, "note", e) => ~Ahead(todo'[p], <<"apply", e>>)
  /\ \A e : At(p, "clear", e)' => At(p, "undo", e)
  /\ \A e \in Guarded : At(p, "set", e)' => At(p, "note", e)

LEMMA Busy ==
  ASSUME Types, Control, NEW p \in Procs, todo[p] # <<>>
  PROVE  /\ op[p] \in Operations /\ alive[p] /\ ~Recovering(p) /\ run[p] \in 1..runs
         /\ Orderly(todo[p]) /\ Within(todo[p], Uses(op[p]) \cup {"none"})
         /\ \A q \in Procs : run[q] = run[p] => q = p
<1>1. op[p] # "none"
  BY DEF Control, ControlOf
<1>2. run[p] \in 1..runs
  BY <1>1 DEF Control, ControlOf
<1>3. runs \in Nat
  BY DEF Types
<1>4. run[p] # 0
  BY <1>2, <1>3
<1> QED
  BY <1>1, <1>2, <1>4 DEF Control, ControlOf, Types

LEMMA ProceedIsOnward ==
  ASSUME Types, Control, NEW p \in Procs, todo[p] # <<>>, Proceed(p)
  PROVE  Onward(p)
<1> DEFINE s == todo[p]
<1>1. s \in Seq(StepSet) /\ Orderly(s) /\ s # <<>> /\ Within(s, Uses(op[p]) \cup {"none"})
  BY Busy DEF Types
<1>2. todo' = [todo EXCEPT ![p] = Tail(s)]
  BY DEF Proceed
<1>3. todo'[p] = Tail(s) /\ \A q \in Procs \ {p} : todo'[q] = todo[q]
  BY <1>2 DEF Types
<1>4. Tail(s) \in Seq(StepSet)
  BY <1>1
<1>5. todo' \in [Procs -> Seq(StepSet)]
  BY <1>2, <1>4 DEF Types
<1>6. \A k, e : At(p, k, e) <=> Head(s) = <<k, e>>
  BY <1>1 DEF At
<1>7. \A k, e : At(p, k, e)' <=> (Tail(s) # <<>> /\ Head(Tail(s)) = <<k, e>>)
  BY <1>3 DEF At
<1> HIDE DEF s
<1>8. /\ Orderly(Tail(s)) /\ Tail(s) # s
      /\ \A x : Ahead(Tail(s), x) => Ahead(s, x)
      /\ \A E : Within(s, E) => Within(Tail(s), E)
      /\ \A e : Tail(s) # <<>> /\ Head(Tail(s)) = <<"clear", e>> => Head(s) = <<"undo", e>>
      /\ \A e \in Guarded : Tail(s) # <<>> /\ Head(Tail(s)) = <<"set", e>> => Head(s) = <<"note", e>>
      /\ \A e : Head(s) = <<"set", e>> => ~Ahead(Tail(s), <<"set", e>>)
      /\ \A e : Head(s) = <<"note", e>> => ~Ahead(Tail(s), <<"apply", e>>)
  BY <1>1, Front
<1>9. s = todo[p]
  BY DEF s
<1> QED
  BY <1>1, <1>3, <1>5, <1>6, <1>7, <1>8, <1>9 DEF Onward

LEMMA SkipTwoIsOnward ==
  ASSUME Types, Control, NEW p \in Procs, NEW f, At(p, "undo", f), SkipTwo(p)
  PROVE  Onward(p) /\ \A e : ~At(p, "clear", e)'
<1> DEFINE s == todo[p]
<1> DEFINE t == Tail(Tail(s))
<1>1. /\ s \in Seq(StepSet) /\ Orderly(s) /\ s # <<>> /\ Within(s, Uses(op[p]) \cup {"none"})
      /\ Head(s) = <<"undo", f>>
  BY Busy DEF Types, At
<1>2. todo' = [todo EXCEPT ![p] = t]
  BY DEF SkipTwo
<1>3. todo'[p] = t /\ \A q \in Procs \ {p} : todo'[q] = todo[q]
  BY <1>2 DEF Types
<1>4. /\ Orderly(t) /\ t # s
      /\ \A x : Ahead(t, x) => Ahead(s, x)
      /\ \A E : Within(s, E) => Within(t, E)
      /\ \A e : ~(t # <<>> /\ Head(t) = <<"clear", e>>)
      /\ \A e \in Guarded : ~(t # <<>> /\ Head(t) = <<"set", e>>)
  BY <1>1, FrontTwo
<1>5. todo' \in [Procs -> Seq(StepSet)]
  BY <1>2, <1>4 DEF Types, Orderly
<1>6. \A k, e : At(p, k, e) <=> Head(s) = <<k, e>>
  BY <1>1 DEF At
<1>7. \A k, e : At(p, k, e)' <=> (t # <<>> /\ Head(t) = <<k, e>>)
  BY <1>3 DEF At
<1>8. s = todo[p]
  OBVIOUS
<1> HIDE DEF s, t
<1>9. \A e : ~At(p, "set", e) /\ ~At(p, "note", e)
  BY <1>1, <1>6
<1> QED
  BY <1>1, <1>3, <1>4, <1>5, <1>7, <1>8, <1>9 DEF Onward

LEMMA GivingUpIsOnward ==
  ASSUME Types, Control, NEW p \in Procs, NEW f, At(p, "apply", f),
         todo' = [todo EXCEPT ![p] = Closing(op[p])]
  PROVE  Onward(p) /\ \A e : ~At(p, "clear", e)'
<1> DEFINE s == todo[p]
<1> DEFINE t == Closing(op[p])
<1>1. /\ s \in Seq(StepSet) /\ s # <<>> /\ op[p] \in Operations /\ Head(s) = <<"apply", f>>
  BY Busy DEF Types, At
<1>2. /\ t # <<>> /\ t \in Seq(StepSet) /\ Within(t, Uses(op[p]) \cup {"none"})
      /\ \A x : Ahead(t, x) => x[1] \in {"undo", "clear"}
      /\ Head(t)[1] = "undo" /\ Orderly(t)
  BY <1>1, ClosingOnlyUndoes, ClosingIs DEF Ends, Part
<1>3. todo'[p] = t /\ \A q \in Procs \ {p} : todo'[q] = todo[q]
  BY DEF Types
<1>4. todo' \in [Procs -> Seq(StepSet)]
  BY <1>2 DEF Types
<1>5. \A k, e : At(p, k, e) <=> Head(s) = <<k, e>>
  BY <1>1 DEF At
<1>6. \A k, e : At(p, k, e)' <=> Head(t) = <<k, e>>
  BY <1>2, <1>3 DEF At
<1>7. s = todo[p]
  OBVIOUS
<1> HIDE DEF s, t
<1>8. \A e : ~At(p, "set", e) /\ ~At(p, "note", e)
  BY <1>1, <1>5
<1>9. \A e : ~At(p, "set", e)' /\ ~At(p, "clear", e)'
  BY <1>2, <1>6
<1>10. \A e : ~Ahead(t, <<"set", e>>) /\ ~Ahead(t, <<"apply", e>>)
  <2>1. \A e : <<"set", e>>[1] = "set" /\ <<"apply", e>>[1] = "apply"
    OBVIOUS
  <2> QED
    BY <1>2, <2>1
<1>11. s # t
  BY <1>1, <1>2
<1> QED
  BY <1>2, <1>3, <1>4, <1>7, <1>8, <1>9, <1>10, <1>11 DEF Onward

\* p's note of e.
NoteOf(p, e) == [run |-> run[p], kind |-> e, owner |-> p, started |-> inc[p], prior |-> seen[p][e]]

\* What a step of p in its operation does to the rest.
Moved(p) ==
  /\ todo[p] # <<>> /\ Onward(p)
  /\ UNCHANGED <<alive, inc, op, run, runs, rec, mended>>
  /\ \A q \in Procs \ {p} : seen'[q] = seen[q]
  /\ \A n \in notes' \ notes : \E e \in Effects : At(p, "note", e) /\ n = NoteOf(p, e) /\ Noted(p, e)
  /\ \A n \in notes \ notes' : \E e \in Effects :
       n \in Own(p, e) /\ (At(p, "clear", e) \/ (At(p, "set", e) /\ e \notin CarriesPrior))
  /\ seen'[p]["caps"] # seen[p]["caps"] => At(p, "apply", "caps")
  /\ val'["caps"] # val["caps"] => \E k \in {"set", "apply", "undo"} : At(p, k, "caps")
  /\ At(p, "clear", "caps")' => val'["caps"] = seen'[p]["caps"]
  /\ \A e \in Guarded : Changed(e)' /\ ~Changed(e) => /\ At(p, "set", e) /\ MustChange(p, e)
                                                      /\ notes' = notes
  /\ \A e \in Guarded : At(p, "set", e)' /\ MustChange(p, e)' => NoteOf(p, e) \in notes'
  /\ LoadTestsReach => \A e \in Guarded : At(p, "clear", e)' => val'[e] # "test"

LEMMA ReadMoves ==
  ASSUME Types, Control, NEW p \in Procs, NEW e \in Effects, Read(p, e)
  PROVE  Moved(p)
<1>1. At(p, "read", e) /\ todo[p] # <<>> /\ Proceed(p) /\ Head(todo[p]) = <<"read", e>>
  BY DEF Read, At
<1>2. Onward(p)
  BY <1>1, ProceedIsOnward
<1>3. UNCHANGED <<alive, inc, op, run, did, holds, val, unheard, notes, runs, rec, mended>>
  BY DEF Read
<1>4. \A q \in Procs, f \in Effects : q # p \/ f # e => seen'[q][f] = seen[q][f]
  BY DEF Read, Types
<1>5. \A q \in Procs \ {p} : seen'[q] = seen[q]
  BY DEF Read, Types
<1>6. e \notin CarriesPrior
  <2>1. Head(todo[p]) \in StepSet
    BY <1>1, TailOrderly, Busy
  <2> QED
    BY <1>1, <2>1 DEF StepSet
<1>7. \A k, f : At(p, k, f) => k = "read"
  BY <1>1 DEF At
<1>8. seen'[p]["caps"] = seen[p]["caps"]
  BY <1>4, <1>6 DEF CarriesPrior, Effects
<1>9. (\A f : ~At(p, "clear", f)') /\ (\A f \in Guarded : ~At(p, "set", f)')
  BY <1>2, <1>7 DEF Onward
<1> QED
  BY <1>1, <1>2, <1>3, <1>5, <1>8, <1>9 DEF Moved, Changed

LEMMA NoteMoves ==
  ASSUME Types, Control, NEW p \in Procs, NEW e \in Effects, Note(p, e)
  PROVE  Moved(p)
<1>1. At(p, "note", e) /\ todo[p] # <<>> /\ Proceed(p) /\ Head(todo[p]) = <<"note", e>>
  BY DEF Note, At
<1>2. Onward(p)
  BY <1>1, ProceedIsOnward
<1>3. UNCHANGED <<alive, inc, op, run, seen, did, val, unheard, runs, rec, mended>>
  BY DEF Note
<1>4. notes' = IF Noted(p, e) THEN notes \cup {NoteOf(p, e)} ELSE notes
  BY DEF Note, NoteOf
<1>5. \A k, f : At(p, k, f) => k = "note" /\ f = e
  BY <1>1 DEF At
<1>6. \A f : ~At(p, "clear", f)'
  BY <1>2, <1>5 DEF Onward
<1>7. \A f \in Guarded : At(p, "set", f)' => f = e
  BY <1>2, <1>5 DEF Onward
<1>8. MustChange(p, e)' = MustChange(p, e)
  BY <1>3 DEF MustChange
<1>9. \A f \in Guarded : At(p, "set", f)' /\ MustChange(p, f)' => NoteOf(p, f) \in notes'
  <2> SUFFICES ASSUME e \in Guarded, MustChange(p, e) PROVE NoteOf(p, e) \in notes'
    BY <1>7, <1>8
  <2>1. Noted(p, e)
    BY DEF Noted, Guarded, CarriesPrior
  <2> QED
    BY <1>4, <2>1
<1>10. \A n \in notes' \ notes : At(p, "note", e) /\ n = NoteOf(p, e) /\ Noted(p, e)
  BY <1>1, <1>4
<1>11. notes \subseteq notes'
  BY <1>4
<1> QED
  BY <1>1, <1>2, <1>3, <1>6, <1>9, <1>10, <1>11 DEF Moved, Changed

LEMMA SetMoves ==
  ASSUME Types, Control, NEW p \in Procs, NEW e \in Effects, Set(p, e)
  PROVE  Moved(p)
<1>1. At(p, "set", e) /\ todo[p] # <<>> /\ Proceed(p) /\ Head(todo[p]) = <<"set", e>>
  BY DEF Set, At
<1>2. Onward(p)
  BY <1>1, ProceedIsOnward
<1>3. UNCHANGED <<alive, inc, op, run, seen, runs, rec, mended>>
  BY DEF Set
<1>4. PICK ok \in Answer(p, e), took \in BOOLEAN :
        /\ val' = IF MustChange(p, e) /\ took THEN [val EXCEPT ![e] = "test"] ELSE val
        /\ unheard' = CASE ~(MustChange(p, e) /\ took) -> unheard
                        [] MustChange(p, e) /\ took /\ ~((MustChange(p, e) /\ ~ok /\ e = "limiter") /\ DropsNote(p))
                             -> unheard \ {e}
                        [] ((MustChange(p, e) /\ ~ok /\ e = "limiter") /\ DropsNote(p)) /\ took ->
                             IF val[e] = "test" THEN unheard ELSE unheard \cup {e}
        /\ notes' = IF (MustChange(p, e) /\ ~ok /\ e = "limiter") /\ DropsNote(p) THEN notes \ Own(p, e) ELSE notes
  BY DEF Set, Took
<1>5. \A k, f : At(p, k, f) => k = "set" /\ f = e
  BY <1>1 DEF At
<1>6. (\A f : ~At(p, "clear", f)') /\ (\A f \in Guarded : ~At(p, "set", f)')
  BY <1>2, <1>5 DEF Onward
<1>7. notes' \subseteq notes /\ \A n \in notes \ notes' : n \in Own(p, e) /\ e \notin CarriesPrior
  BY <1>4 DEF CarriesPrior
<1>8. \A f \in Effects : val'[f] # val[f] => f = e
  BY <1>4 DEF Types
<1>9. val'["caps"] # val["caps"] => At(p, "set", "caps")
  BY <1>1, <1>8 DEF Effects
<1>10. ASSUME NEW f \in Guarded, Changed(f)', ~Changed(f)
       PROVE  f = e /\ MustChange(p, e) /\ notes' = notes
  <2>1. f \in Effects
    BY DEF Guarded, Effects
  <2>2. CASE ~(MustChange(p, e) /\ took)
    BY <1>4, <1>10, <2>2 DEF Changed
  <2>3. CASE MustChange(p, e) /\ took /\ ~((~ok /\ e = "limiter") /\ DropsNote(p))
    <3>1. unheard' = unheard \ {e} /\ notes' = notes
      BY <1>4, <2>3
    <3> QED
      BY <1>8, <1>10, <2>1, <2>3, <3>1 DEF Changed
  <2>4. CASE MustChange(p, e) /\ took /\ (~ok /\ e = "limiter") /\ DropsNote(p)
    <3>1. unheard' = IF val[e] = "test" THEN unheard ELSE unheard \cup {e}
      BY <1>4, <2>4
    <3> QED
      BY <1>8, <1>10, <2>1, <3>1 DEF Changed
  <2>5. ok \in BOOLEAN
    BY DEF Answer
  <2> QED
    BY <2>2, <2>3, <2>4, <2>5
<1> QED
  BY <1>1, <1>2, <1>3, <1>6, <1>7, <1>9, <1>10 DEF Moved

LEMMA ApplyMoves ==
  ASSUME Types, Control, NEW p \in Procs, NEW e \in Effects, Apply(p, e)
  PROVE  Moved(p)
<1>1. At(p, "apply", e) /\ todo[p] # <<>> /\ Head(todo[p]) = <<"apply", e>>
  BY DEF Apply, At
<1>2. UNCHANGED <<alive, inc, op, run, holds, notes, runs, rec, mended>>
  BY DEF Apply
<1>3. Proceed(p) \/ todo' = [todo EXCEPT ![p] = Closing(op[p])]
  BY DEF Apply
<1>4. Onward(p)
  BY <1>1, <1>3, ProceedIsOnward, GivingUpIsOnward
<1>5. \A k, f : At(p, k, f) => k = "apply"
  BY <1>1 DEF At
<1>6. (\A f : ~At(p, "clear", f)') /\ (\A f \in Guarded : ~At(p, "set", f)')
  BY <1>4, <1>5 DEF Onward
<1>7. e \in CarriesPrior
  <2>1. Head(todo[p]) \in StepSet
    BY <1>1, TailOrderly, Busy
  <2> QED
    BY <1>1, <2>1 DEF StepSet
<1>8. /\ seen' \in {seen, [seen EXCEPT ![p][e] = val[e]]}
      /\ val' \in {val, [val EXCEPT ![e] = "test"]}
      /\ unheard' = unheard
  BY DEF Apply
<1>9. /\ \A q \in Procs \ {p} : seen'[q] = seen[q]
      /\ \A f \in Effects \ {e} : seen'[p][f] = seen[p][f] /\ val'[f] = val[f]
  BY <1>8 DEF Types
<1>10. \A f \in Guarded : val'[f] = val[f]
  BY <1>7, <1>9 DEF Guarded, CarriesPrior, Effects
<1>11. seen'[p]["caps"] # seen[p]["caps"] \/ val'["caps"] # val["caps"] => At(p, "apply", "caps")
  BY <1>1, <1>9 DEF Effects
<1> QED
  BY <1>1, <1>2, <1>4, <1>6, <1>8, <1>9, <1>10, <1>11 DEF Moved, Changed

LEMMA WorkMoves ==
  ASSUME Types, Control, NEW p \in Procs, Work(p)
  PROVE  Moved(p)
<1>1. todo[p] # <<>> /\ Proceed(p) /\ Head(todo[p]) = <<"work", "none">>
  BY DEF Work, At
<1>2. Onward(p)
  BY <1>1, ProceedIsOnward
<1>3. UNCHANGED <<alive, inc, op, run, seen, did, holds, val, unheard, notes, runs, rec, mended>>
  BY DEF Work
<1>4. \A k, f : At(p, k, f) => k = "work"
  BY <1>1 DEF At
<1>5. (\A f : ~At(p, "clear", f)') /\ (\A f \in Guarded : ~At(p, "set", f)')
  BY <1>2, <1>4 DEF Onward
<1> QED
  BY <1>1, <1>2, <1>3, <1>5 DEF Moved, Changed

LEMMA UndoMoves ==
  ASSUME Types, Control, NEW p \in Procs, NEW e \in Effects, Undo(p, e)
  PROVE  Moved(p)
<1>1. At(p, "undo", e) /\ todo[p] # <<>> /\ Head(todo[p]) = <<"undo", e>>
  BY DEF Undo, At
<1>2. UNCHANGED <<alive, inc, op, run, seen, did, holds, notes, runs, rec, mended>>
  BY DEF Undo
<1>3. Proceed(p) \/ SkipTwo(p)
  BY DEF Undo
<1>4. Onward(p)
  BY <1>1, <1>3, ProceedIsOnward, SkipTwoIsOnward
<1>5. \A k, f : At(p, k, f) => k = "undo" /\ f = e
  BY <1>1 DEF At
<1>6. (\A f : At(p, "clear", f)' => f = e) /\ (\A f \in Guarded : ~At(p, "set", f)')
  BY <1>4, <1>5 DEF Onward
<1>7. \A f \in Effects : val'[f] # val[f] => f = e
  BY DEF Undo, Types
<1>7a. \/ unheard' = unheard
       \/ (val'[e] # "test" \/ e \in CarriesPrior) /\ unheard' = unheard \ {e}
  BY DEF Undo, Types
<1>8. \A f \in Guarded : val'[f] = val[f] \/ val'[f] = "normal"
  <2>1. \A f \in Guarded : f \in Effects /\ f \notin CarriesPrior
    BY DEF Guarded, CarriesPrior, Effects
  <2> QED
    BY <1>7, <2>1 DEF Undo, Types
<1>9. At(p, "clear", e)' =>
        \/ val' = [val EXCEPT ![e] = IF e \in CarriesPrior THEN seen[p][e] ELSE "normal"]
        \/ FALSE \in Answer(p, e) /\ ~Checked(p, e)
  <2>1. SkipTwo(p) => ~At(p, "clear", e)'
    BY <1>1, SkipTwoIsOnward
  <2> QED
    BY <2>1 DEF Undo, Answer, Took
<1>10. At(p, "clear", "caps")' => val'["caps"] = seen'[p]["caps"]
  <2> SUFFICES ASSUME At(p, "clear", "caps")', e = "caps" PROVE val'["caps"] = seen'[p]["caps"]
    BY <1>6
  <2>1. val' = [val EXCEPT !["caps"] = seen[p]["caps"]]
    BY <1>9 DEF Checked, CarriesPrior
  <2> QED
    BY <1>2, <2>1 DEF Types, Effects
<1>11. LoadTestsReach => \A f \in Guarded : At(p, "clear", f)' => val'[f] # "test"
  <2> SUFFICES ASSUME LoadTestsReach, e \in Guarded, At(p, "clear", e)' PROVE val'[e] # "test"
    BY <1>6
  <2>1. ~(FALSE \in Answer(p, e) /\ ~Checked(p, e))
    <3>1. op[p] \in Operations
      BY <1>1, Busy
    <3> QED
      BY <3>1 DEF LoadTestsReach, Answer, Checked
  <2>2. val' = [val EXCEPT ![e] = "normal"]
    BY <1>9, <2>1 DEF Guarded, CarriesPrior
  <2> QED
    BY <2>2 DEF Types
<1>12. val'["caps"] # val["caps"] => At(p, "undo", "caps")
  BY <1>1, <1>7 DEF Effects
<1>13. \A f \in Guarded : Changed(f)' => Changed(f)
  BY <1>8, <1>7a DEF Changed, Guarded, CarriesPrior
<1> QED
  BY <1>1, <1>2, <1>4, <1>6, <1>10, <1>11, <1>12, <1>13 DEF Moved

LEMMA ClearMoves ==
  ASSUME Types, Control, NEW p \in Procs, NEW e \in Effects, Clear(p, e)
  PROVE  Moved(p)
<1>1. At(p, "clear", e) /\ todo[p] # <<>> /\ Proceed(p) /\ Head(todo[p]) = <<"clear", e>>
  BY DEF Clear, At
<1>2. Onward(p)
  BY <1>1, ProceedIsOnward
<1>3. UNCHANGED <<alive, inc, op, run, seen, val, unheard, runs, rec, mended>> /\ notes' = notes \ Own(p, e)
  BY DEF Clear
<1>4. \A k, f : At(p, k, f) => k = "clear"
  BY <1>1 DEF At
<1>5. (\A f : ~At(p, "clear", f)') /\ (\A f \in Guarded : ~At(p, "set", f)')
  BY <1>2, <1>4 DEF Onward
<1> QED
  BY <1>1, <1>2, <1>3, <1>5 DEF Moved, Changed

\* The steps of an operation between its start and its end.
Step(p) ==
  \/ \E e \in Effects : Read(p, e) \/ Note(p, e) \/ Set(p, e) \/ Apply(p, e) \/ Undo(p, e) \/ Clear(p, e)
  \/ Work(p)

LEMMA StepMoves == ASSUME Types, Control, NEW p \in Procs, Step(p) PROVE Moved(p)
BY ReadMoves, NoteMoves, SetMoves, ApplyMoves, UndoMoves, ClearMoves, WorkMoves DEF Step

LEMMA StepTypes == ASSUME Types, Control, NEW p \in Procs, Step(p) PROVE Types'
<1>1. Moved(p)
  BY StepMoves
<1>2. /\ UNCHANGED <<alive, inc, op, run, runs, rec, mended>>
      /\ todo' \in [Procs -> Seq(StepSet)]
  BY <1>1 DEF Moved, Onward
<1>3. /\ val' \in [Effects -> Values]
      /\ unheard' \subseteq Effects
      /\ seen' \in [Procs -> [Effects -> Values \cup {"unknown"}]]
      /\ did' \in [Procs -> [Effects -> BOOLEAN]]
      /\ holds' \in [Procs -> SUBSET Effects]
      /\ \A q \in Procs, f \in CarriesPrior : did'[q][f] => seen'[q][f] \in Values
  <2>1. ASSUME NEW e \in Effects, Read(p, e) PROVE <1>3!:
    <3>1. e \notin CarriesPrior
      <4>1. todo[p] # <<>> /\ Head(todo[p]) = <<"read", e>>
        BY <2>1 DEF Read, At
      <4>2. Head(todo[p]) \in StepSet
        BY <4>1, TailOrderly, Busy
      <4> QED
        BY <4>1, <4>2 DEF StepSet
    <3>2. UNCHANGED <<did, holds, val, unheard>>
      BY <2>1 DEF Read
    <3>3. PICK v \in Values \cup {"unknown"} : seen' = [seen EXCEPT ![p][e] = v]
      BY <2>1 DEF Read, Types
    <3>4. seen' \in [Procs -> [Effects -> Values \cup {"unknown"}]]
      BY <3>3 DEF Types
    <3>5. \A q \in Procs, f \in CarriesPrior : seen'[q][f] = seen[q][f]
      BY <3>1, <3>3 DEF Types, CarriesPrior, Effects
    <3> QED
      BY <3>2, <3>4, <3>5 DEF Types
  <2>2. ASSUME NEW e \in Effects, Note(p, e) PROVE <1>3!:
    <3>1. UNCHANGED <<seen, did, val, unheard>> /\ holds' \in [Procs -> SUBSET Effects]
      BY <2>2 DEF Note, Types
    <3> QED
      BY <3>1 DEF Types
  <2>3. ASSUME NEW e \in Effects, Set(p, e) PROVE <1>3!:
    <3>1. e \notin CarriesPrior
      <4>1. todo[p] # <<>> /\ Head(todo[p]) = <<"set", e>>
        BY <2>3 DEF Set, At
      <4>2. Head(todo[p]) \in StepSet
        BY <4>1, TailOrderly, Busy
      <4> QED
        BY <4>1, <4>2 DEF StepSet
    <3>2. PICK ok \in Answer(p, e), took \in BOOLEAN :
            /\ val' = IF MustChange(p, e) /\ took THEN [val EXCEPT ![e] = "test"] ELSE val
            /\ did' = [did EXCEPT ![p][e] = MustChange(p, e) /\ (ok \/ e = "limiter")]
            /\ holds' = holds \/ holds' = [holds EXCEPT ![p] = @ \ {e}]
      BY <2>3 DEF Set, Took
    <3>3. val' \in [Effects -> Values]
      BY <3>2 DEF Types, Values
    <3>4. ok \in BOOLEAN /\ MustChange(p, e) \in BOOLEAN
      BY DEF Answer, MustChange
    <3>5. did' \in [Procs -> [Effects -> BOOLEAN]]
      BY <3>2, <3>4 DEF Types
    <3>6. holds' \in [Procs -> SUBSET Effects]
      <4>1. holds \in [Procs -> SUBSET Effects]
        BY DEF Types
      <4>2. [holds EXCEPT ![p] = @ \ {e}] \in [Procs -> SUBSET Effects]
        BY <4>1
      <4> QED
        BY <3>2, <4>1, <4>2
    <3>7. \A q \in Procs, f \in CarriesPrior : did'[q][f] = did[q][f]
      BY <3>1, <3>2 DEF Types, CarriesPrior, Effects
    <3>8. seen' = seen
      BY <2>3 DEF Set
    <3>9. unheard' \subseteq Effects
      <4>1. unheard' \in {unheard, unheard \ {e}, unheard \cup {e}}
        <5>1. PICK ok1 \in Answer(p, e), took1 \in BOOLEAN :
                LET tried == MustChange(p, e)
                    dropped == tried /\ ~ok1 /\ e = "limiter" /\ DropsNote(p)
                IN unheard' = CASE ~(tried /\ took1) -> unheard
                                [] tried /\ took1 /\ ~dropped -> unheard \ {e}
                                [] dropped /\ took1 ->
                                     IF val[e] = "test" THEN unheard ELSE unheard \cup {e}
          BY <2>3 DEF Set, Took
        <5> QED
          BY <5>1
      <4> QED
        BY <4>1 DEF Types
    <3> QED
      BY <3>9, <3>3, <3>5, <3>6, <3>7, <3>8 DEF Types
  <2>4. ASSUME NEW e \in Effects, Apply(p, e) PROVE <1>3!:
    <3>1. holds' = holds /\ unheard' = unheard
      BY <2>4 DEF Apply
    <3>2. CASE UNCHANGED <<seen, did>> /\ val' \in {val, [val EXCEPT ![e] = "test"]}
      BY <3>1, <3>2 DEF Types, Values
    <3>3. CASE /\ seen' = [seen EXCEPT ![p][e] = val[e]]
               /\ did' = [did EXCEPT ![p][e] = TRUE]
               /\ val' = [val EXCEPT ![e] = "test"]
      <4>1. val[e] \in Values
        BY DEF Types
      <4>2. /\ val' \in [Effects -> Values] /\ did' \in [Procs -> [Effects -> BOOLEAN]]
            /\ unheard' \subseteq Effects
        BY <3>1, <3>3 DEF Types, Values
      <4>3. seen' \in [Procs -> [Effects -> Values \cup {"unknown"}]]
        BY <3>3, <4>1 DEF Types
      <4>4. \A q \in Procs, f \in Effects :
              \/ q = p /\ f = e /\ seen'[q][f] = val[e]
              \/ did'[q][f] = did[q][f] /\ seen'[q][f] = seen[q][f]
        BY <3>3 DEF Types
      <4> QED
        BY <3>1, <4>1, <4>2, <4>3, <4>4 DEF Types, CarriesPrior, Effects
    <3> QED
      BY <2>4, <3>2, <3>3 DEF Apply
  <2>5. ASSUME NEW e \in Effects, Undo(p, e) PROVE <1>3!:
    <3>1. UNCHANGED <<seen, did, holds>> /\ unheard' \subseteq Effects
      BY <2>5 DEF Undo, Types
    <3>2. \/ val' = val
          \/ did[p][e] /\ val' = [val EXCEPT ![e] = IF e \in CarriesPrior THEN seen[p][e] ELSE "normal"]
      BY <2>5 DEF Undo
    <3>3. val' \in [Effects -> Values]
      BY <3>2 DEF Types, Values
    <3> QED
      BY <3>1, <3>3 DEF Types
  <2>6. ASSUME NEW e \in Effects, Clear(p, e) PROVE <1>3!:
    <3>1. UNCHANGED <<seen, val, unheard>> /\ holds' \in [Procs -> SUBSET Effects] /\ did' \in [Procs -> [Effects -> BOOLEAN]]
      BY <2>6 DEF Clear, Types
    <3>2. \A q \in Procs, f \in Effects : did'[q][f] => did[q][f]
      BY <2>6 DEF Clear, Types
    <3> QED
      BY <3>1, <3>2 DEF Types, CarriesPrior, Effects
  <2>7. CASE Work(p)
    BY <2>7 DEF Work, Types
  <2> QED
    BY <2>1, <2>2, <2>3, <2>4, <2>5, <2>6, <2>7 DEF Step
<1> QED
  BY <1>2, <1>3 DEF Types

LEMMA StepBase ==
  ASSUME Base, NEW p \in Procs, Step(p)
  PROVE  Base' /\ (Dead => Dead')
<1>1. Moved(p) /\ Types /\ Types'
  BY StepMoves, StepTypes DEF Base
<1>2. /\ UNCHANGED <<alive, inc, op, run, runs, rec, mended>>
      /\ todo[p] # <<>> /\ Onward(p)
  BY <1>1 DEF Moved
<1>3. /\ op[p] \in Operations /\ alive[p] /\ run[p] \in 1..runs
      /\ \A q \in Procs : run[q] = run[p] => q = p
  BY <1>1, <1>2, Busy DEF Base
<1>4. ASSUME NEW n \in notes' \ notes PROVE \E e \in Effects : At(p, "note", e) /\ n = NoteOf(p, e) /\ Noted(p, e)
  BY <1>1, <1>4 DEF Moved
<1>5. Paper'
  <2>1. \A n : Genuine(n) => Genuine(n)'
    BY <1>2 DEF Genuine
  <2>2. ASSUME NEW n, NEW e \in Effects, n = NoteOf(p, e), Noted(p, e) PROVE Genuine(n)'
    <3>1. run[p] \in 1..MaxRuns /\ run[p] <= runs
      BY <1>1, <1>3 DEF Types
    <3>2. inc[p] \in 1..MaxInc /\ inc[p] <= inc[p]
      <4>1. inc[p] >= 1 /\ inc[p] \in 0..MaxInc
        BY <1>1, <1>3 DEF Base, Control, ControlOf, Types
      <4> QED
        BY <4>1
    <3>3. seen[p][e] \in Values \cup {"unknown"}
      BY <1>1 DEF Types
    <3>4. n \in NoteSet
      BY <2>2, <3>1, <3>2, <3>3 DEF NoteOf, NoteSet
    <3>5. e \in CarriesPrior => seen[p][e] \in Values
      BY <1>1, <2>2 DEF Noted, Types
    <3>6. n.kind = e /\ n.prior = seen[p][e] /\ n.owner = p /\ n.started = inc[p] /\ n.run = run[p]
      BY <2>2 DEF NoteOf
    <3> QED
      BY <1>2, <3>1, <3>2, <3>4, <3>5, <3>6 DEF Genuine
  <2> QED
    BY <1>4, <2>1, <2>2 DEF Base, Paper
<1>6. Taken'
  BY <1>2 DEF Base, Taken, Genuine
<1>7. Control'
  <2>1. \A q \in Procs : Recovering(q)' = Recovering(q)
    BY <1>2 DEF Recovering
  <2>2. ASSUME NEW q \in Procs, q # p PROVE todo'[q] = todo[q]
    BY <1>2, <2>2 DEF Onward
  <2>3. Orderly(todo'[p]) /\ Within(todo'[p], Uses(op[p]) \cup {"none"}) /\ op[p] # "none"
    BY <1>2, <1>3 DEF Onward, Operations
  <2> QED
    BY <1>2, <2>1, <2>2, <2>3 DEF Base, Control, ControlOf
<1>8. Signed'
  <2>1. ASSUME NEW q \in Procs, NEW n \in notes', n.run = run[q], n \in notes
        PROVE  /\ n.owner = q /\ n.started = inc[q]
               /\ n.kind = "caps" => n.prior = seen'[q]["caps"] /\ ~Ahead(todo'[q], <<"apply", "caps">>)
    <3>1. /\ n.owner = q /\ n.started = inc[q]
          /\ n.kind = "caps" => n.prior = seen[q]["caps"] /\ ~Ahead(todo[q], <<"apply", "caps">>)
      BY <2>1 DEF Base, Signed
    <3>2. CASE q # p
      BY <1>1, <1>2, <3>1, <3>2 DEF Moved, Onward
    <3>3. CASE q = p
      <4>1. At(p, "apply", "caps") => Ahead(todo[p], <<"apply", "caps">>)
        BY <1>1, <1>2, Front, Busy DEF Base, At
      <4>2. seen'[p]["caps"] # seen[p]["caps"] => At(p, "apply", "caps")
        BY <1>1 DEF Moved
      <4>3. Ahead(todo'[p], <<"apply", "caps">>) => Ahead(todo[p], <<"apply", "caps">>)
        BY <1>2 DEF Onward
      <4> QED
        BY <3>1, <3>3, <4>1, <4>2, <4>3
    <3> QED
      BY <3>2, <3>3
  <2>2. ASSUME NEW q \in Procs, NEW n \in notes', n.run = run[q], n \notin notes
        PROVE  /\ n.owner = q /\ n.started = inc[q]
               /\ n.kind = "caps" => n.prior = seen'[q]["caps"] /\ ~Ahead(todo'[q], <<"apply", "caps">>)
    <3>1. PICK e \in Effects : At(p, "note", e) /\ n = NoteOf(p, e)
      BY <1>4, <2>2
    <3>2. n.run = run[p] /\ n.owner = p /\ n.started = inc[p] /\ n.kind = e /\ n.prior = seen[p][e]
      BY <3>1 DEF NoteOf
    <3>3. q = p
      BY <1>3, <2>2, <3>2
    <3>4. ~At(p, "apply", "caps")
      BY <3>1 DEF At
    <3>5. seen'[p]["caps"] = seen[p]["caps"]
      BY <1>1, <3>4 DEF Moved
    <3>6. ~Ahead(todo'[p], <<"apply", e>>)
      BY <1>2, <3>1 DEF Onward
    <3> QED
      BY <3>2, <3>3, <3>5, <3>6
  <2> QED
    BY <1>2, <2>1, <2>2 DEF Signed
<1>9. Pending'
  <2> SUFFICES ASSUME NEW q \in Serves, alive[q], NEW n \in notes', n.owner = q, n.kind # "profiler",
                      <<"none", n.kind>> \notin Flaky, n.started # inc[q]
               PROVE  n \in rec[q] \cup mended[q]
    BY <1>2 DEF Pending
  <2>1. n \in notes
    <3> SUFFICES ASSUME n \notin notes PROVE FALSE
      OBVIOUS
    <3>1. n.owner = p /\ n.started = inc[p]
      BY <1>4 DEF NoteOf
    <3> QED
      BY <3>1
  <2> QED
    BY <2>1 DEF Base, Pending
<1>10. Dead => Dead'
  BY <1>2 DEF Dead, Running
<1> QED
  BY <1>1, <1>5, <1>6, <1>7, <1>8, <1>9, <1>10 DEF Base

LEMMA StepCover ==
  ASSUME Base, Dead, LoadTestsReach, Cover, NEW p \in Procs, Step(p)
  PROVE  Cover'
<1>1. Moved(p) /\ Types
  BY StepMoves DEF Base
<1>2. /\ UNCHANGED <<alive, inc, op, run, runs, rec, mended>>
      /\ todo[p] # <<>> /\ Onward(p)
  BY <1>1 DEF Moved
<1>3. /\ alive[p] /\ Orderly(todo[p])
      /\ \A q \in Procs : run[q] = run[p] => q = p
  BY <1>1, <1>2, Busy DEF Base
<1> SUFFICES ASSUME NEW e \in Guarded PROVE Covered(e)'
  BY DEF Cover
<1>4. Covered(e)
  BY DEF Cover
<1>5. ASSUME NEW n \in notes \ notes'
      PROVE  n.run = run[p] /\ (At(p, "clear", n.kind) \/ At(p, "set", n.kind))
  BY <1>1, <1>5 DEF Moved, Own
<1>6. \A q \in Procs : \A k, f : q # p => At(q, k, f)' = At(q, k, f)
  BY <1>2 DEF Onward, At
<1>7. ASSUME Changed(e)', Changed(e) PROVE \E n \in notes' : n.kind = e /\ InForce(n)'
  <2>1. PICK n \in notes : n.kind = e /\ InForce(n)
    BY <1>4, <1>7 DEF Covered
  <2>2. At(p, "set", e) => Ahead(todo[p], <<"set", e>>)
    BY <1>2, <1>3, Front DEF At
  <2>3. n \in notes'
    BY <1>5, <2>1, <2>2 DEF InForce
  <2>4. ~At(p, "clear", e)'
    BY <1>1, <1>7 DEF Moved, Changed
  <2>5. ASSUME NEW q \in Procs, run[q] = n.run PROVE ~Ahead(todo'[q], <<"set", e>>) /\ ~At(q, "clear", e)'
    BY <1>2, <1>6, <2>1, <2>4, <2>5 DEF InForce, Onward
  <2>6. InForce(n)'
    BY <1>2, <2>1, <2>5 DEF InForce
  <2> QED
    BY <2>1, <2>3, <2>6
<1>8. ASSUME Changed(e)', ~Changed(e) PROVE \E n \in notes' : n.kind = e /\ InForce(n)'
  <2>1. At(p, "set", e) /\ MustChange(p, e) /\ notes' = notes
    BY <1>1, <1>8 DEF Moved
  <2>2. PICK n \in notes : n.kind = e /\ n.run = run[p]
    BY <1>4, <2>1 DEF Covered
  <2>3. Running(n)
    BY <1>3, <2>2 DEF Running, Base, Signed
  <2>4. \A q \in Procs : n \notin mended[q]
    BY <2>3 DEF Dead
  <2>5. ~Ahead(todo'[p], <<"set", e>>)
    BY <1>2, <2>1 DEF Onward
  <2>6. ~At(p, "clear", e)'
    BY <1>2, <2>1 DEF Onward, At
  <2>7. InForce(n)'
    BY <1>2, <1>3, <2>2, <2>4, <2>5, <2>6 DEF InForce
  <2> QED
    BY <2>1, <2>2, <2>7
<1>9. ASSUME NEW q \in Procs, At(q, "set", e)', MustChange(q, e)'
      PROVE  \E n \in notes' : n.kind = e /\ n.run = run[q]
  <2>1. CASE q = p
    <3>1. NoteOf(p, e) \in notes'
      BY <1>1, <1>9, <2>1 DEF Moved
    <3> QED
      BY <2>1, <3>1 DEF NoteOf
  <2>2. CASE q # p
    <3>1. At(q, "set", e)
      BY <1>6, <1>9, <2>2
    <3>2. seen'[q] = seen[q] /\ op' = op
      BY <1>1, <1>2, <2>2 DEF Moved
    <3>3. MustChange(q, e)
      BY <1>9, <3>2 DEF MustChange
    <3>4. PICK n \in notes : n.kind = e /\ n.run = run[q]
      BY <1>4, <3>1, <3>3 DEF Covered
    <3>5. n \in notes'
      BY <1>3, <1>5, <2>2, <3>4
    <3> QED
      BY <3>4, <3>5
  <2> QED
    BY <2>1, <2>2
<1> QED
  BY <1>2, <1>7, <1>8, <1>9 DEF Covered

LEMMA CapsSteps ==
  ASSUME Types, Control, NEW p \in Procs, NEW k, At(p, k, "caps")
  PROVE  Ops[p] \cap CapsOps # {} /\ ~Recovering(p)
<1>1. todo[p] # <<>> /\ Head(todo[p]) = <<k, "caps">>
  BY DEF At
<1>2. Orderly(todo[p]) /\ Within(todo[p], Uses(op[p]) \cup {"none"}) /\ op[p] \in Operations /\ ~Recovering(p)
  BY <1>1, Busy
<1>3. Head(todo[p])[2] \in Uses(op[p]) \cup {"none"}
  BY <1>1, <1>2, Front
<1>4. op[p] \in CapsOps
  BY <1>1, <1>3 DEF Uses
<1>5. op[p] \in Ops[p]
  BY <1>2 DEF Types, Operations
<1> QED
  BY <1>2, <1>4, <1>5

LEMMA StepCaps ==
  ASSUME Base, OneKeepsCaps, CapsBack, NEW p \in Procs, Step(p)
  PROVE  CapsBack'
<1>1. Moved(p) /\ Types /\ Control
  BY StepMoves DEF Base
<1>2. PICK s \in Procs : Serves \subseteq {s} /\ \A q \in Procs : Ops[q] \cap CapsOps # {} => q = s
  BY DEF OneKeepsCaps
<1>3. UNCHANGED <<rec, mended>> /\ Onward(p)
  BY <1>1 DEF Moved
<1>4. val'["caps"] # val["caps"] => p = s /\ ~Recovering(s)
  BY <1>1, <1>2, CapsSteps DEF Moved
<1>5. ASSUME NEW q \in Procs, At(q, "clear", "caps")' PROVE val'["caps"] = seen'[q]["caps"]
  <2>1. CASE q = p
    BY <1>1, <1>5, <2>1 DEF Moved
  <2>2. CASE q # p
    <3>1. At(q, "clear", "caps") /\ seen'[q] = seen[q]
      BY <1>1, <1>3, <1>5, <2>2 DEF Moved, Onward, At
    <3>2. q = s
      BY <1>1, <1>2, <3>1, CapsSteps
    <3> QED
      BY <1>4, <2>2, <3>1, <3>2 DEF CapsBack
  <2> QED
    BY <2>1, <2>2
<1>6. ASSUME NEW q \in Procs, NEW n \in mended[q], n.kind = "caps" PROVE val'["caps"] = n.prior
  <2>1. Recovering(q) /\ q \in Serves
    BY <1>1, <1>6 DEF Recovering, Control, ControlOf
  <2>2. val'["caps"] = val["caps"]
    BY <1>2, <1>4, <2>1
  <2> QED
    BY <1>6, <2>2 DEF CapsBack
<1> QED
  BY <1>3, <1>5, <1>6 DEF CapsBack

-----------------------------------------------------------------------------
(* The other actions. *)

LEMMA StartKeeps ==
  ASSUME Base, NEW p \in Procs, NEW o \in Ops[p], Start(p, o)
  PROVE  Base' /\ (Dead => Dead') /\ (Cover => Cover') /\ (CapsBack => CapsBack')
<1>1. /\ alive[p] /\ op[p] = "none" /\ ~Recovering(p) /\ runs < MaxRuns /\ runs' = runs + 1
      /\ op' = [op EXCEPT ![p] = o] /\ run' = [run EXCEPT ![p] = runs + 1]
      /\ todo' = [todo EXCEPT ![p] = Steps(o)]
      /\ UNCHANGED <<alive, inc, seen, did, holds, val, unheard, notes, rec, mended>>
  BY DEF Start
<1>2. o \in Operations
  BY OpsAreOperations DEF Procs
<1>3. Orderly(Steps(o)) /\ Opens(Steps(o)) /\ Within(Steps(o), Uses(o) \cup {"none"}) /\ Steps(o) \in Seq(StepSet)
  BY <1>2, StepsAreOrderly DEF Orderly
<1>4. Types /\ Paper /\ Taken /\ Control /\ Signed /\ Pending /\ runs \in Nat
  BY DEF Base, Types
<1>5. /\ op'[p] = o /\ run'[p] = runs + 1 /\ todo'[p] = Steps(o)
      /\ \A q \in Procs \ {p} : op'[q] = op[q] /\ run'[q] = run[q] /\ todo'[q] = todo[q]
  BY <1>1, <1>4 DEF Types
<1>6. runs + 1 \in 0..MaxRuns /\ runs + 1 \in 1..(runs + 1) /\ runs <= runs + 1
  BY <1>1, <1>4
<1>7. \A q \in Procs : run[q] # runs + 1 /\ (run[q] \in 1..runs => run[q] \in 1..(runs + 1))
  <2> SUFFICES ASSUME NEW q \in Procs PROVE run[q] # runs + 1 /\ (run[q] \in 1..runs => run[q] \in 1..(runs + 1))
    OBVIOUS
  <2>1. run[q] = 0 \/ run[q] \in 1..runs
    BY <1>4 DEF Control, ControlOf
  <2> QED
    BY <1>4, <2>1
<1>8. \A k \in {"clear", "set"} : \A e : ~At(p, k, e)'
  <2>1. Steps(o) # <<>> => Head(Steps(o)) = Steps(o)[1]
    BY <1>3
  <2>2. \A k, e : <<k, e>>[1] = k
    OBVIOUS
  <2> QED
    BY <1>3, <1>5, <2>1, <2>2 DEF Opens, At
<1>9. \A q \in Procs \ {p} : \A k, e : At(q, k, e)' = At(q, k, e)
  BY <1>5 DEF At
<1>10. \A n \in notes : n.run # runs + 1
  <2> SUFFICES ASSUME NEW n \in notes PROVE n.run # runs + 1
    OBVIOUS
  <2>1. n.run <= runs /\ n.run \in Nat
    BY <1>4 DEF Paper, Genuine, NoteSet
  <2> QED
    BY <1>4, <2>1
<1>11. Types'
  <2>1. op' \in [Procs -> Operations \cup {"none"}] /\ \A q \in Procs : op'[q] \in Ops[q] \cup {"none"}
    BY <1>1, <1>2, <1>4 DEF Types
  <2>2. run' \in [Procs -> 0..MaxRuns]
    BY <1>1, <1>4, <1>6 DEF Types
  <2>3. todo' \in [Procs -> Seq(StepSet)]
    BY <1>1, <1>3, <1>4 DEF Types
  <2> QED
    BY <1>1, <1>4, <1>6, <2>1, <2>2, <2>3 DEF Types
<1>12. \A n : Genuine(n) => Genuine(n)'
  <2> SUFFICES ASSUME NEW n, Genuine(n) PROVE Genuine(n)'
    OBVIOUS
  <2>1. n.run \in Nat /\ n.run <= runs
    BY DEF Genuine, NoteSet
  <2>2. n.run <= runs + 1
    BY <1>4, <2>1
  <2> QED
    BY <1>1, <2>2 DEF Genuine
<1>13. Paper' /\ Taken'
  BY <1>1, <1>4, <1>12 DEF Paper, Taken
<1>14. Control'
  <2>1. \A q \in Procs : Recovering(q)' = Recovering(q)
    BY <1>1 DEF Recovering
  <2>2. ASSUME NEW q \in Procs, q # p PROVE ControlOf(q)'
    <3>1. ControlOf(q)
      BY <1>4 DEF Control
    <3>2. run'[q] = run[q] /\ todo'[q] = todo[q] /\ op'[q] = op[q]
      BY <1>5, <2>2
    <3>3. \A r \in Procs : run[q] = run'[r] /\ run[q] # 0 => q = r
      BY <1>5, <1>7, <3>1 DEF ControlOf
    <3> QED
      BY <1>1, <1>7, <2>1, <3>1, <3>2, <3>3 DEF ControlOf
  <2>3. o # "none"
    BY <1>2 DEF Operations
  <2>4. inc[p] >= 1 /\ \A r \in Procs : run'[p] = run'[r] => p = r
    BY <1>1, <1>4, <1>5, <1>7 DEF Control, ControlOf
  <2>5. ControlOf(p)'
    BY <1>1, <1>3, <1>5, <1>6, <2>1, <2>3, <2>4 DEF ControlOf
  <2> QED
    BY <2>2, <2>5 DEF Control
<1>18. Signed'
  BY <1>1, <1>4, <1>5, <1>10 DEF Signed
<1>15. Pending' /\ (Dead => Dead')
  BY <1>1, <1>4 DEF Pending, Dead, Running
<1>16. ASSUME Cover PROVE Cover'
  <2> SUFFICES ASSUME NEW e \in Guarded PROVE Covered(e)'
    BY DEF Cover
  <2>1. Covered(e)
    BY <1>16 DEF Cover
  <2>2. ASSUME NEW n \in notes, n.kind = e, InForce(n) PROVE InForce(n)'
    BY <1>1, <1>5, <1>9, <1>10, <2>2 DEF InForce
  <2>3. \A q \in Procs : MustChange(q, e)' /\ q # p => MustChange(q, e)
    BY <1>1, <1>5 DEF MustChange
  <2>4. ASSUME NEW q \in Procs, At(q, "set", e)', MustChange(q, e)'
        PROVE  \E n \in notes : n.kind = e /\ n.run = run'[q]
    <3>1. q # p
      BY <1>8, <2>4
    <3> QED
      BY <1>5, <1>9, <2>1, <2>3, <2>4, <3>1 DEF Covered
  <2> QED
    BY <1>1, <2>1, <2>2, <2>4 DEF Covered, Changed
<1>17. ASSUME CapsBack PROVE CapsBack'
  BY <1>1, <1>8, <1>9, <1>17 DEF CapsBack
<1> QED
  BY <1>11, <1>13, <1>14, <1>18, <1>15, <1>16, <1>17 DEF Base

\* p's operation ends, and perhaps p with it.
Stops(p) ==
  /\ Idle(p)
  /\ UNCHANGED <<inc, val, unheard, notes, runs>>
  /\ \/ UNCHANGED <<alive, rec, mended>>
     \/ /\ alive' = [alive EXCEPT ![p] = FALSE]
        /\ rec' = [rec EXCEPT ![p] = {}]
        /\ mended' = [mended EXCEPT ![p] = {}]

LEMMA StopsKeeps ==
  ASSUME Base, NEW p \in Procs, Stops(p)
  PROVE  Base' /\ (Dead => Dead') /\ (Cover => Cover') /\ (CapsBack => CapsBack')
<1>1. Types /\ Paper /\ Taken /\ Control /\ Signed /\ Pending
  BY DEF Base
<1>2. /\ op' = [op EXCEPT ![p] = "none"] /\ run' = [run EXCEPT ![p] = 0]
      /\ todo' = [todo EXCEPT ![p] = <<>>]
      /\ seen' = [seen EXCEPT ![p] = [e \in Effects |-> "unknown"]]
      /\ did' = [did EXCEPT ![p] = [e \in Effects |-> FALSE]]
      /\ holds' = [holds EXCEPT ![p] = {}]
      /\ UNCHANGED <<inc, val, unheard, notes, runs>>
  BY DEF Stops, Idle
<1>3. /\ op'[p] = "none" /\ run'[p] = 0 /\ todo'[p] = <<>>
      /\ \A q \in Procs \ {p} : op'[q] = op[q] /\ run'[q] = run[q] /\ todo'[q] = todo[q] /\ seen'[q] = seen[q]
  BY <1>1, <1>2 DEF Types
<1>4. \/ UNCHANGED <<alive, rec, mended>>
      \/ /\ alive'[p] = FALSE /\ rec'[p] = {} /\ mended'[p] = {}
         /\ \A q \in Procs \ {p} : alive'[q] = alive[q] /\ rec'[q] = rec[q] /\ mended'[q] = mended[q]
  BY <1>1 DEF Stops, Types
<1>5. \A q \in Procs :
        /\ rec'[q] \subseteq rec[q] /\ mended'[q] \subseteq mended[q]
        /\ alive'[q] => alive[q] /\ rec'[q] = rec[q] /\ mended'[q] = mended[q]
        /\ q # p => alive'[q] = alive[q] /\ rec'[q] = rec[q] /\ mended'[q] = mended[q]
  BY <1>4
<1>6. Types'
  <2>1. alive' \in [Procs -> BOOLEAN] /\ rec' \in [Procs -> SUBSET NoteSet] /\ mended' \in [Procs -> SUBSET NoteSet]
    BY <1>1 DEF Stops, Types
  <2>2. op' \in [Procs -> Operations \cup {"none"}] /\ \A q \in Procs : op'[q] \in Ops[q] \cup {"none"}
    BY <1>1, <1>2 DEF Types
  <2>3. run' \in [Procs -> 0..MaxRuns]
    BY <1>1, <1>2 DEF Types
  <2>4. todo' \in [Procs -> Seq(StepSet)]
    <3>1. <<>> \in Seq(StepSet)
      OBVIOUS
    <3> QED
      BY <1>1, <1>2, <3>1 DEF Types
  <2>5. /\ seen' \in [Procs -> [Effects -> Values \cup {"unknown"}]]
        /\ did' \in [Procs -> [Effects -> BOOLEAN]]
        /\ holds' \in [Procs -> SUBSET Effects]
    BY <1>1, <1>2 DEF Types
  <2>6. \A q \in Procs, e \in CarriesPrior : did'[q][e] => seen'[q][e] \in Values
    BY <1>1, <1>2 DEF Types, CarriesPrior, Effects
  <2> QED
    BY <1>1, <1>2, <2>1, <2>2, <2>3, <2>4, <2>5, <2>6 DEF Types
<1>7. Paper' /\ Taken'
  BY <1>1, <1>2, <1>5 DEF Paper, Taken, Genuine
<1>8. Orderly(<<>>)
  <2> SUFFICES ASSUME NEW s, s = <<>> PROVE Orderly(s)
    OBVIOUS
  <2>1. s \in Seq(StepSet) /\ Len(s) = 0
    OBVIOUS
  <2> QED
    BY <2>1 DEF Orderly
<1>9. Control'
  <2>1. \A q \in Procs : Recovering(q)' => Recovering(q)
    BY <1>5 DEF Recovering
  <2>2. \A q \in Procs : Recovering(q)' => alive'[q]
    BY <1>1, <1>4, <2>1 DEF Recovering, Control, ControlOf
  <2>3. ASSUME NEW q \in Procs, q # p PROVE ControlOf(q)'
    <3>1. ControlOf(q)
      BY <1>1 DEF Control
    <3>2. run'[q] = run[q] /\ todo'[q] = todo[q] /\ op'[q] = op[q] /\ alive'[q] = alive[q]
      BY <1>3, <1>5, <2>3
    <3>3. \A r \in Procs : run[q] = run'[r] /\ run[q] # 0 => q = r
      BY <1>3, <3>1 DEF ControlOf
    <3> QED
      BY <1>2, <2>1, <3>1, <3>2, <3>3 DEF ControlOf
  <2>4. alive'[p] => inc[p] >= 1
    BY <1>1, <1>5 DEF Control, ControlOf
  <2>5. Recovering(p)' => p \in Serves
    BY <1>1, <2>1 DEF Control, ControlOf
  <2>6. ControlOf(p)'
    BY <1>2, <1>3, <1>8, <2>2, <2>4, <2>5 DEF ControlOf
  <2> QED
    BY <2>3, <2>6 DEF Control
<1>10. Signed'
  <2>1. \A n \in notes : n.run # 0
    BY <1>1 DEF Paper, Genuine, NoteSet
  <2> QED
    BY <1>1, <1>2, <1>3, <2>1 DEF Signed
<1>11. Pending'
  <2>1. \A q \in Serves : q \in Procs
    BY DEF Procs
  <2> QED
    BY <1>1, <1>2, <1>5, <2>1 DEF Pending
<1>12. ASSUME Dead PROVE Dead'
  <2>1. ASSUME NEW q \in Procs, NEW n \in rec'[q] \cup mended'[q] PROVE ~Running(n)'
    <3>1. n \in rec[q] \cup mended[q] /\ Genuine(n)
      BY <1>1, <1>5 DEF Taken
    <3>2. ~Running(n) /\ n.owner \in Procs
      BY <1>12, <3>1 DEF Dead, Genuine, NoteSet
    <3> QED
      BY <1>2, <1>5, <3>2 DEF Running
  <2> QED
    BY <2>1 DEF Dead
<1>13. (\A k, e : ~At(p, k, e)') /\ (\A q \in Procs \ {p} : \A k, e : At(q, k, e)' = At(q, k, e))
  BY <1>3 DEF At
<1>14. ASSUME Cover PROVE Cover'
  <2> SUFFICES ASSUME NEW e \in Guarded PROVE Covered(e)'
    BY DEF Cover
  <2>1. Covered(e)
    BY <1>14 DEF Cover
  <2>2. ASSUME NEW n \in notes, n.kind = e, InForce(n) PROVE InForce(n)'
    <3>1. n.run # 0
      BY <1>1 DEF Paper, Genuine, NoteSet
    <3> QED
      BY <1>3, <1>5, <1>13, <2>2, <3>1 DEF InForce
  <2>3. \A q \in Procs : MustChange(q, e)' /\ q # p => MustChange(q, e)
    BY <1>3 DEF MustChange
  <2>4. ASSUME NEW q \in Procs, At(q, "set", e)', MustChange(q, e)'
        PROVE  \E n \in notes : n.kind = e /\ n.run = run'[q]
    BY <1>3, <1>13, <2>1, <2>3, <2>4 DEF Covered
  <2> QED
    BY <1>2, <2>1, <2>2, <2>4 DEF Covered, Changed
<1>15. ASSUME CapsBack PROVE CapsBack'
  BY <1>2, <1>3, <1>5, <1>13, <1>15 DEF CapsBack
<1> QED
  BY <1>6, <1>7, <1>9, <1>10, <1>11, <1>12, <1>14, <1>15 DEF Base

LEMMA BootKeeps ==
  ASSUME Base, NEW p \in Procs, Boot(p)
  PROVE  Base' /\ (HasProc /\ Dead => Dead') /\ (Cover => Cover') /\ (CapsBack => CapsBack')
<1>1. Types /\ Paper /\ Taken /\ Control /\ Signed /\ Pending /\ ControlOf(p)
  BY DEF Base, Control
<1>2. /\ ~alive[p] /\ inc[p] < MaxInc
      /\ alive' = [alive EXCEPT ![p] = TRUE] /\ inc' = [inc EXCEPT ![p] = @ + 1]
      /\ rec' = [rec EXCEPT ![p] = IF p \in Serves THEN {n \in notes : ~OwnerAlive(n)} ELSE {}]
      /\ UNCHANGED <<op, run, todo, seen, did, holds, val, unheard, notes, runs, mended>>
  BY DEF Boot, local
<1>3. op[p] = "none" /\ run[p] = 0 /\ rec[p] = {} /\ mended[p] = {}
  BY <1>1, <1>2 DEF ControlOf, Recovering
<1>4. inc[p] \in Nat /\ inc[p] + 1 \in 0..MaxInc /\ inc[p] + 1 >= 1
  BY <1>1, <1>2 DEF Types
<1>5. /\ alive'[p] /\ inc'[p] = inc[p] + 1
      /\ \A q \in Procs \ {p} : alive'[q] = alive[q] /\ inc'[q] = inc[q] /\ rec'[q] = rec[q]
      /\ rec'[p] = IF p \in Serves THEN {n \in notes : ~OwnerAlive(n)} ELSE {}
  BY <1>1, <1>2 DEF Types
<1>6. \A n : Genuine(n) => Genuine(n)' /\ ~(n.owner = p /\ n.started = inc'[p])
  <2> SUFFICES ASSUME NEW n, Genuine(n) PROVE Genuine(n)' /\ ~(n.owner = p /\ n.started = inc'[p])
    OBVIOUS
  <2>1. n.owner \in Procs /\ n.started \in Nat /\ n.started <= inc[n.owner]
    BY DEF Genuine, NoteSet
  <2>2. n.started <= inc'[n.owner] /\ ~(n.owner = p /\ n.started = inc'[p])
    BY <1>4, <1>5, <2>1
  <2> QED
    BY <1>2, <2>2 DEF Genuine
<1>7. Types'
  <2>1. alive' \in [Procs -> BOOLEAN] /\ inc' \in [Procs -> 0..MaxInc]
    BY <1>1, <1>2, <1>4 DEF Types
  <2>2. notes \subseteq NoteSet
    BY <1>1 DEF Paper, Genuine
  <2>3. rec' \in [Procs -> SUBSET NoteSet]
    BY <1>1, <1>2, <2>2 DEF Types
  <2> QED
    BY <1>1, <1>2, <2>1, <2>3 DEF Types
<1>8. \A q \in Procs : rec'[q] \subseteq rec[q] \cup notes
  BY <1>5
<1>9. Paper' /\ Taken'
  BY <1>1, <1>2, <1>6, <1>8 DEF Paper, Taken
<1>10. Control'
  <2>1. ASSUME NEW q \in Procs, q # p PROVE ControlOf(q)'
    BY <1>1, <1>2, <1>5, <2>1 DEF Control, ControlOf, Recovering
  <2>2. ControlOf(p)'
    <3>1. Recovering(p)' => p \in Serves
      BY <1>2, <1>3, <1>5 DEF Recovering
    <3>2. inc'[p] >= 1
      BY <1>4, <1>5
    <3> QED
      BY <1>1, <1>2, <1>3, <1>5, <3>1, <3>2 DEF ControlOf
  <2> QED
    BY <2>1, <2>2 DEF Control
<1>11. Signed'
  <2>1. \A n \in notes : n.run # 0
    BY <1>1 DEF Paper, Genuine, NoteSet
  <2> QED
    BY <1>1, <1>2, <1>3, <1>5, <2>1 DEF Signed
<1>12. Pending'
  <2>1. ASSUME NEW q \in Serves, alive'[q], NEW n \in notes, n.owner = q, n.kind # "profiler",
               <<"none", n.kind>> \notin Flaky, n.started # inc'[q]
        PROVE  n \in rec'[q] \cup mended[q]
    <3>1. CASE q = p
      <4>1. ~OwnerAlive(n)
        BY <2>1, <3>1 DEF OwnerAlive
      <4> QED
        BY <1>5, <2>1, <3>1, <4>1
    <3>2. CASE q # p
      BY <1>1, <1>5, <2>1, <3>2 DEF Pending, Procs
    <3> QED
      BY <3>1, <3>2
  <2> QED
    BY <1>2, <2>1 DEF Pending
<1>13. ASSUME HasProc, Dead PROVE Dead'
  <2>1. ASSUME NEW q \in Procs, NEW n \in rec'[q] \cup mended[q] PROVE ~Running(n)'
    <3>1. CASE n \in rec[q] \cup mended[q]
      <4>1. Genuine(n) /\ ~Running(n) /\ n.owner \in Procs
        BY <1>1, <1>13, <3>1 DEF Dead, Taken, Genuine, NoteSet
      <4>2. ~(n.owner = p /\ n.started = inc'[p])
        BY <1>6, <4>1
      <4> QED
        BY <1>5, <4>1, <4>2 DEF Running
    <3>2. CASE n \in {m \in notes : ~OwnerAlive(m)}
      BY <1>13, <3>2 DEF OwnerAlive, Running
    <3> QED
      BY <1>5, <2>1, <3>1, <3>2
  <2> QED
    BY <1>2, <2>1 DEF Dead
<1>14. (Cover => Cover') /\ (CapsBack => CapsBack')
  <2>1. /\ \A q \in Procs : \A k, e : At(q, k, e)' = At(q, k, e)
        /\ \A q \in Procs : \A e : MustChange(q, e)' = MustChange(q, e)
    BY <1>2 DEF At, MustChange
  <2>2. \A n : InForce(n)' = InForce(n)
    BY <1>2, <2>1 DEF InForce
  <2>3. \A e : Covered(e)' = Covered(e)
    BY <1>2, <2>1, <2>2 DEF Covered, Changed
  <2>4. CapsBack' = CapsBack
    BY <1>2, <2>1 DEF CapsBack
  <2> QED
    BY <2>3, <2>4 DEF Cover
<1> QED
  BY <1>7, <1>9, <1>10, <1>11, <1>12, <1>13, <1>14 DEF Base

LEMMA RepairKeeps ==
  ASSUME Base, NEW p \in Procs, NEW n \in rec[p], Repair(p, n)
  PROVE  /\ Base' /\ (Dead => Dead') /\ (Cover => Cover')
         /\ OneKeepsCaps /\ CapsBack => CapsBack'
<1>1. Types /\ Paper /\ Taken /\ Control /\ Signed /\ Pending /\ ControlOf(p)
  BY DEF Base, Control
<1>2. PICK ok \in Answer(p, n.kind), took \in BOOLEAN :
        /\ ok => took
        /\ val' = IF took THEN [val EXCEPT ![n.kind] = IF n.kind \in CarriesPrior THEN n.prior ELSE "normal"] ELSE val
        /\ unheard' = IF took THEN unheard \ {n.kind} ELSE unheard
        /\ mended' = IF ok /\ n.kind # "profiler" THEN [mended EXCEPT ![p] = {n}] ELSE mended
  BY DEF Repair, Took
<1>3. /\ mended[p] = {} /\ rec' = [rec EXCEPT ![p] = @ \ {n}]
      /\ UNCHANGED <<alive, inc, op, run, todo, seen, did, holds, notes, runs>>
  BY DEF Repair, local
<1>4. Genuine(n) /\ n \in NoteSet /\ n.kind \in Effects
  BY <1>1 DEF Taken, Genuine, NoteSet
<1>5. Recovering(p) /\ op[p] = "none" /\ p \in Serves /\ alive[p] /\ todo[p] = <<>>
  BY <1>1 DEF Recovering, ControlOf
<1>6. /\ rec'[p] = rec[p] \ {n}
      /\ \A q \in Procs \ {p} : rec'[q] = rec[q] /\ mended'[q] = mended[q]
      /\ mended'[p] = IF ok /\ n.kind # "profiler" THEN {n} ELSE {}
  BY <1>1, <1>2, <1>3 DEF Types
<1>7. \A q \in Procs : rec'[q] \subseteq rec[q] /\ mended'[q] \subseteq mended[q] \cup rec[q]
  BY <1>6
<1>8. Types'
  <2>1. val' \in [Effects -> Values]
    BY <1>1, <1>2, <1>4 DEF Types, Genuine, Values
  <2>2. unheard' \subseteq Effects
    BY <1>1, <1>2 DEF Types
  <2>3. rec' \in [Procs -> SUBSET NoteSet] /\ mended' \in [Procs -> SUBSET NoteSet]
    BY <1>1, <1>2, <1>3, <1>4 DEF Types
  <2> QED
    BY <1>1, <1>3, <2>1, <2>2, <2>3 DEF Types
<1>9. Paper' /\ Taken'
  BY <1>1, <1>3, <1>7 DEF Paper, Taken, Genuine
<1>10. Control'
  <2>1. ASSUME NEW q \in Procs PROVE ControlOf(q)'
    <3>1. Recovering(q)' => Recovering(q)
      BY <1>7 DEF Recovering
    <3>2. ControlOf(q)
      BY <1>1 DEF Control
    <3> QED
      BY <1>3, <3>1, <3>2 DEF ControlOf
  <2> QED
    BY <2>1 DEF Control
<1>11. Signed'
  BY <1>1, <1>3 DEF Signed
<1>12. Pending'
  <2>1. ASSUME NEW q \in Serves, alive[q], NEW m \in notes, m.owner = q, m.kind # "profiler",
               <<"none", m.kind>> \notin Flaky, m.started # inc[q]
        PROVE  m \in rec'[q] \cup mended'[q]
    <3>1. m \in rec[q] \cup mended[q] /\ q \in Procs
      BY <1>1, <2>1 DEF Pending, Procs
    <3>2. CASE q = p /\ m = n
      <4>1. ok
        BY <1>5, <2>1, <3>2 DEF Answer
      <4> QED
        BY <1>6, <2>1, <3>2, <4>1
    <3> QED
      BY <1>3, <1>6, <3>1, <3>2
  <2> QED
    BY <1>3, <2>1 DEF Pending
<1>13. Dead => Dead'
  BY <1>3, <1>7 DEF Dead, Running
<1>14. ASSUME Cover PROVE Cover'
  <2> SUFFICES ASSUME NEW e \in Guarded PROVE Covered(e)'
    BY DEF Cover
  <2>1. Covered(e) /\ e \in Effects /\ e \notin CarriesPrior
    BY <1>14 DEF Cover, Guarded, Effects, CarriesPrior
  <2>2. ASSUME Changed(e)' PROVE Changed(e) /\ (ok => n.kind # e)
    BY <1>1, <1>2, <2>1, <2>2 DEF Types, Changed, Took
  <2>3. ASSUME Changed(e)', NEW m \in notes, m.kind = e, InForce(m) PROVE InForce(m)'
    <3>1. \A q \in Procs : m \notin mended'[q]
      BY <1>6, <2>2, <2>3 DEF InForce
    <3> QED
      BY <1>3, <2>3, <3>1 DEF InForce, At
  <2>4. \A q \in Procs : At(q, "set", e)' /\ MustChange(q, e)' => At(q, "set", e) /\ MustChange(q, e)
    BY <1>3 DEF At, MustChange
  <2> QED
    BY <1>3, <2>1, <2>2, <2>3, <2>4 DEF Covered
<1>15. ASSUME OneKeepsCaps, CapsBack PROVE CapsBack'
  <2>1. PICK s \in Procs : Serves \subseteq {s} /\ \A q \in Procs : Ops[q] \cap CapsOps # {} => q = s
    BY <1>15 DEF OneKeepsCaps
  <2>2. p = s
    BY <1>5, <2>1
  <2>3. \A q \in Procs : ~At(q, "clear", "caps")
    BY <1>1, <1>5, <2>1, <2>2, CapsSteps
  <2>4. ASSUME NEW q \in Procs, NEW m \in mended'[q], m.kind = "caps" PROVE val'["caps"] = m.prior
    <3>1. q = p
      <4>1. CASE q # p
        <5>1. mended[q] # {}
          BY <1>6, <2>4, <4>1
        <5>2. q \in Serves
          BY <1>1, <5>1 DEF Control, ControlOf, Recovering
        <5> QED
          BY <2>1, <2>2, <5>2
      <4> QED
        BY <4>1
    <3>2. ok /\ m = n
      BY <1>6, <2>4, <3>1
    <3> QED
      BY <1>1, <1>2, <2>4, <3>2 DEF Types, CarriesPrior, Effects, Took
  <2>5. \A q \in Procs : ~At(q, "clear", "caps")'
    BY <1>3, <2>3 DEF At
  <2> QED
    BY <2>4, <2>5 DEF CapsBack
<1> QED
  BY <1>8, <1>9, <1>10, <1>11, <1>12, <1>13, <1>14, <1>15 DEF Base

LEMMA ForgetKeeps ==
  ASSUME Base, NEW p \in Procs, Forget(p)
  PROVE  Base' /\ (Dead => Dead') /\ (Dead /\ Cover => Cover') /\ (CapsBack => CapsBack')
<1>1. Types /\ Paper /\ Taken /\ Control /\ Signed /\ Pending
  BY DEF Base
<1>2. /\ notes' = notes \ mended[p] /\ mended' = [mended EXCEPT ![p] = {}]
      /\ UNCHANGED <<alive, inc, op, run, todo, seen, did, holds, val, unheard, runs, rec>>
  BY DEF Forget, local
<1>3. mended'[p] = {} /\ \A q \in Procs \ {p} : mended'[q] = mended[q]
  BY <1>1, <1>2 DEF Types
<1>4. \A q \in Procs : mended'[q] \subseteq mended[q]
  BY <1>3
<1>5. Types'
  <2>1. mended' \in [Procs -> SUBSET NoteSet]
    BY <1>1, <1>2 DEF Types
  <2> QED
    BY <1>1, <1>2, <2>1 DEF Types
<1>6. Paper' /\ Taken' /\ Signed'
  BY <1>1, <1>2, <1>4 DEF Paper, Taken, Signed, Genuine
<1>7. Control'
  <2>1. ASSUME NEW q \in Procs PROVE ControlOf(q)'
    <3>1. Recovering(q)' => Recovering(q)
      BY <1>2, <1>4 DEF Recovering
    <3>2. ControlOf(q)
      BY <1>1 DEF Control
    <3> QED
      BY <1>2, <3>1, <3>2 DEF ControlOf
  <2> QED
    BY <2>1 DEF Control
<1>8. Pending'
  <2>1. \A q \in Serves : q \in Procs
    BY DEF Procs
  <2> QED
    BY <1>1, <1>2, <1>3, <2>1 DEF Pending
<1>9. Dead => Dead'
  BY <1>2, <1>4 DEF Dead, Running
<1>10. ASSUME Dead, Cover PROVE Cover'
  <2> SUFFICES ASSUME NEW e \in Guarded PROVE Covered(e)'
    BY DEF Cover
  <2>1. Covered(e)
    BY <1>10 DEF Cover
  <2>2. ASSUME NEW n \in notes, InForce(n) PROVE InForce(n)' /\ n \in notes'
    BY <1>2, <1>4, <2>2 DEF InForce, At
  <2>3. ASSUME NEW q \in Procs, At(q, "set", e), NEW n \in notes, n.run = run[q] PROVE n \in notes'
    <3>1. alive[q]
      BY <1>1, <2>3, Busy DEF At
    <3>2. Running(n)
      BY <1>1, <2>3, <3>1 DEF Signed, Running
    <3> QED
      BY <1>2, <1>10, <3>2 DEF Dead
  <2>4. \A q \in Procs : At(q, "set", e)' /\ MustChange(q, e)' => At(q, "set", e) /\ MustChange(q, e)
    BY <1>2 DEF At, MustChange
  <2> QED
    BY <1>2, <2>1, <2>2, <2>3, <2>4 DEF Covered, Changed
<1>11. CapsBack => CapsBack'
  BY <1>2, <1>4 DEF CapsBack, At
<1> QED
  BY <1>5, <1>6, <1>7, <1>8, <1>9, <1>10, <1>11 DEF Base

-----------------------------------------------------------------------------
(* What holds in every execution. *)

LEMMA StutterKeeps ==
  ASSUME UNCHANGED vars
  PROVE  /\ (Base => Base') /\ (Dead => Dead') /\ (Cover => Cover') /\ (CapsBack => CapsBack')
<1>1. UNCHANGED <<alive, inc, op, run, todo, seen, did, holds, val, unheard, notes, runs, rec, mended>>
  BY DEF vars, local
<1>2. (Types => Types') /\ (Pending => Pending') /\ (Dead => Dead')
  BY <1>1 DEF Types, Pending, Dead, Running
<1>3. \A n : Genuine(n)' = Genuine(n)
  BY <1>1 DEF Genuine
<1>4. (Paper => Paper') /\ (Taken => Taken')
  BY <1>1, <1>3 DEF Paper, Taken
<1>5. \A q : ControlOf(q)' = ControlOf(q)
  BY <1>1 DEF ControlOf, Recovering
<1>6. (Control => Control') /\ (Signed => Signed')
  BY <1>1, <1>5 DEF Control, Signed
<1>7. (Cover => Cover') /\ (CapsBack => CapsBack')
  BY <1>1 DEF Cover, Covered, Changed, InForce, At, MustChange, CapsBack
<1> QED
  BY <1>2, <1>4, <1>6, <1>7 DEF Base

\* The actions of Next, as the lemmas name them.
LEMMA Actions ==
  ASSUME Next
  PROVE  \E p \in Procs :
           \/ \E o \in Ops[p] : Start(p, o)
           \/ Step(p)
           \/ Stops(p)
           \/ Boot(p)
           \/ \E n \in rec[p] : Repair(p, n)
           \/ Forget(p)
<1>1. ASSUME NEW p \in Procs, Finish(p) \/ Kill(p) PROVE Stops(p)
  BY <1>1 DEF Finish, Kill, Stops
<1> QED
  BY <1>1 DEF Next, OpStep, Step, RecoverStep

LEMMA InitIsGood == ASSUME Init PROVE Base /\ Dead /\ Cover /\ CapsBack
<1>1. Types
  <2>1. <<>> \in Seq(StepSet) /\ 0 \in 0..MaxInc /\ 0 \in 0..MaxRuns
    OBVIOUS
  <2>2. /\ alive \in [Procs -> BOOLEAN] /\ inc \in [Procs -> 0..MaxInc] /\ run \in [Procs -> 0..MaxRuns]
        /\ op \in [Procs -> Operations \cup {"none"}] /\ \A p \in Procs : op[p] = "none"
        /\ todo \in [Procs -> Seq(StepSet)] /\ runs \in 0..MaxRuns
    BY <2>1 DEF Init
  <2>3. /\ holds \in [Procs -> SUBSET Effects] /\ val \in [Effects -> Values]
        /\ unheard \subseteq Effects
        /\ rec \in [Procs -> SUBSET NoteSet] /\ mended \in [Procs -> SUBSET NoteSet]
    BY DEF Init, Values
  <2>4. /\ seen \in [Procs -> [Effects -> Values \cup {"unknown"}]]
        /\ did \in [Procs -> [Effects -> BOOLEAN]]
        /\ \A p \in Procs, e \in Effects : did[p][e] = FALSE
    BY DEF Init
  <2> QED
    BY <2>2, <2>3, <2>4 DEF Types, CarriesPrior, Effects
<1>2. Orderly(<<>>)
  <2> SUFFICES ASSUME NEW s, s = <<>> PROVE Orderly(s)
    OBVIOUS
  <2>1. s \in Seq(StepSet) /\ Len(s) = 0
    OBVIOUS
  <2> QED
    BY <2>1 DEF Orderly
<1>3. Control
  <2> SUFFICES ASSUME NEW p \in Procs PROVE ControlOf(p)
    BY DEF Control
  <2> QED
    BY <1>2 DEF Init, ControlOf, Recovering
<1>4. Paper /\ Taken /\ Signed /\ Pending /\ Dead
  BY DEF Init, Paper, Taken, Signed, Pending, Dead, Procs
<1>5. Cover /\ CapsBack
  <2>1. \A e \in Guarded : e \in Effects
    BY DEF Guarded, Effects
  <2> QED
    BY <2>1 DEF Init, Cover, Covered, Changed, CapsBack, At
<1> QED
  BY <1>1, <1>3, <1>4, <1>5 DEF Base

LEMMA NextKeepsBase ==
  ASSUME Base, [Next]_vars
  PROVE  Base' /\ (HasProc /\ Dead => Dead')
<1>1. CASE UNCHANGED vars
  BY <1>1, StutterKeeps
<1>2. CASE Next
  BY <1>2, Actions, StartKeeps, StepBase, StopsKeeps, BootKeeps, RepairKeeps, ForgetKeeps
<1> QED
  BY <1>1, <1>2

LEMMA NextKeepsCover ==
  ASSUME Base, Dead, LoadTestsReach, Cover, [Next]_vars
  PROVE  Cover'
<1>1. CASE UNCHANGED vars
  BY <1>1, StutterKeeps
<1>2. CASE Next
  BY <1>2, Actions, StartKeeps, StepCover, StopsKeeps, BootKeeps, RepairKeeps, ForgetKeeps
<1> QED
  BY <1>1, <1>2

LEMMA NextKeepsCaps ==
  ASSUME Base, OneKeepsCaps, CapsBack, [Next]_vars
  PROVE  CapsBack'
<1>1. CASE UNCHANGED vars
  BY <1>1, StutterKeeps
<1>2. CASE Next
  BY <1>2, Actions, StartKeeps, StepCaps, StopsKeeps, BootKeeps, RepairKeeps, ForgetKeeps
<1> QED
  BY <1>1, <1>2

\* Every variable has its type in every execution (services/journal.py, perf.py).
THEOREM TypeCorrect == Spec => []TypeOK
<1>1. Init => Base
  BY InitIsGood
<1>2. Base /\ [Next]_vars => Base'
  BY NextKeepsBase
<1>3. Base => TypeOK
  BY DEF Base, Types, Paper, Genuine, TypeOK
<1> QED
  BY <1>1, <1>2, <1>3, PTL DEF Spec

\* A serve that has finished recovering leaves no note of an earlier process with
\* its pid, wherever processes are killed, whether or not there is a /proc, and
\* however many processes there are (journal.py:46-47).
THEOREM NoPredecessorLeft == Spec => []PredecessorsAreCleared
<1>1. Init => Base
  BY InitIsGood
<1>2. Base /\ [Next]_vars => Base'
  BY NextKeepsBase
<1>3. Base => PredecessorsAreCleared
  BY DEF Base, Pending, PredecessorsAreCleared, Recovering, Procs
<1> QED
  BY <1>1, <1>2, <1>3, PTL DEF Spec

\* Whoever is killed and wherever, while the rate limiter is off or the metrics
\* endpoint open a note on disk says so, where start times can be read and a
\* performance run's own calls to restore the settings work (journal.py:15-18); but
\* for a limiter whose turning off was reported failed, of which the code drops the
\* note (seed.py:491-493).
THEOREM ChangesAreRecorded ==
  ASSUME HasProc, LoadTestsReach
  PROVE  Spec => []SettingsAreRecorded
<1>1. Init => Base /\ Dead /\ Cover
  BY InitIsGood
<1>2. Base /\ Dead /\ Cover /\ [Next]_vars => (Base /\ Dead /\ Cover)'
  BY NextKeepsBase, NextKeepsCover
<1>3. Base /\ Dead /\ Cover => SettingsAreRecorded
  BY DEF Cover, Covered, Changed, Guarded, SettingsAreRecorded, Recorded
<1> QED
  BY <1>1, <1>2, <1>3, PTL DEF Spec

\* No process but its writer removes the note of a live run, and the writer only
\* as a step of that run.
LEMMA NextSparesLiveNotes ==
  ASSUME Base, Dead, [Next]_vars
  PROVE  LiveNotesAreKept
<1> SUFFICES ASSUME NEW n \in notes \ notes', Running(n)
             PROVE  n \in Own(n.owner, n.kind) /\ todo'[n.owner] # todo[n.owner]
  BY DEF LiveNotesAreKept
<1>1. Types /\ Control
  BY DEF Base
<1>2. ASSUME NEW p \in Procs, Step(p)
      PROVE  n \in Own(n.owner, n.kind) /\ todo'[n.owner] # todo[n.owner]
  <2>1. Moved(p)
    BY <1>1, <1>2, StepMoves
  <2>2. PICK e \in Effects : n \in Own(p, e)
    BY <2>1 DEF Moved
  <2>3. n.run = run[p] /\ n.kind = e
    BY <2>2 DEF Own
  <2>4. n.owner = p
    BY <2>3 DEF Base, Signed
  <2> QED
    BY <2>1, <2>2, <2>3, <2>4 DEF Moved, Onward
<1>3. ASSUME NEW p \in Procs, Forget(p) PROVE FALSE
  <2>1. n \in mended[p]
    BY <1>3 DEF Forget
  <2> QED
    BY <2>1 DEF Dead
<1>4. notes' # notes
  OBVIOUS
<1>5. \E p \in Procs : Step(p) \/ Forget(p)
  <2>1. Next
    BY <1>4 DEF vars
  <2> QED
    BY <1>4, <2>1, Actions DEF Start, Stops, Boot, Repair
<1> QED
  BY <1>2, <1>3, <1>5

LEMMA NextKeepsCapsNote ==
  ASSUME Base, CapsBack, [Next]_vars
  PROVE  CapsNoteOutlivesFailedRestore
<1> SUFFICES ASSUME NEW n \in notes \ notes', n.kind = "caps" PROVE val["caps"] = n.prior
  BY DEF CapsNoteOutlivesFailedRestore
<1>1. Types /\ Control
  BY DEF Base
<1>2. ASSUME NEW p \in Procs, Step(p) PROVE val["caps"] = n.prior
  <2>1. Moved(p)
    BY <1>1, <1>2, StepMoves
  <2>2. PICK e \in Effects : n \in Own(p, e) /\ (At(p, "clear", e) \/ e \notin CarriesPrior)
    BY <2>1 DEF Moved
  <2>3. n.run = run[p] /\ e = "caps"
    BY <2>2 DEF Own
  <2>4. n.prior = seen[p]["caps"] /\ At(p, "clear", "caps")
    BY <2>2, <2>3 DEF Base, Signed, CarriesPrior
  <2> QED
    BY <2>4 DEF CapsBack
<1>3. ASSUME NEW p \in Procs, Forget(p) PROVE val["caps"] = n.prior
  <2>1. n \in mended[p]
    BY <1>3 DEF Forget
  <2> QED
    BY <2>1 DEF CapsBack
<1>4. notes' # notes
  OBVIOUS
<1>5. \E p \in Procs : Step(p) \/ Forget(p)
  <2>1. Next
    BY <1>4 DEF vars
  <2> QED
    BY <1>4, <2>1, Actions DEF Start, Stops, Boot, Repair
<1> QED
  BY <1>2, <1>3, <1>5

\* The first half of NotesGoInTime needs no assumption about who changes caps: where
\* start times can be read, recovery leaves live work alone (journal.py:20-25).
THEOREM RecoverySparesTheLiving == ASSUME HasProc PROVE Spec => [][LiveNotesAreKept]_vars
<1>1. Init => Base /\ Dead
  BY InitIsGood
<1>2. Base /\ Dead /\ [Next]_vars => (Base /\ Dead)'
  BY NextKeepsBase
<1>3. Base /\ Dead /\ [Next]_vars => [LiveNotesAreKept]_vars
  BY NextSparesLiveNotes
<1> QED
  BY <1>1, <1>2, <1>3, PTL DEF Spec

\* No note goes before its time: that of a live run only by its writer, that of
\* the caps only once they are back (perf.py:253-257), where start times can be
\* read and one process changes and recovers the caps.
THEOREM InTime ==
  ASSUME HasProc, OneKeepsCaps
  PROVE  Spec => NotesGoInTime
<1>1. Init => Base /\ Dead /\ CapsBack
  BY InitIsGood
<1>2. Base /\ Dead /\ CapsBack /\ [Next]_vars => (Base /\ Dead /\ CapsBack)'
  BY NextKeepsBase, NextKeepsCaps
<1>3. Base /\ Dead /\ CapsBack /\ [Next]_vars => [LiveNotesAreKept /\ CapsNoteOutlivesFailedRestore]_vars
  BY NextSparesLiveNotes, NextKeepsCapsNote
<1> QED
  BY <1>1, <1>2, <1>3, PTL DEF Spec, NotesGoInTime
=============================================================================
