---------------------------- MODULE InputProofs ----------------------------
(***************************************************************************)
(* The input of a console, for any number of fingers, any platform, any    *)
(* keyboard and any positions: the gesture recognizer always starts over   *)
(* (GesturesInv), and the guest has the pointer the user points with       *)
(* (PointerInv) and the keys the user holds (KeyboardInv), where nothing   *)
(* is still to come.  And with the invariants of the other parts: all of a *)
(* console has the type it is meant to.                                    *)
(***************************************************************************)
EXTENDS ConsoleProofs, ClipboardProofs, FiniteSetTheorems

-----------------------------------------------------------------------------
\* The touches: the fingers on the screen are those that are tracked and not
\* lifted, and those that are ignored; one that is lifted is waited for.
Touch == [id : Fingers, active : BOOLEAN, far : BOOLEAN]

TouchesOK ==
    /\ tracked \in Seq(Touch)
    /\ tracked # <<>> => Active(tracked) # {}
    /\ waitingRelease \/ \A i \in DOMAIN tracked : tracked[i].active
    /\ \A i, j \in DOMAIN tracked :
          tracked[i].active /\ tracked[j].active /\ tracked[i].id = tracked[j].id => i = j
    /\ Active(tracked) \cap ignoring = {} /\ Active(tracked) \cup ignoring = fingers
    /\ tracked = <<>> /\ ignoring = {} => ~waitingRelease

\* What the touches may still become, by how many there are.
TwoFingers == {"twotap", "threetap", "twodrag", "pinch"}
Drags == {"twodrag", "pinch"}
AfterRelease == {{}, {"twotap"}, {"threetap"}, {"twodrag"}, {"pinch"}}

Reached ==
    /\ tracked = <<>> => state = IF ignoring = {} THEN InitState ELSE {}
    /\ tracked # <<>> /\ waitingRelease => Len(tracked) >= 2 /\ state \in AfterRelease
    /\ ~waitingRelease =>
          /\ Len(tracked) = 1 => state \in {InitState, {}, {"drag"}, {"longpress"}}
          /\ Len(tracked) = 2 => state \in {TwoFingers, Drags, {"twodrag"}, {"pinch"}, {}}
          /\ Len(tracked) >= 3 => state \in {{"threetap"}, {"twodrag"}, {"pinch"}, {}}

\* And what the timers are for.
TimersOK ==
    /\ longpress \in BOOLEAN /\ twoTouch \in BOOLEAN /\ threw = FALSE
    /\ longpress => Len(tracked) = 1 /\ state \in {InitState, {}}
    /\ twoTouch => Len(tracked) >= 2 /\ state \in {Drags, {}}

GesturesInv == TouchesOK /\ Reached /\ TimersOK

-----------------------------------------------------------------------------
\* Operators.

LEMMA SeveralAreNotOne ==
    Cardinality(Drags) # 1 /\ Cardinality(TwoFingers) # 1 /\ Cardinality(InitState) # 1
<1>1. ASSUME NEW S, IsFiniteSet(S), NEW x \in S, NEW y \in S, x # y PROVE Cardinality(S) # 1
  BY <1>1, FS_Singleton
<1>2. \A S, x : IsFiniteSet(S) => IsFiniteSet(S \cup {x}) BY FS_AddElement
<1>3. Drags = {"twodrag"} \cup {"pinch"} BY DEF Drags
<1>4. IsFiniteSet(Drags) BY <1>2, <1>3, FS_Singleton
<1>5. TwoFingers = (Drags \cup {"twotap"}) \cup {"threetap"} BY DEF Drags, TwoFingers
<1>6. IsFiniteSet(TwoFingers) BY <1>2, <1>4, <1>5
<1>7. InitState = ((TwoFingers \cup {"onetap"}) \cup {"drag"}) \cup {"longpress"}
  BY DEF TwoFingers, InitState, Taps
<1>8. IsFiniteSet(InitState) BY <1>2, <1>6, <1>7
<1>9. Cardinality(Drags) # 1 BY <1>1, <1>4 DEF Drags
<1>10. Cardinality(TwoFingers) # 1 BY <1>1, <1>6 DEF TwoFingers
<1>11. Cardinality(InitState) # 1
  <2>1. "drag" \in InitState /\ "pinch" \in InitState BY DEF InitState
  <2> QED BY <1>1, <1>8, <2>1
<1> QED BY <1>9, <1>10, <1>11

\* GestureHandler._hasDetectedGesture: a gesture is alone, and a tap over.
LEMMA DetectedIs ==
    ASSUME NEW t
    PROVE  /\ ~Detected({}, t) /\ ~Detected(Drags, t) /\ ~Detected(TwoFingers, t) /\ ~Detected(InitState, t)
           /\ \A g \in Taps : Detected({g}, t) <=> Active(t) = {}
           /\ \A g : g \notin Taps => Detected({g}, t)
<1>1. \A x : Cardinality({x}) = 1 BY FS_Singleton
<1>2. Cardinality({}) # 1 BY FS_EmptySet
<1>3. \A g : {g} \subseteq Taps <=> g \in Taps OBVIOUS
<1> QED BY <1>1, <1>2, <1>3, SeveralAreNotOne DEF Detected

LEMMA Names ==
    /\ "onetap" \in Taps /\ "twotap" \in Taps /\ "threetap" \in Taps
    /\ "drag" \notin Taps /\ "longpress" \notin Taps /\ "twodrag" \notin Taps /\ "pinch" \notin Taps
BY DEF Taps

LEMMA TrackedLength ==
    ASSUME NEW S, NEW q \in Seq(S)
    PROVE  /\ Len(q) \in Nat /\ (q = <<>> <=> Len(q) = 0)
           /\ q = <<>> \/ Len(q) = 1 \/ Len(q) = 2 \/ Len(q) >= 3
<1>1. Len(q) \in Nat /\ (q = <<>> <=> Len(q) = 0) OBVIOUS
<1>2. \A n \in Nat : n = 0 \/ n = 1 \/ n = 2 \/ n >= 3 OBVIOUS
<1> QED BY <1>1, <1>2

\* The active touches, when one is added, moved or lifted.
LEMMA ActiveAppend ==
    ASSUME NEW q \in Seq(Touch), NEW id \in Fingers,
           NEW e, e = [id |-> id, active |-> TRUE, far |-> FALSE]
    PROVE  /\ Append(q, e) \in Seq(Touch) /\ Len(Append(q, e)) = Len(q) + 1
           /\ Active(Append(q, e)) = Active(q) \cup {id}
           /\ DOMAIN q = 1 .. Len(q) /\ DOMAIN Append(q, e) = 1 .. Len(q) + 1 /\ Len(q) \in Nat
           /\ \A i \in 1 .. Len(q) : Append(q, e)[i] = q[i]
           /\ Append(q, e)[Len(q) + 1] = e
<1>1. e \in Touch /\ e.active = TRUE /\ e.id = id BY DEF Touch
<1> HIDE DEF Touch
<1>2. /\ Append(q, e) \in Seq(Touch) /\ Len(Append(q, e)) = Len(q) + 1
      /\ DOMAIN q = 1 .. Len(q) /\ DOMAIN Append(q, e) = 1 .. Len(q) + 1 /\ Len(q) \in Nat
      /\ \A i \in 1 .. Len(q) : Append(q, e)[i] = q[i]
      /\ Append(q, e)[Len(q) + 1] = e
  BY <1>1
<1>3. ASSUME NEW x PROVE x \in Active(Append(q, e)) <=> x \in Active(q) \cup {id}
  BY <1>1, <1>2 DEF Active
<1> QED BY <1>2, <1>3

TouchMoved(q, i, far) == [q EXCEPT ![i].far = far]
TouchLifted(q, i) == [q EXCEPT ![i].active = FALSE]

LEMMA ActiveMoved ==
    ASSUME NEW q \in Seq(Touch), NEW i \in DOMAIN q, NEW far \in BOOLEAN,
           NEW r, r = TouchMoved(q, i, far)
    PROVE  /\ r \in Seq(Touch) /\ Len(r) = Len(q) /\ DOMAIN r = DOMAIN q /\ DOMAIN q = 1 .. Len(q)
           /\ \A j \in DOMAIN q : r[j].id = q[j].id /\ r[j].active = q[j].active
           /\ Active(r) = Active(q)
<1>1. DOMAIN q = 1 .. Len(q) /\ Len(q) \in Nat /\ \A j \in DOMAIN q : q[j] \in Touch OBVIOUS
<1>2. r = [j \in DOMAIN q |-> IF j = i THEN [q[j] EXCEPT !.far = far] ELSE q[j]]
  BY DEF TouchMoved
<1>3. ASSUME NEW j \in DOMAIN q
      PROVE  r[j] \in Touch /\ r[j].id = q[j].id /\ r[j].active = q[j].active
  BY <1>1, <1>2 DEF Touch
<1>4. r \in Seq(Touch) /\ Len(r) = Len(q) /\ DOMAIN r = DOMAIN q BY <1>1, <1>2, <1>3
<1> QED BY <1>1, <1>3, <1>4 DEF Active

LEMMA ActiveLifted ==
    ASSUME NEW q \in Seq(Touch), NEW i \in DOMAIN q, q[i].active,
           \A j, k \in DOMAIN q : q[j].active /\ q[k].active /\ q[j].id = q[k].id => j = k,
           NEW r, r = TouchLifted(q, i)
    PROVE  /\ r \in Seq(Touch) /\ Len(r) = Len(q) /\ DOMAIN r = DOMAIN q /\ DOMAIN q = 1 .. Len(q)
           /\ \A j \in DOMAIN q : r[j].id = q[j].id /\ (r[j].active <=> q[j].active /\ j # i)
           /\ Active(r) = Active(q) \ {q[i].id}
<1>1. DOMAIN q = 1 .. Len(q) /\ Len(q) \in Nat /\ \A j \in DOMAIN q : q[j] \in Touch OBVIOUS
<1>2. r = [j \in DOMAIN q |-> IF j = i THEN [q[j] EXCEPT !.active = FALSE] ELSE q[j]]
  BY DEF TouchLifted
<1>3. ASSUME NEW j \in DOMAIN q PROVE r[j] \in Touch /\ r[j].id = q[j].id
  <2>1. \A t \in Touch :
           [t EXCEPT !.active = FALSE] \in Touch /\ [t EXCEPT !.active = FALSE].id = t.id
    BY DEF Touch
  <2>2. q[j] \in Touch BY <1>1
  <2>3. r[j] = q[j] \/ r[j] = [q[j] EXCEPT !.active = FALSE] BY ONLY <1>2, j \in DOMAIN q
  <2> QED BY ONLY <2>1, <2>2, <2>3
<1>4. r[i].active = FALSE /\ \A j \in DOMAIN q : j # i => r[j] = q[j]
  <2>1. r[i] = [q[i] EXCEPT !.active = FALSE] BY <1>2
  <2>2. \A t \in Touch : [t EXCEPT !.active = FALSE].active = FALSE BY DEF Touch
  <2>3. r[i].active = FALSE BY ONLY <1>1, <2>1, <2>2, i \in DOMAIN q
  <2> QED BY <1>2, <2>3
<1>5. r \in Seq(Touch) /\ Len(r) = Len(q) /\ DOMAIN r = DOMAIN q
  <2>1. r \in [1 .. Len(q) -> Touch] BY <1>1, <1>2, <1>3
  <2> QED BY <1>1, <2>1
<1>6. \A j \in DOMAIN q : r[j].active <=> q[j].active /\ j # i BY <1>4
<1>7. ASSUME NEW x PROVE x \in Active(r) <=> x \in Active(q) \ {q[i].id}
  <2>1. ASSUME x \in Active(r) PROVE x \in Active(q) \ {q[i].id}
    <3>1. PICK j \in DOMAIN r : r[j].active /\ x = r[j].id BY <2>1 DEF Active
    <3>2. j \in DOMAIN q /\ q[j].active /\ j # i /\ x = q[j].id BY <1>3, <1>5, <1>6, <3>1
    <3> QED BY <3>2 DEF Active
  <2>2. ASSUME x \in Active(q) \ {q[i].id} PROVE x \in Active(r)
    <3>1. PICK j \in DOMAIN q : q[j].active /\ x = q[j].id BY <2>2 DEF Active
    <3>2. j # i BY <2>2, <3>1
    <3>3. j \in DOMAIN r /\ r[j].active /\ x = r[j].id BY <1>3, <1>5, <1>6, <3>1, <3>2
    <3> QED BY <3>3 DEF Active
  <2> QED BY <2>1, <2>2
<1> QED BY <1>1, <1>3, <1>5, <1>6, <1>7

-----------------------------------------------------------------------------
\* The handlers.

\* A gesture that has been detected is of touches that are there, and has no
\* timer left.
LEMMA DetectedMeans ==
    ASSUME GesturesInv
    PROVE  /\ Detected(state, tracked) =>
                 tracked # <<>> /\ ~longpress /\ ~twoTouch /\ state \notin {{}, Drags, TwoFingers, InitState}
           /\ tracked # <<>> /\ ~Detected(state, tracked) =>
                 state \in {{}, Drags, TwoFingers, InitState, {"twotap"}, {"threetap"}}
<1>1. /\ ~Detected({}, tracked) /\ ~Detected(Drags, tracked) /\ ~Detected(TwoFingers, tracked)
      /\ ~Detected(InitState, tracked)
  BY DetectedIs
<1>2. Detected({"drag"}, tracked) /\ Detected({"longpress"}, tracked)
      /\ Detected({"twodrag"}, tracked) /\ Detected({"pinch"}, tracked)
  BY DetectedIs, Names
<1>3. tracked = <<>> => state \in {{}, InitState} BY DEF GesturesInv, Reached
<1>4. Detected(state, tracked) =>
          tracked # <<>> /\ ~longpress /\ ~twoTouch /\ state \notin {{}, Drags, TwoFingers, InitState}
  BY <1>1, <1>3 DEF GesturesInv, TimersOK
<1>5. tracked # <<>> => Len(tracked) = 1 \/ Len(tracked) = 2 \/ Len(tracked) >= 3
  <2>1. tracked \in Seq(Touch) BY DEF GesturesInv, TouchesOK
  <2> QED BY <2>1, TrackedLength
<1>6. tracked # <<>> =>
          state \in {{}, Drags, TwoFingers, InitState, {"twotap"}, {"threetap"}, {"drag"}, {"longpress"},
                     {"twodrag"}, {"pinch"}}
  <2> SUFFICES ASSUME tracked # <<>>
               PROVE  state \in {{}, Drags, TwoFingers, InitState, {"twotap"}, {"threetap"}, {"drag"},
                                 {"longpress"}, {"twodrag"}, {"pinch"}}
    OBVIOUS
  <2>1. CASE waitingRelease BY <2>1 DEF GesturesInv, Reached, AfterRelease
  <2>2. CASE ~waitingRelease BY <1>5, <2>2 DEF GesturesInv, Reached
  <2> QED BY <2>1, <2>2
<1> QED BY <1>2, <1>4, <1>6

LEMMA StatesMinus ==
    /\ InitState \ {"onetap", "drag", "longpress"} = TwoFingers
    /\ TwoFingers \ {"twotap", "twodrag", "pinch"} = {"threetap"}
    /\ Drags \ {"twotap", "twodrag", "pinch"} = {}
    /\ TwoFingers # {} /\ Drags # {} /\ InitState # {}
BY DEF InitState, Taps, TwoFingers, Drags

\* Nothing but the ignored touches changes, by one that is new.
LEMMA IgnoredKeeps ==
    ASSUME GesturesInv, NEW id \in Fingers, id \notin fingers, fingers' = fingers \cup {id},
           ignoring' = ignoring \cup {id}, UNCHANGED <<tracked, longpress, waitingRelease, twoTouch, threw>>,
           \/ state' = state /\ (Detected(state, tracked) \/ state = {})
           \/ state' = {}
    PROVE  GesturesInv'
<1>1. TouchesOK' BY DEF GesturesInv, TouchesOK
<1>2. Reached'
  <2>1. tracked = <<>> => state' = {} BY DetectedMeans
  <2>2. CASE state' = state BY <2>1, <2>2 DEF GesturesInv, Reached
  <2>3. CASE state' = {} BY <2>3 DEF GesturesInv, Reached, AfterRelease
  <2> QED BY <2>2, <2>3
<1>3. TimersOK' BY DEF GesturesInv, TimersOK
<1> QED BY <1>1, <1>2, <1>3 DEF GesturesInv

LEMMA TrackedKeeps ==
    ASSUME GesturesInv, NEW id \in Fingers, id \notin fingers, fingers' = fingers \cup {id},
           ~Detected(state, tracked), state # {}, ~waitingRelease,
           tracked' = Append(tracked, [id |-> id, active |-> TRUE, far |-> FALSE]),
           UNCHANGED <<ignoring, waitingRelease, twoTouch, threw>>,
           NEW n, n = Len(tracked) + 1,
           state' = CASE n = 1 -> state
                      [] n = 2 -> state \ {"onetap", "drag", "longpress"}
                      [] n = 3 -> state \ {"twotap", "twodrag", "pinch"}
                      [] OTHER -> {},
           longpress' = (n = 1 \/ (longpress /\ n > 2))
    PROVE  GesturesInv'
<1>0. tracked \in Seq(Touch) /\ Len(tracked) \in Nat BY DEF GesturesInv, TouchesOK
<1>1. /\ tracked' \in Seq(Touch) /\ Len(tracked') = Len(tracked) + 1
      /\ Active(tracked') = Active(tracked) \cup {id}
      /\ DOMAIN tracked = 1 .. Len(tracked) /\ DOMAIN tracked' = 1 .. Len(tracked) + 1
      /\ \A i \in 1 .. Len(tracked) : tracked'[i] = tracked[i]
      /\ tracked'[Len(tracked) + 1] = [id |-> id, active |-> TRUE, far |-> FALSE]
  BY <1>0, ActiveAppend
<1>2. TouchesOK'
  <2>1. tracked' # <<>> /\ Active(tracked') # {}
    <3>1. Len(tracked') # 0 BY <1>0, <1>1
    <3> QED BY <1>1, <3>1, TrackedLength
  <2>2. \A i \in DOMAIN tracked' : tracked'[i].active
    BY <1>0, <1>1 DEF GesturesInv, TouchesOK
  <2>3. ASSUME NEW i \in DOMAIN tracked', NEW j \in DOMAIN tracked', tracked'[i].id = tracked'[j].id
        PROVE  i = j
    <3>1. \A k \in 1 .. Len(tracked) : tracked[k].id \in Active(tracked) /\ tracked[k].id # id
      BY <1>1 DEF GesturesInv, TouchesOK, Active
    <3>2. CASE i \in 1 .. Len(tracked) /\ j \in 1 .. Len(tracked)
      BY <1>1, <2>3, <3>2 DEF GesturesInv, TouchesOK
    <3>3. CASE i = Len(tracked) + 1 /\ j \in 1 .. Len(tracked) BY <1>1, <2>3, <3>1, <3>3
    <3>4. CASE j = Len(tracked) + 1 /\ i \in 1 .. Len(tracked) BY <1>1, <2>3, <3>1, <3>4
    <3> QED BY <1>0, <1>1, <3>2, <3>3, <3>4
  <2>4. Active(tracked') \cap ignoring' = {} /\ Active(tracked') \cup ignoring' = fingers'
    BY <1>1 DEF GesturesInv, TouchesOK
  <2> QED BY <1>1, <2>1, <2>2, <2>3, <2>4 DEF TouchesOK
<1>3. Reached' /\ (state' \in {InitState, {}} \/ n # 1) /\ (twoTouch => state' = {})
  <2>1. CASE tracked = <<>>
    <3>1. n = 1 /\ Len(tracked') = 1 BY <1>1, <2>1
    <3>2. state' = InitState BY <2>1, <3>1 DEF GesturesInv, Reached
    <3>3. ~twoTouch BY <2>1 DEF GesturesInv, TimersOK
    <3> QED BY <3>1, <3>2, <3>3 DEF Reached
  <2>2. CASE Len(tracked) = 1
    <3>1. n = 2 /\ Len(tracked') = 2 BY <1>1, <2>2
    <3>2. state = InitState
      <4>1. state \in {InitState, {}, {"drag"}, {"longpress"}} BY <2>2 DEF GesturesInv, Reached
      <4>2. Detected({"drag"}, tracked) /\ Detected({"longpress"}, tracked) BY DetectedIs, Names
      <4> QED BY <4>1, <4>2
    <3>3. state' = TwoFingers BY <3>1, <3>2, StatesMinus
    <3>4. ~twoTouch BY <2>2 DEF GesturesInv, TimersOK
    <3> QED BY <3>1, <3>3, <3>4 DEF Reached
  <2>3. CASE Len(tracked) = 2
    <3>1. n = 3 /\ Len(tracked') = 3 BY <1>1, <2>3
    <3>2. state \in {TwoFingers, Drags}
      <4>1. state \in {TwoFingers, Drags, {"twodrag"}, {"pinch"}, {}} BY <2>3 DEF GesturesInv, Reached
      <4>2. Detected({"twodrag"}, tracked) /\ Detected({"pinch"}, tracked) BY DetectedIs, Names
      <4> QED BY <4>1, <4>2
    <3>3. state' = state \ {"twotap", "twodrag", "pinch"} BY <3>1
    <3>4. state' \in {{"threetap"}, {}} BY <3>2, <3>3, StatesMinus
    <3>5. twoTouch => state = Drags BY DEF GesturesInv, TimersOK
    <3>6. twoTouch => state' = {} BY <3>3, <3>5, StatesMinus
    <3> QED BY <3>1, <3>4, <3>6 DEF Reached
  <2>4. CASE Len(tracked) >= 3
    <3>1. n >= 4 /\ Len(tracked') >= 3 BY <1>0, <1>1, <2>4
    <3>2. state' = {} BY <1>0, <3>1
    <3> QED BY <1>0, <1>1, <3>1, <3>2 DEF Reached
  <2>5. tracked = <<>> \/ Len(tracked) = 1 \/ Len(tracked) = 2 \/ Len(tracked) >= 3
    BY <1>0, TrackedLength
  <2> QED BY <2>1, <2>2, <2>3, <2>4, <2>5
<1>4. TimersOK'
  <2>1. twoTouch' => Len(tracked') >= 2 /\ state' \in {Drags, {}}
    BY <1>0, <1>1, <1>3 DEF GesturesInv, TimersOK
  <2>2. longpress' => n = 1
    BY <1>0 DEF GesturesInv, TimersOK
  <2>3. longpress' => Len(tracked') = 1 /\ state' \in {InitState, {}} BY <1>1, <1>3, <2>2
  <2>4. longpress' \in BOOLEAN /\ twoTouch' \in BOOLEAN /\ threw' = FALSE BY DEF GesturesInv, TimersOK
  <2> QED BY <2>1, <2>3, <2>4 DEF TimersOK
<1> QED BY <1>2, <1>3, <1>4 DEF GesturesInv

LEMMA TouchStartKeeps ==
    ASSUME GesturesInv, NEW id \in Fingers, TouchStart(id) PROVE GesturesInv'
<1>1. id \notin fingers /\ fingers' = fingers \cup {id} /\ UNCHANGED <<waitingRelease, twoTouch, threw>>
  BY DEF TouchStart
<1>2. CASE Detected(state, tracked) \/ state = {}
  <2>1. ignoring' = ignoring \cup {id} /\ UNCHANGED <<state, tracked, longpress>>
    BY <1>2 DEF TouchStart
  <2> QED BY <1>1, <1>2, <2>1, IgnoredKeeps
<1>3. CASE ~Detected(state, tracked) /\ state # {}
  <2>1. PICK late250 \in BOOLEAN :
          IF (tracked # <<>> /\ late250) \/ waitingRelease
          THEN /\ state' = {} /\ ignoring' = ignoring \cup {id}
               /\ UNCHANGED <<tracked, longpress>>
          ELSE /\ tracked' = Append(tracked, [id |-> id, active |-> TRUE, far |-> FALSE])
               /\ state' = CASE Len(tracked) + 1 = 1 -> state
                             [] Len(tracked) + 1 = 2 -> state \ {"onetap", "drag", "longpress"}
                             [] Len(tracked) + 1 = 3 -> state \ {"twotap", "twodrag", "pinch"}
                             [] OTHER -> {}
               /\ longpress' = (Len(tracked) + 1 = 1 \/ (longpress /\ Len(tracked) + 1 > 2))
               /\ UNCHANGED ignoring
    BY <1>3 DEF TouchStart
  <2>2. CASE (tracked # <<>> /\ late250) \/ waitingRelease
    BY <1>1, <2>1, <2>2, IgnoredKeeps
  <2>3. CASE ~((tracked # <<>> /\ late250) \/ waitingRelease)
    BY <1>1, <1>3, <2>1, <2>3, TrackedKeeps
  <2> QED BY <2>2, <2>3
<1> QED BY <1>2, <1>3

\* What an undetected gesture may still become.
LEMMA Undetected ==
    ASSUME GesturesInv, tracked # <<>>, ~Detected(state, tracked)
    PROVE  /\ waitingRelease => Len(tracked) >= 2 /\ state \in {{}, {"twotap"}, {"threetap"}}
           /\ ~waitingRelease /\ Len(tracked) = 1 => state \in {InitState, {}}
           /\ ~waitingRelease /\ Len(tracked) = 2 => state \in {TwoFingers, Drags, {}}
           /\ ~waitingRelease /\ Len(tracked) >= 3 => state \in {{"threetap"}, {}}
<1>1. Detected({"drag"}, tracked) /\ Detected({"longpress"}, tracked)
      /\ Detected({"twodrag"}, tracked) /\ Detected({"pinch"}, tracked)
  BY DetectedIs, Names
<1> QED BY <1>1 DEF GesturesInv, Reached, AfterRelease

LEMMA StatesMoved ==
    LET gone(more) == Taps \cup {"longpress"} \cup more
    IN  /\ InitState \ gone({} \cup {"twodrag", "pinch"}) = {"drag"}
        /\ TwoFingers \ gone({"drag"} \cup {}) = Drags /\ Drags \ gone({"drag"} \cup {}) = Drags
        /\ {"twotap"} \ Taps = {} /\ {"threetap"} \ Taps = {}
        /\ Drags \ {"pinch"} = {"twodrag"} /\ Drags \ {"twodrag"} = {"pinch"}
BY DEF InitState, Taps, TwoFingers, Drags

LEMMA TouchMoveDetectedKeeps ==
    ASSUME GesturesInv, NEW i \in DOMAIN tracked, TouchMoveDetected(i) PROVE GesturesInv'
<1>1. UNCHANGED <<state, tracked, ignoring, waitingRelease, fingers, threw, longpress, twoTouch>>
  BY DEF TouchMoveDetected, SameTouches
<1> QED BY <1>1 DEF GesturesInv, TouchesOK, Reached, TimersOK, Active

LEMMA TouchMoveKeeps ==
    ASSUME GesturesInv, NEW i \in DOMAIN tracked, NEW far \in BOOLEAN, NEW sameWay \in BOOLEAN,
           TouchMove(i, far, sameWay)
    PROVE  GesturesInv'
<1> DEFINE n     == Len(tracked)
           moved == state \ (Taps \cup {"longpress"} \cup (IF n = 1 THEN {} ELSE {"drag"})
                                    \cup (IF n = 2 THEN {} ELSE {"twodrag", "pinch"}))
           both  == n = 2 /\ tracked[3 - i].far
           left  == IF both THEN moved \ {IF sameWay THEN "pinch" ELSE "twodrag"} ELSE moved
<1>0. tracked \in Seq(Touch) BY DEF GesturesInv, TouchesOK
<1>1. /\ tracked' \in Seq(Touch) /\ Len(tracked') = Len(tracked) /\ DOMAIN tracked' = DOMAIN tracked
      /\ DOMAIN tracked = 1 .. Len(tracked)
      /\ \A j \in DOMAIN tracked : tracked'[j].id = tracked[j].id /\ tracked'[j].active = tracked[j].active
      /\ Active(tracked') = Active(tracked)
  <2>1. tracked' = TouchMoved(tracked, i, far) BY DEF TouchMove, TouchMoved
  <2>2. i \in DOMAIN tracked /\ far \in BOOLEAN OBVIOUS
  <2> QED BY ONLY <1>0, <2>1, <2>2, ActiveMoved, SMTT(60)
<1>2. UNCHANGED <<ignoring, waitingRelease, fingers, threw>> BY DEF TouchMove
<1>3. \/ UNCHANGED <<state, longpress, twoTouch>>
      \/ /\ ~Detected(state, tracked) /\ state' = left /\ longpress' = FALSE
         /\ twoTouch' = IF n # 2 THEN twoTouch ELSE ~both /\ (twoTouch \/ ~twoTouchId)
  BY DEF TouchMove
<1>4. tracked # <<>> /\ tracked' # <<>> BY <1>0, <1>1, TrackedLength
<1>5. TouchesOK' BY <1>1, <1>2, <1>4 DEF GesturesInv, TouchesOK
<1>6. CASE UNCHANGED <<state, longpress, twoTouch>>
  <2>1. Reached' BY <1>1, <1>2, <1>4, <1>6 DEF GesturesInv, Reached
  <2>2. TimersOK' BY <1>1, <1>2, <1>6 DEF GesturesInv, TimersOK
  <2> QED BY <1>5, <2>1, <2>2 DEF GesturesInv
<1>7. CASE /\ ~Detected(state, tracked) /\ state' = left /\ longpress' = FALSE
           /\ twoTouch' = IF n # 2 THEN twoTouch ELSE ~both /\ (twoTouch \/ ~twoTouchId)
  <2>0. /\ waitingRelease => n >= 2 /\ state \in {{}, {"twotap"}, {"threetap"}}
        /\ ~waitingRelease /\ n = 1 => state \in {InitState, {}}
        /\ ~waitingRelease /\ n = 2 => state \in {TwoFingers, Drags, {}}
        /\ ~waitingRelease /\ n >= 3 => state \in {{"threetap"}, {}}
    BY <1>4, <1>7, Undetected
  <2>1. left \subseteq moved OBVIOUS
  <2>2. waitingRelease => state' = {}
    <3> SUFFICES ASSUME waitingRelease PROVE state' = {} OBVIOUS
    <3>1. state \ Taps = {} BY <2>0, StatesMoved
    <3> QED BY <1>7, <2>1, <3>1
  <2>3. ~waitingRelease /\ n = 1 => state' \in {{"drag"}, {}}
    <3> SUFFICES ASSUME ~waitingRelease, n = 1 PROVE state' \in {{"drag"}, {}} OBVIOUS
    <3>1. moved \in {{"drag"}, {}} BY <2>0, StatesMoved
    <3> QED BY <1>7, <3>1
  <2>4. ~waitingRelease /\ n = 2 =>
            state' \in {Drags, {"twodrag"}, {"pinch"}, {}} /\ (~both => state' \in {Drags, {}})
    <3> SUFFICES ASSUME ~waitingRelease, n = 2
                 PROVE  state' \in {Drags, {"twodrag"}, {"pinch"}, {}} /\ (~both => state' \in {Drags, {}})
      OBVIOUS
    <3>1. moved \in {Drags, {}} BY <2>0, StatesMoved
    <3> HIDE DEF moved
    <3>2. CASE both BY <1>7, <3>1, <3>2, StatesMoved
    <3>3. CASE ~both BY <1>7, <3>1, <3>3
    <3> QED BY <3>2, <3>3
  <2>5. ~waitingRelease /\ n >= 3 => state' = {}
    <3> SUFFICES ASSUME ~waitingRelease, n >= 3 PROVE state' = {} OBVIOUS
    <3>1. state \ Taps = {} BY <2>0, StatesMoved
    <3> QED BY <1>7, <2>1, <3>1
  <2> HIDE DEF left, moved
  <2>6. Reached'
    <3>1. waitingRelease' => Len(tracked') >= 2 /\ state' \in AfterRelease
      BY <1>1, <1>2, <2>0, <2>2 DEF AfterRelease
    <3> QED BY <1>1, <1>2, <1>4, <2>3, <2>4, <2>5, <3>1 DEF Reached
  <2>7. TimersOK'
    <3>1. n \in Nat BY <1>0
    <3>2. twoTouch' \in BOOLEAN BY <1>7 DEF GesturesInv, TimersOK
    <3>3. twoTouch' => n >= 2
      <4>1. CASE n # 2 BY <1>7, <4>1 DEF GesturesInv, TimersOK
      <4>2. CASE n = 2 BY <4>2
      <4> QED BY <4>1, <4>2
    <3>4. twoTouch' => state' \in {Drags, {}}
      <4>1. CASE n = 2 BY <1>7, <2>2, <2>4, <4>1
      <4>2. CASE n # 2 BY <1>1, <2>2, <2>5, <3>1, <3>3, <4>2
      <4> QED BY <4>1, <4>2
    <3> QED BY <1>1, <1>2, <1>7, <3>2, <3>3, <3>4 DEF GesturesInv, TimersOK
  <2> QED BY <1>5, <2>6, <2>7 DEF GesturesInv
<1> QED BY <1>3, <1>6, <1>7

LEMMA TouchEndIgnoredKeeps ==
    ASSUME GesturesInv, NEW id \in Fingers, TouchEndIgnored(id) PROVE GesturesInv'
<1>1. /\ id \in ignoring /\ fingers' = fingers \ {id} /\ ignoring' = ignoring \ {id}
      /\ state' = (IF ignoring' = {} /\ tracked = <<>> THEN InitState ELSE state)
      /\ waitingRelease' = (waitingRelease /\ ~(ignoring' = {} /\ tracked = <<>>))
      /\ UNCHANGED <<tracked, longpress, twoTouch, threw>>
  BY DEF TouchEndIgnored
<1>2. TouchesOK'
  <2>1. Active(tracked') = Active(tracked) BY <1>1
  <2>2. /\ Active(tracked) \cap ignoring = {} /\ Active(tracked) \cup ignoring = fingers
        /\ tracked = <<>> /\ ignoring = {} => ~waitingRelease
        /\ waitingRelease \/ \A i \in DOMAIN tracked : tracked[i].active
    BY DEF GesturesInv, TouchesOK
  <2>3. Active(tracked') \cap ignoring' = {} /\ Active(tracked') \cup ignoring' = fingers'
    BY <1>1, <2>1, <2>2
  <2>4. tracked' = <<>> /\ ignoring' = {} => ~waitingRelease' BY <1>1
  <2>5. waitingRelease' \/ \A i \in DOMAIN tracked' : tracked'[i].active
    <3>1. CASE tracked = <<>> BY <1>1, <3>1
    <3>2. CASE tracked # <<>> BY <1>1, <2>2, <3>2
    <3> QED BY <3>1, <3>2
  <2> QED BY <1>1, <2>1, <2>3, <2>4, <2>5 DEF GesturesInv, TouchesOK
<1>3. CASE tracked = <<>>
  <2>1. state = {} /\ ~longpress /\ ~twoTouch
    BY <1>1, <1>3 DEF GesturesInv, Reached, TimersOK
  <2>2. Len(tracked') = 0 BY <1>1, <1>3
  <2>3. Reached' BY <1>1, <1>3, <2>1, <2>2 DEF Reached
  <2>4. TimersOK' BY <1>1, <2>1 DEF GesturesInv, TimersOK
  <2> QED BY <1>2, <2>3, <2>4 DEF GesturesInv
<1>4. CASE tracked # <<>>
  <2>1. state' = state /\ (waitingRelease' <=> waitingRelease) BY <1>1, <1>4
  <2>2. Reached' BY <1>1, <1>4, <2>1 DEF GesturesInv, Reached
  <2>3. TimersOK' BY <1>1, <2>1 DEF GesturesInv, TimersOK
  <2> QED BY <1>2, <2>2, <2>3 DEF GesturesInv
<1> QED BY <1>3, <1>4

\* The touches that are left are ignored, and with the last one it starts over.
LEMMA OverKeeps ==
    ASSUME GesturesInv, NEW id \in Active(tracked), fingers' = fingers \ {id},
           ignoring' = (ignoring \cup Active(tracked)) \ {id}, tracked' = <<>>,
           state' = IF ignoring' = {} THEN InitState ELSE {},
           ignoring' = {} => ~waitingRelease', waitingRelease' \in BOOLEAN,
           longpress' = FALSE, twoTouch' = FALSE, threw' = threw
    PROVE  GesturesInv'
<1>1. Active(tracked') = {} BY DEF Active
<1>2. TouchesOK'
  <2>1. Active(tracked') \cap ignoring' = {} /\ Active(tracked') \cup ignoring' = fingers'
    BY <1>1 DEF GesturesInv, TouchesOK
  <2>2. tracked' \in Seq(Touch) /\ DOMAIN tracked' = {} OBVIOUS
  <2> QED BY <2>1, <2>2 DEF TouchesOK
<1>3. Len(tracked') = 0 OBVIOUS
<1>4. Reached' BY <1>3 DEF Reached
<1>5. TimersOK' BY DEF GesturesInv, TimersOK
<1> QED BY <1>2, <1>4, <1>5 DEF GesturesInv

LEMMA TouchEndDetectedKeeps ==
    ASSUME GesturesInv, NEW i \in DOMAIN tracked, NEW slow \in BOOLEAN, TouchEndDetected(i, slow)
    PROVE  GesturesInv'
<1>1. /\ tracked[i].active /\ Detected(state, tracked) /\ fingers' = fingers \ {tracked[i].id}
      /\ ignoring' = (ignoring \cup Active(tracked)) \ {tracked[i].id} /\ tracked' = <<>>
      /\ state' = IF ignoring' = {} THEN InitState ELSE {}
      /\ waitingRelease' = (waitingRelease /\ ignoring' # {})
      /\ UNCHANGED <<longpress, twoTouch, threw>>
  BY DEF TouchEndDetected, AllOver
<1>2. longpress' = FALSE /\ twoTouch' = FALSE
  BY <1>1, DetectedMeans DEF GesturesInv, TimersOK
<1>3. tracked[i].id \in Active(tracked) BY <1>1 DEF Active
<1>4. waitingRelease' \in BOOLEAN /\ (ignoring' = {} => ~waitingRelease') BY <1>1
<1> QED BY <1>1, <1>2, <1>3, <1>4, OverKeeps

\* What a tap may be when one of its touches is lifted: one tap, by as many
\* fingers as there are.
LEMMA ReleasedIs ==
    ASSUME GesturesInv, tracked # <<>>, ~Detected(state, tracked)
    PROVE  \/ Released \in {{}, {"twotap"}, {"threetap"}} /\ Len(tracked) >= 2
           \/ Released \in {{}, {"onetap"}} /\ Len(tracked) = 1 /\ ~waitingRelease
<1> DEFINE given == IF twoTouchId THEN {} ELSE state
           still == given \ {"drag", "longpress", "twodrag", "pinch"}
<1>0. /\ Released = IF waitingRelease THEN still
                    ELSE CASE Len(tracked) = 1 -> still \ {"twotap", "threetap"}
                           [] Len(tracked) = 2 -> still \ {"onetap", "threetap"}
                           [] OTHER -> still
      /\ given \in {{}, state}
  BY DEF Released
<1>1. tracked \in Seq(Touch) BY DEF GesturesInv, TouchesOK
<1>2. Len(tracked) = 1 \/ Len(tracked) = 2 \/ Len(tracked) >= 3 BY <1>1, TrackedLength
<1>3. CASE waitingRelease
  <2>1. Len(tracked) >= 2 /\ given \in {{}, {"twotap"}, {"threetap"}} BY <1>0, <1>3, Undetected
  <2>2. still \in {{}, {"twotap"}, {"threetap"}} BY <2>1
  <2> QED BY <1>0, <1>3, <2>1, <2>2
<1>4. CASE ~waitingRelease /\ Len(tracked) = 1
  <2>1. given \in {InitState, {}} BY <1>0, <1>4, Undetected
  <2>2. still \ {"twotap", "threetap"} \in {{}, {"onetap"}} BY <2>1 DEF InitState, Taps
  <2> QED BY <1>0, <1>4, <2>2
<1>5. CASE ~waitingRelease /\ Len(tracked) = 2
  <2>1. given \in {TwoFingers, Drags, {}} BY <1>0, <1>5, Undetected
  <2>2. still \ {"onetap", "threetap"} \in {{}, {"twotap"}} BY <2>1 DEF TwoFingers, Drags
  <2> QED BY <1>0, <1>5, <2>2
<1>6. CASE ~waitingRelease /\ Len(tracked) >= 3
  <2>1. given \in {{"threetap"}, {}} BY <1>0, <1>6, Undetected
  <2>2. still \in {{}, {"threetap"}} BY <2>1
  <2>3. \A n \in Nat : n >= 3 => n # 1 /\ n # 2 /\ n >= 2 OBVIOUS
  <2>4. Len(tracked) # 1 /\ Len(tracked) # 2 /\ Len(tracked) >= 2 BY <1>1, <1>6, <2>3, TrackedLength
  <2> QED BY <1>0, <1>6, <2>2, <2>4
<1> QED BY <1>2, <1>3, <1>4, <1>5, <1>6

LEMMA TouchEndKeeps ==
    ASSUME GesturesInv, NEW i \in DOMAIN tracked, NEW slow \in BOOLEAN, TouchEnd(i, slow)
    PROVE  GesturesInv'
<1> DEFINE left  == IF slow THEN {} ELSE Released
           after == [tracked EXCEPT ![i].active = FALSE]
<1>0. tracked \in Seq(Touch) /\ tracked # <<>> BY DEF GesturesInv, TouchesOK
<1>1. /\ tracked[i].active /\ ~Detected(state, tracked) /\ fingers' = fingers \ {tracked[i].id}
      /\ longpress' = FALSE /\ twoTouch' = FALSE /\ threw' = threw
      /\ IF left # {} /\ ~Detected(left, after)
         THEN state' = left /\ tracked' = after /\ waitingRelease' = TRUE /\ ignoring' = ignoring
         ELSE /\ ignoring' = (ignoring \cup Active(after)) \ {tracked[i].id}
              /\ tracked' = <<>>
              /\ state' = IF ignoring' = {} THEN InitState ELSE {}
              /\ waitingRelease' = (ignoring' # {})
  BY DEF TouchEnd
<1>2. /\ after \in Seq(Touch) /\ Len(after) = Len(tracked) /\ DOMAIN after = DOMAIN tracked
      /\ \A j \in DOMAIN tracked : after[j].id = tracked[j].id /\ (after[j].active <=> tracked[j].active /\ j # i)
      /\ Active(after) = Active(tracked) \ {tracked[i].id}
      /\ DOMAIN tracked = 1 .. Len(tracked)
  <2>1. \A j, k \in DOMAIN tracked :
            tracked[j].active /\ tracked[k].active /\ tracked[j].id = tracked[k].id => j = k
    BY DEF GesturesInv, TouchesOK
  <2>2. after = TouchLifted(tracked, i) BY DEF TouchLifted
  <2> HIDE DEF after
  <2> QED BY <1>0, <1>1, <2>1, <2>2, ActiveLifted
<1>3. \/ left \in {{}, {"twotap"}, {"threetap"}} /\ Len(tracked) >= 2
      \/ left \in {{}, {"onetap"}} /\ Len(tracked) = 1 /\ ~waitingRelease
  <2>1. \/ Released \in {{}, {"twotap"}, {"threetap"}} /\ Len(tracked) >= 2
        \/ Released \in {{}, {"onetap"}} /\ Len(tracked) = 1 /\ ~waitingRelease
    BY <1>0, <1>1, ReleasedIs
  <2> HIDE DEF Released
  <2> QED BY <2>1
<1>4. tracked[i].id \in Active(tracked) BY <1>1 DEF Active
<1> HIDE DEF left, after
<1>5. CASE left # {} /\ ~Detected(left, after)
  <2>1. Active(after) # {}
    BY <1>3, <1>5, DetectedIs, Names
  <2>2. Len(tracked) # 1
    <3> SUFFICES ASSUME Len(tracked) = 1 PROVE FALSE OBVIOUS
    <3>1. \A j \in DOMAIN tracked : j = i BY <1>2
    <3>2. \A j \in DOMAIN after : ~after[j].active BY <1>2, <3>1
    <3> QED BY <2>1, <3>2 DEF Active
  <2>3. left \in {{"twotap"}, {"threetap"}} /\ Len(tracked) >= 2 BY <1>3, <1>5, <2>2
  <2>4. TouchesOK'
    <3>1. tracked' = after /\ waitingRelease' /\ ignoring' = ignoring BY <1>1, <1>5
    <3>2. Active(tracked') \cap ignoring' = {} /\ Active(tracked') \cup ignoring' = fingers'
      BY <1>1, <1>2, <1>4, <3>1 DEF GesturesInv, TouchesOK
    <3>3. \A j, k \in DOMAIN tracked' :
              tracked'[j].active /\ tracked'[k].active /\ tracked'[j].id = tracked'[k].id => j = k
      BY <1>2, <3>1 DEF GesturesInv, TouchesOK
    <3>4. tracked' # <<>> BY <1>0, <1>2, <3>1
    <3> QED BY <1>2, <2>1, <3>1, <3>2, <3>3, <3>4 DEF TouchesOK
  <2>5. Reached'
    <3>1. tracked' # <<>> BY <1>0, <1>1, <1>2, <1>5
    <3> QED BY <1>1, <1>2, <1>5, <2>3, <3>1 DEF Reached, AfterRelease
  <2>6. TimersOK' BY <1>1 DEF GesturesInv, TimersOK
  <2> QED BY <2>4, <2>5, <2>6 DEF GesturesInv
<1>6. CASE ~(left # {} /\ ~Detected(left, after))
  <2>1. ignoring' = (ignoring \cup Active(tracked)) \ {tracked[i].id} BY <1>1, <1>2, <1>6
  <2>2. /\ tracked' = <<>> /\ state' = (IF ignoring' = {} THEN InitState ELSE {})
        /\ waitingRelease' \in BOOLEAN /\ (ignoring' = {} => ~waitingRelease')
    BY <1>1, <1>6
  <2> QED BY <1>1, <1>4, <2>1, <2>2, OverKeeps
<1> QED BY <1>5, <1>6

LEMMA TimeoutsKeep ==
    ASSUME GesturesInv, LongpressTimeout \/ TwoTouchTimeout PROVE GesturesInv'
<1>0. tracked \in Seq(Touch) BY DEF GesturesInv, TouchesOK
<1>1. UNCHANGED <<tracked, ignoring, waitingRelease, fingers>>
  BY DEF LongpressTimeout, TwoTouchTimeout, SameTouches
<1>2. TouchesOK' BY <1>1 DEF GesturesInv, TouchesOK
<1>3. CASE LongpressTimeout
  <2>1. longpress /\ longpress' = FALSE /\ twoTouch' = twoTouch BY <1>3 DEF LongpressTimeout
  <2>2. Len(tracked) = 1 /\ tracked # <<>> /\ state \in {InitState, {}} /\ ~twoTouch
    <3>1. Len(tracked) = 1 /\ state \in {InitState, {}} BY <2>1 DEF GesturesInv, TimersOK
    <3>2. ~twoTouch BY <3>1 DEF GesturesInv, TimersOK
    <3>3. tracked # <<>> BY <3>1
    <3> QED BY <3>1, <3>2, <3>3
  <2>3. ~Detected(state, tracked) BY <2>2, DetectedIs
  <2>4. state' = {"longpress"} /\ threw' = threw BY <1>3, <2>2, <2>3 DEF LongpressTimeout
  <2>5. ~waitingRelease BY <2>2 DEF GesturesInv, Reached
  <2>6. Reached' BY <1>1, <2>2, <2>4, <2>5 DEF Reached
  <2>7. TimersOK' BY <2>1, <2>2, <2>4 DEF GesturesInv, TimersOK
  <2> QED BY <1>2, <2>6, <2>7 DEF GesturesInv
<1>4. CASE TwoTouchTimeout
  <2>1. twoTouch /\ twoTouch' = FALSE /\ longpress' = longpress BY <1>4 DEF TwoTouchTimeout
  <2>2. Len(tracked) >= 2 /\ tracked # <<>> /\ ~longpress
    <3>1. Len(tracked) >= 2 BY <2>1 DEF GesturesInv, TimersOK
    <3>2. \A n \in Nat : n >= 2 => n # 0 /\ n # 1 OBVIOUS
    <3>3. Len(tracked) # 0 /\ Len(tracked) # 1 BY <1>0, <3>1, <3>2, TrackedLength
    <3>4. tracked # <<>> BY <3>3
    <3> QED BY <3>1, <3>3, <3>4 DEF GesturesInv, TimersOK
  <2>3. state' \in {{"pinch"}, {"twodrag"}} /\ threw' = threw BY <1>4, <2>2 DEF TwoTouchTimeout
  <2>4. Len(tracked') # 1 /\ Len(tracked') >= 2 /\ tracked' # <<>>
    <3>1. \A n \in Nat : n >= 2 => n # 1 OBVIOUS
    <3>2. Len(tracked) # 1 BY <1>0, <2>2, <3>1, TrackedLength
    <3> QED BY <1>1, <2>2, <3>2
  <2>5. Reached' BY <2>3, <2>4 DEF Reached, AfterRelease
  <2>6. TimersOK' BY <2>1, <2>2, <2>3 DEF GesturesInv, TimersOK
  <2> QED BY <1>2, <2>5, <2>6 DEF GesturesInv
<1> QED BY <1>3, <1>4

-----------------------------------------------------------------------------
LEMMA GesturesInitially == ASSUME Init PROVE GesturesInv
<1>1. tracked = <<>> /\ Active(tracked) = {} /\ Len(tracked) = 0 /\ tracked \in Seq(Touch)
  BY DEF Init, GesturesInit, Active
<1>2. TouchesOK BY <1>1 DEF Init, GesturesInit, TouchesOK
<1>3. Reached BY <1>1 DEF Init, GesturesInit, Reached
<1>4. TimersOK BY DEF Init, GesturesInit, TimersOK
<1> QED BY <1>2, <1>3, <1>4 DEF GesturesInv

LEMMA GesturesStep ==
    ASSUME GesturesInv, [Next]_vars PROVE GesturesInv'
<1>1. CASE UNCHANGED touching
  BY <1>1 DEF touching, GesturesInv, TouchesOK, Reached, TimersOK, Active
<1>2. CASE GesturesNext
  <2>1. CASE \E id \in Fingers : TouchStart(id) \/ TouchEndIgnored(id)
    BY <2>1, TouchStartKeeps, TouchEndIgnoredKeeps
  <2>2. CASE \E i \in DOMAIN tracked :
                \/ TouchMoveDetected(i) \/ \E far, sameWay \in BOOLEAN : TouchMove(i, far, sameWay)
                \/ \E slow \in BOOLEAN : TouchEndDetected(i, slow) \/ TouchEnd(i, slow)
    BY <2>2, TouchMoveDetectedKeeps, TouchMoveKeeps, TouchEndDetectedKeeps, TouchEndKeeps
  <2>3. CASE LongpressTimeout \/ TwoTouchTimeout BY <2>3, TimeoutsKeep
  <2> QED BY <1>2, <2>1, <2>2, <2>3 DEF GesturesNext
<1>3. UNCHANGED touching \/ GesturesNext
  BY DEF Next, vars, Page, Handshaking, UsesClipboard, Resizes, Types, Points, OtherInput, inputs
<1> QED BY <1>1, <1>2, <1>3

\* However many fingers come and go, in whatever order and around the timers:
\* when the last has left, the next one starts a new gesture, and no timer of
\* the recognizer (gesturehandler.js) fires for a gesture that it cannot be for,
\* where it would throw.
THEOREM GesturesStartOverAlways == Spec => []GesturesStartOver
<1>1. Init => GesturesInv BY GesturesInitially
<1>2. GesturesInv /\ [Next]_vars => GesturesInv' BY GesturesStep
<1>3. GesturesInv => GesturesStartOver
  <2> SUFFICES ASSUME GesturesInv PROVE GesturesStartOver OBVIOUS
  <2>1. fingers = {} => tracked = <<>> /\ ignoring = {} /\ ~waitingRelease
    BY DEF GesturesInv, TouchesOK
  <2>2. tracked = <<>> => Len(tracked) = 0 OBVIOUS
  <2> QED BY <2>1, <2>2 DEF GesturesInv, Reached, TimersOK, GesturesStartOver
<1> QED BY <1>1, <1>2, <1>3, PTL DEF Spec

-----------------------------------------------------------------------------
\* The pointer: what its operations do to the state they pass through. A move
\* that waits is the last there was; and the guest is where the last event was,
\* unless one waits.
AllButtons == MouseButtons \cup WheelButtons \cup {"middle"}
Nothing == <<>>
Report(p, m) == <<p, m>>
Told == {Nothing} \cup {Report(p, m) : p \in Positions, m \in SUBSET AllButtons}
PointerStates ==
    [mask : SUBSET AllButtons, pos : Positions, timer : BOOLEAN, guest : Told, last : Positions]

PointerOK(s) ==
    /\ s \in PointerStates
    /\ s.timer => s.pos = s.last
    /\ conn = "connected" /\ s.guest # Nothing /\ ~s.timer => s.guest = Report(s.last, s.mask)
    /\ conn \in {"", "connecting"} => s.guest = Nothing

LEMMA SendMouseIs ==
    ASSUME NEW s \in PointerStates, NEW p \in Positions
    PROVE  /\ SendMouse(s, p) \in PointerStates
           /\ SendMouse(s, p).guest = IF conn = "connected" THEN Report(p, s.mask) ELSE s.guest
           /\ SendMouse(s, p).mask = s.mask /\ SendMouse(s, p).timer = s.timer
           /\ SendMouse(s, p).pos = s.pos /\ SendMouse(s, p).last = s.last
<1>1. s.mask \in SUBSET AllButtons BY DEF PointerStates
<1>2. Report(p, s.mask) \in Told BY <1>1 DEF Told
<1>3. SendMouse(s, p) = IF conn = "connected" THEN [s EXCEPT !.guest = Report(p, s.mask)] ELSE s
  BY DEF SendMouse, Report
<1> QED BY <1>2, <1>3 DEF PointerStates

LEMMA MoveKeeps ==
    ASSUME NEW s, PointerOK(s), NEW p \in Positions, NEW soon \in BOOLEAN
    PROVE  PointerOK(HandleMouseMove(s, p, soon)) /\ HandleMouseMove(s, p, soon).mask = s.mask
<1> DEFINE moved == [s EXCEPT !.pos = p, !.last = p]
           waits  == [moved EXCEPT !.timer = TRUE]
<1>1. s \in PointerStates BY DEF PointerOK
<1>2. /\ moved \in PointerStates /\ moved.mask = s.mask /\ moved.timer = s.timer
      /\ moved.guest = s.guest /\ moved.pos = p /\ moved.last = p
  BY <1>1 DEF PointerStates
<1>3. /\ waits \in PointerStates /\ waits.mask = s.mask /\ waits.timer = TRUE
      /\ waits.guest = s.guest /\ waits.pos = p /\ waits.last = p
  BY <1>1 DEF PointerStates
<1>4. HandleMouseMove(s, p, soon) = IF s.timer THEN moved ELSE IF soon THEN waits ELSE SendMouse(moved, p)
  BY DEF HandleMouseMove
<1>5. s.timer \in BOOLEAN BY <1>1 DEF PointerStates
<1> HIDE DEF moved, waits
<1>6. CASE s.timer BY <1>2, <1>4, <1>6 DEF PointerOK
<1>7. CASE ~s.timer /\ soon BY <1>3, <1>4, <1>7 DEF PointerOK
<1>8. CASE ~s.timer /\ ~soon
  <2> DEFINE r == SendMouse(moved, p)
  <2>1. HandleMouseMove(s, p, soon) = r BY <1>4, <1>8
  <2>2. /\ r \in PointerStates /\ r.mask = s.mask /\ r.timer = s.timer /\ r.last = p
        /\ r.guest = IF conn = "connected" THEN Report(p, s.mask) ELSE s.guest
    BY <1>2, SendMouseIs
  <2> HIDE DEF r
  <2>3. PointerOK(r) BY <1>8, <2>2 DEF PointerOK
  <2> QED BY <2>1, <2>2, <2>3
<1> QED BY <1>6, <1>7, <1>8

LEMMA FlushedIs ==
    ASSUME NEW s, PointerOK(s), NEW p \in Positions,
           NEW f, f = IF s.timer THEN SendMouse([s EXCEPT !.timer = FALSE], p) ELSE s
    PROVE  f \in PointerStates /\ f.mask = s.mask /\ f.timer = FALSE /\ (conn # "connected" => f.guest = s.guest)
<1>1. s \in PointerStates BY DEF PointerOK
<1>2. /\ [s EXCEPT !.timer = FALSE] \in PointerStates
      /\ [s EXCEPT !.timer = FALSE].mask = s.mask /\ [s EXCEPT !.timer = FALSE].timer = FALSE
      /\ [s EXCEPT !.timer = FALSE].guest = s.guest
  BY <1>1 DEF PointerStates
<1>3. s.timer \in BOOLEAN BY <1>1 DEF PointerStates
<1>4. CASE s.timer BY <1>2, <1>4, SendMouseIs
<1>5. CASE ~s.timer BY <1>1, <1>3, <1>5
<1> QED BY <1>4, <1>5

\* A button that changes is sent, after a move that waits.
LEMMA ChangeIsSent ==
    ASSUME NEW s, PointerOK(s), NEW p \in Positions,
           NEW a \in PointerStates, a.timer = FALSE, a.last = p, conn # "connected" => a.guest = s.guest
    PROVE  PointerOK(SendMouse(a, p)) /\ SendMouse(a, p).mask = a.mask
<1> DEFINE r == SendMouse(a, p)
<1>1. /\ r \in PointerStates /\ r.mask = a.mask /\ r.timer = FALSE /\ r.last = p
      /\ r.guest = IF conn = "connected" THEN Report(p, a.mask) ELSE a.guest
  BY SendMouseIs
<1> HIDE DEF r
<1>2. PointerOK(r) BY <1>1 DEF PointerOK
<1> QED BY <1>1, <1>2 DEF r

LEMMA ButtonDownKeeps ==
    ASSUME NEW s, PointerOK(s), NEW p \in Positions, NEW b \in AllButtons
    PROVE  PointerOK(ButtonDown(s, p, b)) /\ ButtonDown(s, p, b).mask = s.mask \cup {b}
<1> DEFINE f == IF s.timer THEN SendMouse([s EXCEPT !.timer = FALSE], p) ELSE s
           a == [[f EXCEPT !.mask = @ \cup {b}] EXCEPT !.last = p]
<1>1. ButtonDown(s, p, b) = SendMouse(a, p) BY DEF ButtonDown, HandleMouseButton, Changed
<1>2. f \in PointerStates /\ f.mask = s.mask /\ f.timer = FALSE /\ (conn # "connected" => f.guest = s.guest)
  BY FlushedIs
<1> HIDE DEF f
<1>3. f.mask \cup {b} \in SUBSET AllButtons BY <1>2 DEF PointerStates
<1>4. a \in PointerStates /\ a.timer = FALSE /\ a.last = p /\ a.guest = f.guest
  <2> HIDE DEF AllButtons
  <2> QED BY <1>2, <1>3 DEF PointerStates
<1>7. a.mask = s.mask \cup {b} BY <1>2 DEF PointerStates
<1> HIDE DEF a
<1>5. conn # "connected" => a.guest = s.guest BY <1>2, <1>4
<1>6. PointerOK(SendMouse(a, p)) /\ SendMouse(a, p).mask = a.mask
  BY <1>4, <1>5, ChangeIsSent
<1> QED BY <1>1, <1>6, <1>7

LEMMA ButtonUpKeeps ==
    ASSUME NEW s, PointerOK(s), NEW p \in Positions, NEW b \in AllButtons
    PROVE  PointerOK(ButtonUp(s, p, b)) /\ ButtonUp(s, p, b).mask = s.mask \ {b}
<1> DEFINE f == IF s.timer THEN SendMouse([s EXCEPT !.timer = FALSE], p) ELSE s
           a == [[f EXCEPT !.mask = @ \ {b}] EXCEPT !.last = p]
<1>1. ButtonUp(s, p, b) = SendMouse(a, p) BY DEF ButtonUp, HandleMouseButton, Changed
<1>2. f \in PointerStates /\ f.mask = s.mask /\ f.timer = FALSE /\ (conn # "connected" => f.guest = s.guest)
  BY FlushedIs
<1> HIDE DEF f
<1>3. f.mask \ {b} \in SUBSET AllButtons BY <1>2 DEF PointerStates
<1>4. a \in PointerStates /\ a.timer = FALSE /\ a.last = p /\ a.guest = f.guest
  <2> HIDE DEF AllButtons
  <2> QED BY <1>2, <1>3 DEF PointerStates
<1>7. a.mask = s.mask \ {b} BY <1>2 DEF PointerStates
<1> HIDE DEF a
<1>5. conn # "connected" => a.guest = s.guest BY <1>2, <1>4
<1>6. PointerOK(SendMouse(a, p)) /\ SendMouse(a, p).mask = a.mask
  BY <1>4, <1>5, ChangeIsSent
<1> QED BY <1>1, <1>6, <1>7

LEMMA ClickKeeps ==
    ASSUME NEW s, PointerOK(s), NEW p \in Positions, NEW b \in AllButtons
    PROVE  PointerOK(Click(s, p, b)) /\ Click(s, p, b).mask = s.mask \ {b}
<1> DEFINE r == ButtonDown(s, p, b)
<1>1. PointerOK(r) /\ r.mask = s.mask \cup {b} BY ButtonDownKeeps
<1> HIDE DEF r
<1>2. Click(s, p, b) = ButtonUp(r, p, b) BY DEF Click, r
<1>3. PointerOK(Click(s, p, b)) /\ Click(s, p, b).mask = r.mask \ {b} BY <1>1, <1>2, ButtonUpKeeps
<1> QED BY <1>1, <1>3

LEMMA WheelKeeps ==
    ASSUME NEW s, PointerOK(s), NEW p \in Positions, NEW wheel \in WheelButtons \cup {"none"}
    PROVE  PointerOK(WheelClick(s, p, wheel)) /\ WheelClick(s, p, wheel).mask \subseteq s.mask
<1>1. CASE wheel = "none" BY <1>1 DEF WheelClick
<1>2. CASE wheel # "none"
  <2>1. wheel \in AllButtons BY <1>2 DEF AllButtons
  <2> QED BY <1>2, <2>1, ClickKeeps DEF WheelClick
<1> QED BY <1>1, <1>2

\* What an event of a gesture may add to the buttons that are down, and what its
\* end takes away.
Holds(g) == IF g \in {"drag", "longpress"} THEN {HoldButton[g]} ELSE {}

LEMMA GestureStepKeeps ==
    ASSUME NEW s, PointerOK(s), NEW type \in {"start", "move", "end"}, NEW g \in InitState,
           NEW p \in Positions, NEW soon \in BOOLEAN, NEW wheel \in WheelButtons \cup {"none"},
           NEW r, r = GestureStep(s, type, g, p, soon, wheel)
    PROVE  /\ PointerOK(r) /\ r.mask \subseteq s.mask \cup Holds(g)
           /\ type # "start" => r.mask \subseteq s.mask
           /\ type = "end" => r.mask \cap Holds(g) = {} \/ Holds(g) = {}
<1> DEFINE moved == HandleMouseMove(s, p, soon)
<1>1. PointerOK(moved) /\ moved.mask = s.mask BY MoveKeeps
<1>2. DOMAIN TapButton = Taps /\ DOMAIN HoldButton = {"drag", "longpress"}
      /\ (\A t \in Taps : TapButton[t] \in AllButtons)
      /\ (\A h \in {"drag", "longpress"} : HoldButton[h] \in AllButtons)
  BY DEF TapButton, HoldButton, Taps, AllButtons, MouseButtons
<1>3. Taps \cap {"drag", "longpress", "twodrag", "pinch"} = {} BY DEF Taps
<1> DEFINE clicked == Click(moved, p, TapButton[g])
           pressed1 == ButtonDown(moved, p, HoldButton[g])
           released1 == ButtonUp(moved, p, HoldButton[g])
<1>4. r = CASE type = "start" /\ g \in DOMAIN TapButton -> clicked
            [] type = "start" /\ g \in DOMAIN HoldButton -> pressed1
            [] type = "end" /\ g \in DOMAIN HoldButton -> released1
            [] type = "move" /\ g \in DOMAIN HoldButton -> moved
            [] type = "start" /\ g \in {"twodrag", "pinch"} -> moved
            [] type = "move" /\ g \in {"twodrag", "pinch"} -> WheelClick(moved, p, wheel)
            [] OTHER -> s
  BY DEF GestureStep
<1> HIDE DEF moved, clicked, pressed1, released1
<1>5. CASE g \in Taps
  <2>1. Holds(g) = {} BY <1>3, <1>5 DEF Holds
  <2>2. CASE type = "start"
    <3>1. r = clicked BY <1>2, <1>3, <1>4, <1>5, <2>2
    <3>2. PointerOK(clicked) /\ clicked.mask = moved.mask \ {TapButton[g]}
      BY <1>1, <1>2, <1>5, ClickKeeps DEF clicked
    <3> QED BY <1>1, <2>1, <3>1, <3>2
  <2>3. CASE type # "start"
    <3>1. r = s BY <1>2, <1>3, <1>4, <1>5, <2>3
    <3> QED BY <2>1, <3>1
  <2> QED BY <2>2, <2>3
<1>6. CASE g \in {"drag", "longpress"}
  <2>1. Holds(g) = {HoldButton[g]} BY <1>6 DEF Holds
  <2>2. CASE type = "move"
    <3>1. r = moved BY <1>2, <1>3, <1>4, <1>6, <2>2
    <3> QED BY <1>1, <2>2, <3>1
  <2>3. CASE type = "start"
    <3>1. r = pressed1 BY <1>2, <1>3, <1>4, <1>6, <2>3
    <3>2. PointerOK(pressed1) /\ pressed1.mask = moved.mask \cup {HoldButton[g]}
      BY <1>1, <1>2, <1>6, ButtonDownKeeps DEF pressed1
    <3> QED BY <1>1, <2>1, <2>3, <3>1, <3>2
  <2>4. CASE type = "end"
    <3>1. r = released1 BY <1>2, <1>3, <1>4, <1>6, <2>4
    <3>2. PointerOK(released1) /\ released1.mask = moved.mask \ {HoldButton[g]}
      BY <1>1, <1>2, <1>6, ButtonUpKeeps DEF released1
    <3> QED BY <1>1, <2>1, <2>4, <3>1, <3>2
  <2> QED BY <2>2, <2>3, <2>4
<1>7. CASE g \in {"twodrag", "pinch"}
  <2>1. Holds(g) = {} BY <1>7 DEF Holds
  <2>2. CASE type = "start"
    <3>1. r = moved BY <1>2, <1>3, <1>4, <1>7, <2>2
    <3> QED BY <1>1, <2>1, <3>1
  <2>3. CASE type = "move"
    <3>1. r = WheelClick(moved, p, wheel) BY <1>2, <1>3, <1>4, <1>7, <2>3
    <3> QED BY <1>1, <2>1, <3>1, WheelKeeps
  <2>4. CASE type = "end"
    <3>1. r = s BY <1>2, <1>3, <1>4, <1>7, <2>4
    <3> QED BY <2>1, <3>1
  <2> QED BY <2>2, <2>3, <2>4
<1> QED BY <1>5, <1>6, <1>7 DEF InitState

PointerHere ==
    /\ mask \in SUBSET AllButtons /\ mousePos \in Positions /\ moveTimer \in BOOLEAN
    /\ guestPointer \in Told /\ lastPos \in Positions
    /\ moveTimer => mousePos = lastPos
    /\ conn = "connected" /\ guestPointer # Nothing /\ ~moveTimer => guestPointer = Report(lastPos, mask)
    /\ conn \in {"", "connecting"} => guestPointer = Nothing

LEMMA HereIsOK == PointerHere => PointerOK(PointerState)
BY DEF PointerHere, PointerOK, PointerState, PointerStates

LEMMA Becomes ==
    ASSUME NEW s, PointerOK(s), Does(s), conn' = conn
    PROVE  PointerHere' /\ mask' = s.mask
<1>1. s \in PointerStates BY DEF PointerOK
<1>2. /\ s.mask \in SUBSET AllButtons /\ s.pos \in Positions /\ s.timer \in BOOLEAN
      /\ s.guest \in Told /\ s.last \in Positions
  BY <1>1 DEF PointerStates
<1> QED BY <1>2 DEF PointerHere, PointerOK, Does

LEMMA PointerUnchanged ==
    ASSUME PointerHere, UNCHANGED <<mask, mousePos, moveTimer, guestPointer, lastPos>>, conn' = conn
    PROVE  PointerHere'
BY DEF PointerHere

EventTypes == {<<"start">>, <<"move">>, <<"end">>, <<"start", "move">>, <<"start", "end">>}

\* A gesture's events may add its button to those that are down, those that go on
\* with it add none, and its end takes its button away.
LEMMA GestureKeeps ==
    ASSUME PointerHere, NEW g \in InitState, NEW types \in EventTypes, Gesture(types, g), conn' = conn
    PROVE  /\ PointerHere' /\ UNCHANGED mouse
           /\ mask' \subseteq mask \cup Holds(g)
           /\ types = <<"move">> => mask' \subseteq mask
           /\ types = <<"end">> => mask' \subseteq mask \ Holds(g)
<1>0. PICK at \in [DOMAIN types -> Positions], soon \in [DOMAIN types -> BOOLEAN], wheel \in Wheels(g) :
        /\ Does(IF Len(types) = 1 THEN GestureStep(PointerState, types[1], g, at[1], soon[1], wheel)
                ELSE GestureStep(GestureStep(PointerState, types[1], g, at[1], soon[1], wheel),
                                 types[2], g, at[2], soon[2], wheel))
        /\ UNCHANGED mouse
  BY DEF Gesture
<1> DEFINE first  == GestureStep(PointerState, types[1], g, at[1], soon[1], wheel)
           second == GestureStep(first, types[2], g, at[2], soon[2], wheel)
<1>1. UNCHANGED mouse BY <1>0
<1>2. Does(IF Len(types) = 1 THEN first ELSE second) BY <1>0
<1>3. 1 \in DOMAIN types /\ (Len(types) # 1 => 2 \in DOMAIN types)
  BY DEF EventTypes
<1>4. /\ at[1] \in Positions /\ soon[1] \in BOOLEAN /\ wheel \in WheelButtons \cup {"none"}
      /\ Len(types) # 1 => at[2] \in Positions /\ soon[2] \in BOOLEAN
  BY <1>0, <1>3 DEF Wheels, WheelButtons
<1>5. types[1] \in {"start", "move", "end"} /\ (Len(types) # 1 => types[1] = "start" /\ types[2] \in {"move", "end"})
  BY DEF EventTypes
<1>6. /\ PointerOK(first) /\ first.mask \subseteq PointerState.mask \cup Holds(g)
      /\ types[1] # "start" => first.mask \subseteq PointerState.mask
      /\ types[1] = "end" => first.mask \cap Holds(g) = {} \/ Holds(g) = {}
  BY <1>4, HereIsOK, <1>5, GestureStepKeeps
<1>7. PointerState.mask = mask BY DEF PointerState
<1> HIDE DEF first
<1>8. CASE Len(types) = 1
  <2>1. Does(first) BY <1>2, <1>8
  <2>2. PointerHere' /\ mask' = first.mask BY <1>6, <2>1, Becomes
  <2>3. types = <<"move">> => types[1] = "move" OBVIOUS
  <2>4. types = <<"end">> => types[1] = "end" OBVIOUS
  <2> QED BY <1>1, <1>6, <1>7, <2>2, <2>3, <2>4
<1>9. CASE Len(types) # 1
  <2>1. PointerOK(second) /\ second.mask \subseteq first.mask \cup Holds(g)
    BY <1>3, <1>4, <1>5, <1>6, <1>9, GestureStepKeeps
  <2>2. Does(second) BY <1>2, <1>9
  <2> HIDE DEF second
  <2>3. PointerHere' /\ mask' = second.mask BY <2>1, <2>2, Becomes
  <2>4. types # <<"move">> /\ types # <<"end">> BY <1>9
  <2> QED BY <1>1, <1>6, <1>7, <2>1, <2>3, <2>4
<1> QED BY <1>8, <1>9

-----------------------------------------------------------------------------
\* The buttons that are down: what a gesture under way holds of them.

LEMMA StatesAre ==
    ASSUME GesturesInv
    PROVE  /\ state \in {InitState, {}, TwoFingers, Drags} \cup {{g} : g \in InitState}
           /\ Detected(state, tracked) => \E g \in InitState : state = {g}
<1>1. tracked \in Seq(Touch) BY DEF GesturesInv, TouchesOK
<1>2. tracked = <<>> \/ Len(tracked) = 1 \/ Len(tracked) = 2 \/ Len(tracked) >= 3 BY <1>1, TrackedLength
<1>3. \A g \in {"twotap", "threetap", "twodrag", "pinch", "drag", "longpress"} : g \in InitState
  BY DEF InitState, Taps
<1>4. state \in {InitState, {}, TwoFingers, Drags} \cup {{g} : g \in InitState}
  <2>1. CASE tracked = <<>> BY <2>1 DEF GesturesInv, Reached
  <2>2. CASE tracked # <<>> /\ waitingRelease
    BY <1>3, <2>2 DEF GesturesInv, Reached, AfterRelease
  <2>3. CASE tracked # <<>> /\ ~waitingRelease
    BY <1>2, <1>3, <2>3 DEF GesturesInv, Reached
  <2> QED BY <2>1, <2>2, <2>3
<1> QED BY <1>4, DetectedIs

LEMMA HoldsAre ==
    ASSUME GesturesInv
    PROVE  /\ ~Detected(state, tracked) => GestureHolds = {}
           /\ \A g \in InitState : state = {g} => GestureHolds \subseteq Holds(g)
           /\ \A g \in {"drag", "longpress"} : state = {g} => GestureHolds = Holds(g)
<1>1. DOMAIN HoldButton = {"drag", "longpress"} BY DEF HoldButton
<1>2. ~Detected(state, tracked) => GestureHolds = {} BY DEF GestureHolds
<1>3. ASSUME NEW g \in InitState, state = {g} PROVE GestureHolds \subseteq Holds(g)
  BY <1>1, <1>3 DEF GestureHolds, Holds
<1>4. ASSUME NEW g \in {"drag", "longpress"}, state = {g} PROVE GestureHolds = Holds(g)
  <2>1. Detected(state, tracked) BY <1>4, DetectedIs, Names
  <2> QED BY <1>1, <1>4, <2>1 DEF GestureHolds, Holds
<1> QED BY <1>2, <1>3, <1>4


\* A gesture that holds a button is detected by its name alone.
LEMMA HoldsBegin ==
    ASSUME NEW g \in {"drag", "longpress"}, state' = {g} PROVE GestureHolds' = Holds(g)
<1>1. DOMAIN HoldButton = {"drag", "longpress"} BY DEF HoldButton
<1>2. Detected(state', tracked') BY DetectedIs, Names
<1> QED BY <1>1, <1>2 DEF GestureHolds, Holds

\* The states that the touches may have are those of the next step, too.
LEMMA StatesAfter ==
    ASSUME GesturesInv'
    PROVE  state' \in {InitState, {}, TwoFingers, Drags} \cup {{g} : g \in InitState}
<1>1. tracked' \in Seq(Touch) BY DEF GesturesInv, TouchesOK
<1>2. tracked' = <<>> \/ Len(tracked') = 1 \/ Len(tracked') = 2 \/ Len(tracked') >= 3 BY <1>1, TrackedLength
<1>3. \A g \in {"twotap", "threetap", "twodrag", "pinch", "drag", "longpress"} : g \in InitState
  BY DEF InitState, Taps
<1>4. CASE tracked' = <<>> BY <1>4 DEF GesturesInv, Reached
<1>5. CASE tracked' # <<>> /\ waitingRelease'
  BY <1>3, <1>5 DEF GesturesInv, Reached, AfterRelease
<1>6. CASE tracked' # <<>> /\ ~waitingRelease'
  BY <1>2, <1>3, <1>6 DEF GesturesInv, Reached
<1> QED BY <1>4, <1>5, <1>6


\* The same gesture is under way with the same button down, until it ends.
LEMMA HoldsStay ==
    ASSUME GesturesInv, GesturesInv', state' = state PROVE GestureHolds \subseteq GestureHolds'
<1>1. CASE ~Detected(state, tracked)
  <2>1. GestureHolds = {} BY <1>1, HoldsAre
  <2> QED BY <2>1
<1>2. CASE Detected(state, tracked)
  <2>1. PICK g \in InitState : state = {g} BY <1>2, StatesAre
  <2>2. CASE g \in {"drag", "longpress"}
    <3>1. GestureHolds = Holds(g) BY <2>1, <2>2, HoldsAre
    <3>2. GestureHolds' = Holds(g) BY <2>1, <2>2, HoldsBegin
    <3> QED BY <3>1, <3>2
  <2>3. CASE g \notin {"drag", "longpress"}
    <3>1. GestureHolds \subseteq Holds(g) BY <2>1, HoldsAre
    <3>2. Holds(g) = {} BY <2>3 DEF Holds
    <3> QED BY <3>1, <3>2
  <2> QED BY <2>2, <2>3
<1> QED BY <1>1, <1>2

LEMMA TheOne == \A g : TheGesture({g}) = g
BY DEF TheGesture

PointerInv ==
    /\ PointerHere
    /\ over \in BOOLEAN /\ captured \in BOOLEAN
    /\ buttons \subseteq MouseButtons /\ lost \subseteq MouseButtons
    /\ mask \subseteq buttons \cup lost \cup GestureHolds

\* What the events of a gesture have to leave down.
LEMMA EventsKeep ==
    ASSUME PointerInv, GesturesInv, PointerHere', UNCHANGED mouse,
           mask' \subseteq buttons \cup lost \cup GestureHolds'
    PROVE  PointerInv'
BY DEF PointerInv, mouse

\* A gesture begins, that of the touches' new state.
LEMMA BeginKeeps ==
    ASSUME PointerInv, GesturesInv, GesturesInv', GestureHolds = {}, conn' = conn,
           NEW g \in InitState, NEW types \in EventTypes, Gesture(types, g),
           state' = {g} \/ Holds(g) = {}
    PROVE  PointerInv'
<1>1. PointerHere' /\ UNCHANGED mouse /\ mask' \subseteq mask \cup Holds(g)
  BY GestureKeeps DEF PointerInv
<1>2. Holds(g) \subseteq GestureHolds'
  <2>1. CASE g \in {"drag", "longpress"}
    <3>1. state' = {g} BY <2>1 DEF Holds
    <3> QED BY <2>1, <3>1, HoldsBegin
  <2>2. CASE g \notin {"drag", "longpress"} BY <2>2 DEF Holds
  <2> QED BY <2>1, <2>2
<1>3. mask \subseteq buttons \cup lost BY DEF PointerInv
<1>4. mask' \subseteq buttons \cup lost \cup GestureHolds' BY <1>1, <1>2, <1>3
<1> QED BY <1>1, <1>4, EventsKeep

LEMMA NoEventKeeps ==
    ASSUME PointerInv, GesturesInv, NoEvent, conn' = conn, GestureHolds \subseteq GestureHolds'
    PROVE  PointerInv'
<1>1. UNCHANGED <<mask, mousePos, moveTimer, guestPointer, lastPos>> /\ UNCHANGED mouse
  BY DEF NoEvent, pointing
<1>2. PointerHere' BY <1>1, PointerUnchanged DEF PointerInv
<1>3. mask' \subseteq buttons \cup lost \cup GestureHolds' BY <1>1 DEF PointerInv
<1> QED BY <1>1, <1>2, <1>3, EventsKeep

LEMMA TouchStartPoints ==
    ASSUME PointerInv, GesturesInv, GesturesInv', NEW id \in Fingers, TouchStart(id), conn' = conn
    PROVE  PointerInv'
<1>1. NoEvent BY DEF TouchStart
<1>2. ~Detected(state, tracked) => GestureHolds = {} BY HoldsAre
<1>3. Detected(state, tracked) => state' = state BY DEF TouchStart
<1>4. GestureHolds \subseteq GestureHolds'
  <2>1. CASE Detected(state, tracked) BY <1>3, <2>1, HoldsStay
  <2>2. CASE ~Detected(state, tracked) BY <1>2, <2>2
  <2> QED BY <2>1, <2>2
<1> QED BY <1>1, <1>4, NoEventKeeps

LEMMA TouchEndIgnoredPoints ==
    ASSUME PointerInv, GesturesInv, GesturesInv', NEW id \in Fingers, TouchEndIgnored(id), conn' = conn
    PROVE  PointerInv'
<1>1. NoEvent /\ (state' = state \/ tracked = <<>>) BY DEF TouchEndIgnored
<1>2. GestureHolds \subseteq GestureHolds'
  <2>1. CASE Detected(state, tracked)
    <3>1. tracked # <<>> BY <2>1, DetectedMeans
    <3> QED BY <1>1, <3>1, HoldsStay
  <2>2. CASE ~Detected(state, tracked)
    <3>1. GestureHolds = {} BY <2>2, HoldsAre
    <3> QED BY <3>1
  <2> QED BY <2>1, <2>2
<1> QED BY <1>1, <1>2, NoEventKeeps

LEMMA TouchMoveDetectedPoints ==
    ASSUME PointerInv, GesturesInv, GesturesInv', NEW i \in DOMAIN tracked, TouchMoveDetected(i),
           conn' = conn
    PROVE  PointerInv'
<1>1. Detected(state, tracked) /\ state' = state /\ Pushes(<<"move">>, state)
  BY DEF TouchMoveDetected
<1>2. PICK g \in InitState : state = {g} BY <1>1, StatesAre
<1>3. Gesture(<<"move">>, g) BY <1>1, <1>2, TheOne DEF Pushes
<1>4. <<"move">> \in EventTypes BY DEF EventTypes
<1>5. PointerHere' /\ UNCHANGED mouse /\ mask' \subseteq mask
  BY <1>3, <1>4, GestureKeeps DEF PointerInv
<1>6. GestureHolds \subseteq GestureHolds' BY <1>1, HoldsStay
<1>7. mask \subseteq buttons \cup lost \cup GestureHolds BY DEF PointerInv
<1>8. mask' \subseteq buttons \cup lost \cup GestureHolds' BY <1>5, <1>6, <1>7
<1> QED BY <1>5, <1>8, EventsKeep

LEMMA TouchMovePoints ==
    ASSUME PointerInv, GesturesInv, GesturesInv', NEW i \in DOMAIN tracked, NEW far \in BOOLEAN,
           NEW sameWay \in BOOLEAN, TouchMove(i, far, sameWay), conn' = conn
    PROVE  PointerInv'
<1> DEFINE n     == Len(tracked)
           moved == state \ (Taps \cup {"longpress"} \cup (IF n = 1 THEN {} ELSE {"drag"})
                                    \cup (IF n = 2 THEN {} ELSE {"twodrag", "pinch"}))
           both  == n = 2 /\ tracked[3 - i].far
           left  == IF both THEN moved \ {IF sameWay THEN "pinch" ELSE "twodrag"} ELSE moved
<1>1. GestureHolds = {} BY HoldsAre DEF TouchMove
<1>2. CASE NoEvent BY <1>1, <1>2, NoEventKeeps
<1>3. CASE ~NoEvent
  <2>1. state' = left /\ Detected(left, tracked) /\ Pushes(<<"start", "move">>, left)
    BY <1>3 DEF TouchMove
  <2> HIDE DEF left
  <2>2. left \in {InitState, {}, TwoFingers, Drags} \cup {{g} : g \in InitState}
    BY <2>1, StatesAfter
  <2>3. PICK g \in InitState : left = {g} BY <2>1, <2>2, DetectedIs
  <2>4. Gesture(<<"start", "move">>, g) BY <2>1, <2>3, TheOne DEF Pushes
  <2>5. <<"start", "move">> \in EventTypes BY DEF EventTypes
  <2> QED BY <1>1, <2>1, <2>3, <2>4, <2>5, BeginKeeps
<1> QED BY <1>2, <1>3

LEMMA NoneHeld ==
    /\ Holds("onetap") = {} /\ Holds("twotap") = {} /\ Holds("threetap") = {}
    /\ Holds("twodrag") = {} /\ Holds("pinch") = {}
BY DEF Holds

LEMMA TouchEndDetectedPoints ==
    ASSUME PointerInv, GesturesInv, GesturesInv', NEW i \in DOMAIN tracked, NEW slow \in BOOLEAN,
           TouchEndDetected(i, slow), conn' = conn
    PROVE  PointerInv'
<1>1. PICK g \in InitState : state = {g} BY StatesAre DEF TouchEndDetected
<1>2. GestureHolds \subseteq Holds(g) BY <1>1, HoldsAre
<1>3. CASE ~waitingRelease
  <2>1. Gesture(<<"end">>, g) BY <1>1, <1>3, TheOne DEF TouchEndDetected, Pushes
  <2>2. <<"end">> \in EventTypes BY DEF EventTypes
  <2>3. PointerHere' /\ UNCHANGED mouse /\ mask' \subseteq mask \ Holds(g)
    BY <2>1, <2>2, GestureKeeps DEF PointerInv
  <2>4. mask \subseteq buttons \cup lost \cup GestureHolds BY DEF PointerInv
  <2>5. mask' \subseteq buttons \cup lost \cup GestureHolds' BY <1>2, <2>3, <2>4
  <2> QED BY <2>3, <2>5, EventsKeep
<1>4. CASE waitingRelease
  <2>1. tracked # <<>>
    <3>1. Detected(state, tracked) BY DEF TouchEndDetected
    <3> QED BY <3>1, DetectedMeans
  <2>2. g \in {"twotap", "threetap", "twodrag", "pinch"}
    BY <1>1, <1>4, <2>1 DEF GesturesInv, Reached, AfterRelease
  <2>3. Holds(g) = {} BY <2>2, NoneHeld
  <2>4. GestureHolds = {} BY <1>2, <2>3
  <2>5. CASE slow
    <3>1. NoEvent BY <1>4, <2>5 DEF TouchEndDetected
    <3> QED BY <2>4, <3>1, NoEventKeeps
  <2>6. CASE ~slow
    <3>1. Gesture(<<"start", "end">>, g) BY <1>1, <1>4, <2>6, TheOne DEF TouchEndDetected, Pushes
    <3>2. <<"start", "end">> \in EventTypes BY DEF EventTypes
    <3> QED BY <2>3, <2>4, <3>1, <3>2, BeginKeeps
  <2> QED BY <2>5, <2>6
<1> QED BY <1>3, <1>4

LEMMA TouchEndPoints ==
    ASSUME PointerInv, GesturesInv, GesturesInv', NEW i \in DOMAIN tracked, NEW slow \in BOOLEAN,
           TouchEnd(i, slow), conn' = conn
    PROVE  PointerInv'
<1> DEFINE left == IF slow THEN {} ELSE Released
<1>1. ~Detected(state, tracked) BY DEF TouchEnd
<1>2. GestureHolds = {} BY <1>1, HoldsAre
<1>3. CASE NoEvent BY <1>2, <1>3, NoEventKeeps
<1>4. CASE ~NoEvent
  <2>1. left # {} /\ Pushes(<<"start", "end">>, left) BY <1>4 DEF TouchEnd
  <2>2. tracked # <<>> OBVIOUS
  <2>3. left = Released BY <2>1
  <2> HIDE DEF left
  <2>4. left \in {{"onetap"}, {"twotap"}, {"threetap"}} BY <1>1, <2>1, <2>2, <2>3, ReleasedIs
  <2>5. PICK g \in Taps : left = {g} BY <2>4, Names
  <2>6. Gesture(<<"start", "end">>, g) BY <2>1, <2>5, TheOne DEF Pushes
  <2>7. <<"start", "end">> \in EventTypes BY DEF EventTypes
  <2>8. g \in InitState /\ Holds(g) = {} BY NoneHeld DEF Taps, InitState
  <2> QED BY <1>2, <2>6, <2>7, <2>8, BeginKeeps
<1> QED BY <1>3, <1>4

LEMMA TimeoutsPoint ==
    ASSUME PointerInv, GesturesInv, GesturesInv', LongpressTimeout \/ TwoTouchTimeout, conn' = conn
    PROVE  PointerInv'
<1>1. threw' = FALSE BY DEF GesturesInv, TimersOK
<1>2. <<"start">> \in EventTypes /\ <<"start", "move">> \in EventTypes BY DEF EventTypes
<1>3. CASE LongpressTimeout
  <2>1. state' = {"longpress"} /\ Pushes(<<"start">>, {"longpress"}) /\ ~Detected(state, tracked)
    BY <1>1, <1>3 DEF LongpressTimeout
  <2>2. Gesture(<<"start">>, "longpress") BY <2>1, TheOne DEF Pushes
  <2>3. "longpress" \in InitState BY DEF InitState
  <2>4. GestureHolds = {} BY <2>1, HoldsAre
  <2> QED BY <1>2, <2>1, <2>2, <2>3, <2>4, BeginKeeps
<1>4. CASE TwoTouchTimeout
  <2>1. state' \in {{"pinch"}, {"twodrag"}} /\ Pushes(<<"start", "move">>, state') /\ twoTouch
    BY <1>1, <1>4 DEF TwoTouchTimeout
  <2>2. PICK g \in {"pinch", "twodrag"} : state' = {g} BY <2>1
  <2>3. Gesture(<<"start", "move">>, g) BY <2>1, <2>2, TheOne DEF Pushes
  <2>4. g \in InitState BY DEF InitState
  <2>5. ~Detected(state, tracked) BY <2>1, DetectedMeans
  <2>6. GestureHolds = {} BY <2>5, HoldsAre
  <2> QED BY <1>2, <2>2, <2>3, <2>4, <2>6, BeginKeeps
<1> QED BY <1>3, <1>4

-----------------------------------------------------------------------------
\* The mouse.

LEMMA MouseStays ==
    ASSUME PointerInv, UNCHANGED touching, PointerHere',
           over' \in BOOLEAN, captured' \in BOOLEAN, buttons' \subseteq MouseButtons, lost' \subseteq MouseButtons,
           mask' \subseteq buttons' \cup lost' \cup GestureHolds
    PROVE  PointerInv'
<1>1. GestureHolds' = GestureHolds BY DEF touching, GestureHolds, Detected, Active
<1> QED BY <1>1 DEF PointerInv

LEMMA DelayedPoints ==
    ASSUME PointerInv, DelayedMouseMove, UNCHANGED touching, conn' = conn PROVE PointerInv'
<1> DEFINE waiting == [PointerState EXCEPT !.timer = FALSE]
           s == SendMouse(waiting, mousePos)
<1>0. PointerHere BY DEF PointerInv
<1>1. /\ moveTimer /\ moveTimer' = s.timer /\ guestPointer' = s.guest
      /\ UNCHANGED <<mask, mousePos, lastPos>> /\ UNCHANGED mouse
  BY DEF DelayedMouseMove
<1>2. /\ waiting \in PointerStates /\ waiting.mask = mask /\ waiting.timer = FALSE
      /\ waiting.guest = guestPointer
  BY <1>0 DEF PointerHere, PointerState, PointerStates
<1>3. mousePos \in Positions BY <1>0 DEF PointerHere
<1> HIDE DEF waiting
<1>4. /\ s.timer = FALSE /\ s.guest = IF conn = "connected" THEN Report(mousePos, mask) ELSE guestPointer
      /\ s \in PointerStates
  BY <1>2, <1>3, SendMouseIs
<1> HIDE DEF s
<1>5. s.guest \in Told BY <1>4 DEF PointerStates
<1>6. PointerHere' BY <1>0, <1>1, <1>4, <1>5 DEF PointerHere
<1> QED BY <1>1, <1>6, MouseStays DEF PointerInv, mouse

LEMMA MousePoints ==
    ASSUME PointerInv, MouseNext, UNCHANGED touching, conn' = conn PROVE PointerInv'
<1>0. /\ PointerHere /\ over \in BOOLEAN /\ captured \in BOOLEAN
      /\ buttons \subseteq MouseButtons /\ lost \subseteq MouseButtons
      /\ mask \subseteq buttons \cup lost \cup GestureHolds
  BY DEF PointerInv
<1>1. PointerOK(PointerState) /\ PointerState.mask = mask BY <1>0, HereIsOK DEF PointerState
<1>2. MouseButtons \subseteq AllButtons BY DEF AllButtons
<1>3. CASE MouseCrosses
  <2>1. UNCHANGED <<mask, mousePos, moveTimer, guestPointer, lastPos, buttons, captured, lost>>
        /\ over' = ~over
    BY <1>3 DEF MouseCrosses
  <2>2. PointerHere' BY <1>0, <2>1, PointerUnchanged
  <2> QED BY <1>0, <2>1, <2>2, MouseStays
<1>4. CASE MouseMoves
  <2>1. PICK p \in Positions, soon \in BOOLEAN : Does(HandleMouseMove(PointerState, p, soon))
    BY <1>4 DEF MouseMoves
  <2> DEFINE r == HandleMouseMove(PointerState, p, soon)
  <2>2. PointerOK(r) /\ r.mask = mask BY <1>1, MoveKeeps
  <2>3. Does(r) BY <2>1
  <2> HIDE DEF r
  <2>4. PointerHere' /\ mask' = mask BY <2>2, <2>3, Becomes
  <2>5. UNCHANGED <<buttons, over, captured, lost>> BY <1>4 DEF MouseMoves, mouse
  <2> QED BY <1>0, <2>4, <2>5, MouseStays
<1>5. CASE MousePressed
  <2>1. PICK p \in Positions, b \in MouseButtons \ buttons :
          /\ buttons' = buttons \cup {b}
          /\ IF captured
             THEN UNCHANGED <<mask, mousePos, moveTimer, guestPointer, lastPos, lost>>
             ELSE Does(ButtonDown(PointerState, p, b)) /\ lost' = lost \ {b}
    BY <1>5 DEF MousePressed
  <2>2. captured' = TRUE /\ over' = over BY <1>5 DEF MousePressed
  <2>3. CASE captured
    <3>1. PointerHere' BY <1>0, <2>1, <2>3, PointerUnchanged
    <3>2. mask' \subseteq buttons' \cup lost' \cup GestureHolds BY <1>0, <2>1, <2>3
    <3> QED BY <1>0, <2>1, <2>2, <2>3, <3>1, <3>2, MouseStays
  <2>4. CASE ~captured
    <3> DEFINE r == ButtonDown(PointerState, p, b)
    <3>1. Does(r) /\ lost' = lost \ {b} BY <2>1, <2>4
    <3>2. PointerOK(r) /\ r.mask = mask \cup {b} BY <1>1, <1>2, ButtonDownKeeps
    <3> HIDE DEF r
    <3>3. PointerHere' /\ mask' = mask \cup {b} BY <3>1, <3>2, Becomes
    <3>4. mask' \subseteq buttons' \cup lost' \cup GestureHolds BY <1>0, <2>1, <3>1, <3>3
    <3>5. buttons' \subseteq MouseButtons /\ lost' \subseteq MouseButtons BY <1>0, <2>1, <3>1
    <3> QED BY <1>0, <2>2, <3>3, <3>4, <3>5, MouseStays
  <2> QED BY <2>3, <2>4
<1>6. CASE MouseReleased
  <2>1. PICK p \in Positions, b \in buttons :
          /\ buttons' = buttons \ {b}
          /\ IF over \/ captured
             THEN Does(ButtonUp(PointerState, p, b)) /\ lost' = lost \ {b}
             ELSE /\ lost' = lost \cup {b}
                  /\ UNCHANGED <<mask, mousePos, moveTimer, guestPointer, lastPos>>
    BY <1>6 DEF MouseReleased
  <2>2. captured' = FALSE /\ over' = over BY <1>6 DEF MouseReleased
  <2>3. CASE ~(over \/ captured)
    <3>1. PointerHere' BY <1>0, <2>1, <2>3, PointerUnchanged
    <3>2. mask' \subseteq buttons' \cup lost' \cup GestureHolds BY <1>0, <2>1, <2>3
    <3>3. buttons' \subseteq MouseButtons /\ lost' \subseteq MouseButtons BY <1>0, <2>1, <2>3
    <3> QED BY <1>0, <2>2, <3>1, <3>2, <3>3, MouseStays
  <2>4. CASE over \/ captured
    <3> DEFINE r == ButtonUp(PointerState, p, b)
    <3>1. Does(r) /\ lost' = lost \ {b} BY <2>1, <2>4
    <3>2. PointerOK(r) /\ r.mask = mask \ {b} BY <1>0, <1>1, <1>2, ButtonUpKeeps
    <3> HIDE DEF r
    <3>3. PointerHere' /\ mask' = mask \ {b} BY <3>1, <3>2, Becomes
    <3>4. mask' \subseteq buttons' \cup lost' \cup GestureHolds BY <1>0, <2>1, <3>1, <3>3
    <3>5. buttons' \subseteq MouseButtons /\ lost' \subseteq MouseButtons BY <1>0, <2>1, <3>1
    <3> QED BY <1>0, <2>2, <3>3, <3>4, <3>5, MouseStays
  <2> QED BY <2>3, <2>4
<1>7. CASE HandleWheel
  <2>1. PICK p \in Positions, horizontal \in {"none", "scroll left", "scroll right"},
             vertical \in {"none", "up", "down"} :
          Does(WheelClick(WheelClick(PointerState, p, horizontal), p, vertical))
    BY <1>7 DEF HandleWheel
  <2> DEFINE r == WheelClick(PointerState, p, horizontal)
             q == WheelClick(r, p, vertical)
  <2>2. horizontal \in WheelButtons \cup {"none"} /\ vertical \in WheelButtons \cup {"none"}
    BY DEF WheelButtons
  <2>3. PointerOK(r) /\ r.mask \subseteq mask BY <1>1, <2>2, WheelKeeps
  <2>4. Does(q) BY <2>1
  <2> HIDE DEF r
  <2>5. PointerOK(q) /\ q.mask \subseteq r.mask BY <2>2, <2>3, WheelKeeps
  <2> HIDE DEF q
  <2>6. PointerHere' /\ mask' = q.mask BY <2>4, <2>5, Becomes
  <2>7. UNCHANGED <<buttons, over, captured, lost>> BY <1>7 DEF HandleWheel, mouse
  <2>8. mask' \subseteq buttons' \cup lost' \cup GestureHolds BY <1>0, <2>3, <2>5, <2>6, <2>7
  <2> QED BY <1>0, <2>6, <2>7, <2>8, MouseStays
<1>8. CASE DelayedMouseMove BY <1>8, DelayedPoints
<1> QED BY <1>3, <1>4, <1>5, <1>6, <1>7, <1>8 DEF MouseNext

-----------------------------------------------------------------------------
LEMMA FailsMoves ==
    ASSUME Fails, conn \in {"", "connecting", "connected", "disconnected"}
    PROVE  conn' = conn \/ conn' = "disconnected"
BY DEF Fails, Terminated, Moved, ComesFrom

\* The connection only goes forward.
LEMMA ConnMoves ==
    ASSUME PageInv, [Next]_vars
    PROVE  \/ conn' = conn
           \/ conn' = "disconnected"
           \/ conn = "" /\ conn' = "connecting"
           \/ conn = "connecting" /\ conn' = "connected"
<1>0. conn \in {"", "connecting", "connected", "disconnected"} BY DEF PageInv, PageShape
<1>1. CASE Page
  <2>1. CASE StartViewer BY <1>0, <2>1 DEF StartViewer, Moved, ComesFrom, PageInv, PageShape
  <2>2. CASE ViewerFails \/ Slow BY <2>2 DEF ViewerFails, Slow
  <2>3. CASE SocketCloses BY <1>0, <2>3 DEF SocketCloses, Moved, ComesFrom, PageInv, PageShape
  <2> QED BY <1>1, <2>1, <2>2, <2>3 DEF Page
<1>2. CASE Handshaking
  <2>1. CASE InitMsg
    <3>1. Handshakes BY <2>1, InitMsgHandshakes DEF PageInv
    <3>2. CASE Quiet BY <3>2 DEF Quiet, connection
    <3>3. CASE Fails BY <1>0, <3>3, FailsMoves
    <3>4. CASE Connected BY <1>0, <3>4 DEF Connected, Moved, ComesFrom
    <3> QED BY <3>1, <3>2, <3>3, <3>4 DEF Handshakes
  <2>2. CASE ~InitMsg
    BY <1>2, <2>2 DEF Handshaking, SocketOpens, Resume, HandshakeArrives, connection
  <2> QED BY <2>1, <2>2
<1>3. CASE UsesClipboard
  <2>1. CASE OddReceived BY <1>0, <2>1, FailsMoves DEF OddReceived, HostReceives
  <2>2. CASE ~OddReceived BY <1>3, <2>2, ClipboardLeavesConnection
  <2> QED BY <2>1, <2>2
<1>4. CASE Types BY <1>4, KeyboardLeavesConnection
<1>5. CASE Points BY <1>5, PointerLeavesConnection DEF connection
<1>6. CASE Resizes BY <1>6 DEF Resizes, ResizeNext, connection
<1>7. CASE UNCHANGED vars BY <1>7 DEF vars, connection
<1> QED BY <1>1, <1>2, <1>3, <1>4, <1>5, <1>6, <1>7 DEF Next

LEMMA PointerInitially == ASSUME Init PROVE PointerInv
<1>1. /\ mask = {} /\ moveTimer = FALSE /\ guestPointer = Nothing /\ conn = ""
      /\ buttons = {} /\ over = FALSE /\ captured = FALSE /\ lost = {}
      /\ mousePos \in Positions /\ lastPos = mousePos
  BY DEF Init, PointerInit, ConnectionInit, Nothing
<1>2. Nothing \in Told BY DEF Told
<1>3. PointerHere BY <1>1, <1>2 DEF PointerHere
<1> QED BY <1>1, <1>3 DEF PointerInv

LEMMA PointerStep ==
    ASSUME PageInv, GesturesInv, PointerInv, [Next]_vars PROVE PointerInv'
<1>1. GesturesInv' BY GesturesStep
<1>2. CASE Points
  <2>1. conn' = conn BY <1>2, PointerLeavesConnection DEF connection
  <2>2. CASE GesturesNext
    <3>1. CASE \E id \in Fingers : TouchStart(id) \/ TouchEndIgnored(id)
      BY <1>1, <2>1, <3>1, TouchStartPoints, TouchEndIgnoredPoints
    <3>2. CASE \E i \in DOMAIN tracked :
                  \/ TouchMoveDetected(i) \/ \E far, sameWay \in BOOLEAN : TouchMove(i, far, sameWay)
                  \/ \E slow \in BOOLEAN : TouchEndDetected(i, slow) \/ TouchEnd(i, slow)
      BY <1>1, <2>1, <3>2, TouchMoveDetectedPoints, TouchMovePoints, TouchEndDetectedPoints, TouchEndPoints
    <3>3. CASE LongpressTimeout \/ TwoTouchTimeout BY <1>1, <2>1, <3>3, TimeoutsPoint
    <3> QED BY <2>2, <3>1, <3>2, <3>3 DEF GesturesNext
  <2>3. CASE ~GesturesNext
    <3>1. MouseNext /\ UNCHANGED touching BY <1>2, <2>3 DEF Points, MouseNext
    <3> QED BY <2>1, <3>1, MousePoints
  <2> QED BY <2>2, <2>3
<1>3. CASE ~Points
  <2>1. UNCHANGED pointing /\ UNCHANGED touching
    BY <1>3 DEF Next, vars, Page, Handshaking, UsesClipboard, Resizes, Types, OtherInput, inputs
  <2>2. UNCHANGED <<mask, mousePos, moveTimer, guestPointer, lastPos>> /\ UNCHANGED <<buttons, over, captured, lost>>
    BY <2>1 DEF pointing, mouse
  <2>3. PointerHere'
    <3>1. PointerHere BY DEF PointerInv
    <3> QED BY <2>2, <3>1, ConnMoves DEF PointerHere
  <2> QED BY <2>1, <2>2, <2>3, MouseStays DEF PointerInv
<1> QED BY <1>2, <1>3

\* The guest's pointer is where the last mouse or touch event was, with the
\* buttons the client means, unless a move waits for its timer: whatever mouse,
\* wheel, gestures and timer do in between (RFB._handleMouse and
\* _handleGesture). And no button stays down that neither the mouse nor a
\* gesture under way holds, but one let go of where the canvas heard nothing.
THEOREM PointerAgreesAlways == Spec => []PointerAgrees
<1> DEFINE Inv == PageInv /\ GesturesInv /\ PointerInv
<1>1. Init => Inv BY PageInit, GesturesInitially, PointerInitially
<1>2. Inv /\ [Next]_vars => Inv' BY PageNext, GesturesStep, PointerStep
<1>3. PointerInv /\ GesturesStartOver => PointerAgrees
  BY DEF PointerInv, PointerHere, PointerAgrees, Report, Nothing
<1>4. Inv => PointerInv OBVIOUS
<1> QED BY <1>1, <1>2, <1>3, <1>4, GesturesStartOverAlways, PTL DEF Spec
-----------------------------------------------------------------------------
\* The keyboard: what its operations do to the state they pass through. What a
\* key may mean tells which key it is.
Means(c) ==
    CASE c = "KeyA"     -> {"a", "A", Null}
      [] c = "Unidentified" -> {c, Null}
      [] c = "AltRight" -> {"Alt_R", "ISO_Level3_Shift"}
      [] c = "MetaLeft" -> {"Alt_L", "Super_L"}
      [] OTHER          -> {c}

Bypassed == {"CapsLock", "ControlLeft", "AltLeft", "Delete"}
Syms == keyboard.codes \cup Levels \cup Bypassed \cup {NoSym}
Lit == BOOLEAN
KeyStates ==
    [down : [keyboard.codes -> Syms], held : SUBSET (Syms \ {Null}), caps : BOOLEAN, remote : BOOLEAN \cup {NoSym},
     leds : Seq(Lit), overruled : SUBSET keyboard.codes]

\* The last lamp under way is that of the guest's caps lock, and so is the lamp
\* that is known when none is.
LampsIn(s) ==
    keyboard.lamps =>
        /\ s.leds # <<>> => s.leds[Len(s.leds)] = s.caps
        /\ s.leds = <<>> /\ s.remote # NoSym => s.remote = s.caps

KeysOK(s) ==
    /\ keyboard \in Keyboards /\ s \in KeyStates
    /\ \A c \in keyboard.codes : s.down[c] \in Means(c) \cup {NoSym}
    /\ LampsIn(s)

IdOf(code, keysym) == IF keyboard.scancodes /\ HasScancode(code) THEN code ELSE keysym
Down(s) == {c \in keyboard.codes : s.down[c] # NoSym}

\* The guest holds the keys of the list, but for the names in X, which it may
\* hold besides, and the keys in Y, which it may not hold; and but for keys that
\* have no name.
HeldBut(s, X, Y) ==
    /\ \A x \in s.held : x \in X \/ \E c \in Down(s) : x = IdOf(c, s.down[c])
    /\ \A c \in Down(s) : c \in s.overruled \/ c \in Y \/ IdOf(c, s.down[c]) \in s.held \cup {Null}

\* What the guest is told of a key by that name.
NamedAs(id) == {id} \ {Null}

LEMMA MeansApart ==
    ASSUME keyboard \in Keyboards, NEW c \in keyboard.codes
    PROVE  /\ c \in Syms /\ Means(c) \subseteq Syms /\ NoSym \notin Means(c)
           /\ \A x \in Means(c) \cup {c} : x \notin Levels => x = c
           /\ \A d \in keyboard.codes : \A x \in (Means(c) \cup {c}) \ {Null} : x \in Means(d) \cup {d} => c = d
<1>1. keyboard.codes \cap Levels = {} /\ NoSym \notin keyboard.codes /\ NoSym \notin Levels
  BY KeyboardsAssumption
<1>2. \A d : \/ d = "KeyA" /\ Means(d) = {"a", "A", Null}
             \/ d = "Unidentified" /\ Means(d) = {d, Null}
             \/ d = "AltRight" /\ Means(d) = {"Alt_R", "ISO_Level3_Shift"}
             \/ d = "MetaLeft" /\ Means(d) = {"Alt_L", "Super_L"}
             \/ d \notin {"KeyA", "Unidentified", "AltRight", "MetaLeft"} /\ Means(d) = {d}
  BY DEF Means
<1>3. {Null, "a", "A", "Alt_L", "Alt_R", "Super_L", "ISO_Level3_Shift"} = Levels BY DEF Levels
<1>4. \A d \in keyboard.codes : \A x \in Means(d) \cup {d} : x \notin Levels => x = d
  BY <1>2, <1>3
<1>5. Means(c) \subseteq Syms BY <1>2, <1>3 DEF Syms
<1>6. NoSym \notin Means(c) BY <1>1, <1>4
<1>7. ASSUME NEW d \in keyboard.codes, NEW x \in (Means(c) \cup {c}) \ {Null}, x \in Means(d) \cup {d} PROVE c = d
  <2>1. CASE x \notin Levels BY <1>4, <1>7, <2>1
  <2>2. CASE x \in Levels
    <3>1. x \in Means(c) /\ x \in Means(d) BY <1>1, <1>7, <2>2
    <3>2. x # c /\ x # d BY <1>1, <2>2
    <3> QED BY <1>2, <3>1, <3>2
  <2> QED BY <2>1, <2>2
<1> QED BY <1>4, <1>5, <1>6, <1>7 DEF Syms

LEMMA IdIsKeys ==
    ASSUME keyboard \in Keyboards, NEW c \in keyboard.codes, NEW x \in Means(c)
    PROVE  IdOf(c, x) \in Means(c) \cup {c} /\ IdOf(c, x) \in Syms
BY MeansApart DEF IdOf

\* One key for the guest, as it goes down or up.
KeyDown(code, keysym, capslock) == Key(code, keysym, TRUE, capslock)
KeyUp(code, keysym, capslock) == Key(code, keysym, FALSE, capslock)

LEMMA KeyIs ==
    \A code, keysym, capslock :
        /\ KeyDown(code, keysym, capslock).code = code /\ KeyUp(code, keysym, capslock).code = code
        /\ KeyDown(code, keysym, capslock).keysym = keysym /\ KeyUp(code, keysym, capslock).keysym = keysym
        /\ KeyDown(code, keysym, capslock).down /\ ~KeyUp(code, keysym, capslock).down
        /\ KeyDown(code, keysym, capslock).capslock = capslock
BY DEF KeyDown, KeyUp, Key

LEMMA SendKeyDown ==
    ASSUME NEW s, KeysOK(s), NEW code, NEW keysym, NEW capslock, IdOf(code, keysym) \in Syms,
           conn = "connected", NEW r, r = SendKey(s, KeyDown(code, keysym, capslock))
    PROVE  /\ KeysOK(r) /\ r.down = s.down /\ r.remote = s.remote /\ r.overruled = s.overruled
           /\ r.held = s.held \cup NamedAs(IdOf(code, keysym))
           /\ IdOf(code, keysym) = "CapsLock" /\ "CapsLock" \notin s.held => r.caps # s.caps
           /\ IdOf(code, keysym) # "CapsLock" => r.caps = s.caps
<1> DEFINE id == IdOf(code, keysym)
<1>0. s \in KeyStates /\ LampsIn(s) BY DEF KeysOK
<1>1. CASE id = Null
  <2>1. r = s BY <1>1 DEF SendKey, IdOf, KeyDown, Key
  <2>2. NamedAs(id) = {} BY <1>1 DEF NamedAs
  <2>3. id # "CapsLock" BY <1>1 DEF Null
  <2> QED BY <2>1, <2>2, <2>3
<1>2. CASE id # Null
  <2> DEFINE toggles == id = "CapsLock" /\ id \notin s.held
             has  == s.held \cup NamedAs(id)
             lit  == ~s.caps
             caps1 == IF toggles THEN lit ELSE s.caps
             leds1 == IF toggles /\ keyboard.lamps THEN Append(s.leds, lit) ELSE s.leds
  <2>1. has = s.held \cup {id} BY <1>2 DEF NamedAs
  <2>2. r = [s EXCEPT !.held = has, !.caps = caps1, !.leds = leds1]
    <3> HIDE DEF has
    <3> QED BY <1>2, <2>1 DEF SendKey, GuestKey, IdOf, KeyDown, Key
  <2>3. has \in SUBSET (Syms \ {Null}) BY <1>0, <1>2, <2>1 DEF KeyStates
  <2>4. lit \in BOOLEAN /\ caps1 \in BOOLEAN /\ lit # s.caps BY <1>0 DEF KeyStates
  <2>6. s.leds \in Seq(Lit) /\ lit \in Lit BY <1>0, <2>4 DEF KeyStates, Lit
  <2> HIDE DEF lit
  <2>7. leds1 \in Seq(Lit) BY <2>6
  <2>8. toggles /\ keyboard.lamps => leds1 # <<>> /\ leds1[Len(leds1)] = lit BY <2>6
  <2> HIDE DEF has, leds1
  <2>9. /\ r \in KeyStates /\ r.down = s.down /\ r.remote = s.remote /\ r.overruled = s.overruled
        /\ r.held = has /\ r.caps = caps1 /\ r.leds = leds1
    <3> HIDE DEF caps1
    <3> QED BY <1>0, <2>2, <2>3, <2>4, <2>7 DEF KeyStates
  <2>10. LampsIn(r)
    <3>1. CASE toggles BY <2>8, <2>9, <3>1 DEF LampsIn
    <3>2. CASE ~toggles
      <4>1. leds1 = s.leds BY <3>2 DEF leds1
      <4> QED BY <1>0, <2>9, <3>2, <4>1 DEF LampsIn
    <3> QED BY <3>1, <3>2
  <2>11. KeysOK(r) BY <2>9, <2>10 DEF KeysOK
  <2> QED BY <2>4, <2>9, <2>11 DEF has
<1> QED BY <1>1, <1>2

LEMMA SendKeyUp ==
    ASSUME NEW s, KeysOK(s), NEW code, NEW keysym, NEW capslock,
           conn = "connected", NEW r, r = SendKey(s, KeyUp(code, keysym, capslock))
    PROVE  /\ KeysOK(r) /\ r.down = s.down /\ r.remote = s.remote /\ r.overruled = s.overruled
           /\ r.held = s.held \ {IdOf(code, keysym)} /\ r.caps = s.caps
<1> DEFINE id == IdOf(code, keysym)
           has == s.held \ {id}
           caps1 == s.caps
           leds1 == s.leds
<1>1. s \in KeyStates /\ LampsIn(s) BY DEF KeysOK
<1>2. CASE id = Null
  <2>1. r = s BY <1>2 DEF SendKey, IdOf, KeyUp, Key
  <2>2. has = s.held BY <1>1, <1>2 DEF KeyStates
  <2> QED BY <2>1, <2>2
<1>3. CASE id # Null
  <2>2. r = [s EXCEPT !.held = has, !.caps = caps1, !.leds = leds1]
    BY <1>3 DEF SendKey, GuestKey, IdOf, KeyUp, Key
  <2>3. has \in SUBSET (Syms \ {Null}) /\ caps1 \in BOOLEAN /\ leds1 \in Seq(Lit) BY <1>1 DEF KeyStates
  <2> HIDE DEF has
  <2>4. /\ r \in KeyStates /\ r.down = s.down /\ r.remote = s.remote /\ r.overruled = s.overruled
        /\ r.held = has /\ r.caps = s.caps /\ r.leds = s.leds
    <3> HIDE DEF caps1, leds1
    <3>1. /\ r \in KeyStates /\ r.down = s.down /\ r.remote = s.remote /\ r.overruled = s.overruled
          /\ r.held = has /\ r.caps = caps1 /\ r.leds = leds1
      BY <1>1, <2>2, <2>3 DEF KeyStates
    <3> QED BY <3>1 DEF caps1, leds1
  <2>5. LampsIn(r) BY <1>1, <2>4 DEF LampsIn
  <2> QED BY <1>1, <2>4, <2>5 DEF KeysOK, has
<1> QED BY <1>2, <1>3

LEMMA ForgetsLamp ==
    ASSUME NEW s, KeysOK(s), NEW r, r = [s EXCEPT !.remote = NoSym]
    PROVE  /\ KeysOK(r) /\ r.down = s.down /\ r.held = s.held /\ r.caps = s.caps /\ r.leds = s.leds
           /\ r.overruled = s.overruled /\ r.remote = NoSym
<1>1. s \in KeyStates /\ LampsIn(s) BY DEF KeysOK
<1>2. /\ r \in KeyStates /\ r.down = s.down /\ r.held = s.held /\ r.caps = s.caps /\ r.leds = s.leds
      /\ r.overruled = s.overruled /\ r.remote = NoSym
  BY <1>1 DEF KeyStates
<1>3. LampsIn(r) BY <1>1, <1>2 DEF LampsIn
<1> QED BY <1>2, <1>3 DEF KeysOK

LEMMA OverrulingUp ==
    ASSUME NEW s, KeysOK(s), NEW code, NEW keysym, NEW capslock,
           NEW r, r = Overruling(s, KeyUp(code, keysym, capslock))
    PROVE  /\ KeysOK(r) /\ r.down = s.down /\ r.held = s.held /\ r.caps = s.caps /\ r.remote = s.remote
           /\ s.overruled \subseteq r.overruled /\ (code \in Down(s) => code \in r.overruled)
<1> DEFINE more == s.overruled \cup {code}
           t == [s EXCEPT !.overruled = more]
<1>1. s \in KeyStates /\ LampsIn(s) BY DEF KeysOK
<1>2. DOMAIN s.down = keyboard.codes /\ s.overruled \subseteq keyboard.codes BY <1>1 DEF KeyStates
<1>3. r = IF code \in Down(s) THEN t ELSE s
  BY <1>2 DEF Overruling, IsDown, Down, KeyUp, Key
<1>4. CASE code \in Down(s)
  <2>1. more \in SUBSET keyboard.codes /\ code \in more /\ s.overruled \subseteq more
    BY <1>2, <1>4 DEF Down
  <2> HIDE DEF more
  <2>2. /\ t \in KeyStates /\ t.down = s.down /\ t.held = s.held /\ t.caps = s.caps /\ t.leds = s.leds
        /\ t.remote = s.remote /\ t.overruled = more
    BY <1>1, <2>1 DEF KeyStates
  <2>3. r = t BY <1>3, <1>4
  <2> HIDE DEF t
  <2>4. LampsIn(t) BY <1>1, <2>2 DEF LampsIn
  <2> QED BY <2>1, <2>2, <2>3, <2>4 DEF KeysOK
<1>5. CASE code \notin Down(s) BY <1>3, <1>5
<1> QED BY <1>4, <1>5

LEMMA OverrulingDown ==
    \A s, code, keysym, capslock : Overruling(s, KeyDown(code, keysym, capslock)) = s
BY KeyIs DEF Overruling

LEMMA HeldMore ==
    ASSUME NEW s, NEW r, NEW X, NEW Y, NEW I, HeldBut(s, X, Y),
           r.down = s.down, s.overruled \subseteq r.overruled, r.held = s.held \cup I
    PROVE  HeldBut(r, X \cup I, Y)
<1>1. Down(r) = Down(s) BY DEF Down
<1> QED BY <1>1 DEF HeldBut

LEMMA HeldLess ==
    ASSUME NEW s, NEW r, NEW X, NEW Y, NEW Z, NEW id, HeldBut(s, X, Y),
           r.down = s.down, s.overruled \subseteq r.overruled, r.held = s.held \ {id},
           \A c \in Down(s) : IdOf(c, s.down[c]) = id => c \in r.overruled \cup Z
    PROVE  HeldBut(r, X \ {id}, Y \cup Z)
<1>1. Down(r) = Down(s) BY DEF Down
<1> QED BY <1>1 DEF HeldBut

LEMMA HeldSame ==
    ASSUME NEW s, NEW r, NEW X, NEW Y, NEW W, HeldBut(s, X, Y), X \subseteq W,
           r.down = s.down, s.overruled \subseteq r.overruled, r.held = s.held
    PROVE  HeldBut(r, W, Y)
<1>1. Down(r) = Down(s) BY DEF Down
<1> QED BY <1>1 DEF HeldBut

\* A key that is sent behind the back of the list has a name of its own.
LEMMA OwnName ==
    ASSUME NEW s, KeysOK(s), NEW code \in Bypassed, NEW c \in Down(s), IdOf(c, s.down[c]) = code
    PROVE  c = code
<1>1. c \in keyboard.codes /\ s.down[c] \in Means(c) /\ keyboard \in Keyboards
  BY DEF KeysOK, Down
<1>2. code \in Means(c) \cup {c} BY <1>1, IdIsKeys
<1>3. code \notin Levels BY DEF Bypassed, Levels, Null
<1> QED BY <1>1, <1>2, <1>3, MeansApart

BypassDown(s, code) == Bypass(s, code, TRUE)
BypassUp(s, code) == Bypass(s, code, FALSE)

LEMMA BypassSends ==
    \A s, code :
        /\ BypassDown(s, code) = SendKey(s, KeyDown(code, code, NoSym))
        /\ BypassUp(s, code) = SendKey(Overruling(s, KeyUp(code, code, NoSym)), KeyUp(code, code, NoSym))
<1>1. \A s, code : BypassDown(s, code) = SendKey(Overruling(s, KeyDown(code, code, NoSym)), KeyDown(code, code, NoSym))
  BY DEF BypassDown, Bypass, KeyDown
<1>2. \A s, code : BypassUp(s, code) = SendKey(Overruling(s, KeyUp(code, code, NoSym)), KeyUp(code, code, NoSym))
  BY DEF BypassUp, Bypass, KeyUp
<1> QED BY <1>1, <1>2, OverrulingDown

LEMMA IdBypassed ==
    \A code \in Bypassed : IdOf(code, code) = code /\ code \in Syms /\ NamedAs(code) = {code}
BY DEF IdOf, Syms, NamedAs, Bypassed, Null

LEMMA BypassDownIs ==
    ASSUME NEW s, KeysOK(s), NEW code \in Bypassed, NEW r, r = BypassDown(s, code), conn = "connected"
    PROVE  /\ KeysOK(r) /\ r.down = s.down /\ r.remote = s.remote /\ s.overruled \subseteq r.overruled
           /\ r.held = s.held \cup {code}
           /\ code = "CapsLock" /\ "CapsLock" \notin s.held => r.caps # s.caps
           /\ code # "CapsLock" => r.caps = s.caps
           /\ \A X, Y : HeldBut(s, X, Y) => HeldBut(r, X \cup {code}, Y)
<1>1. r = SendKey(s, KeyDown(code, code, NoSym)) BY BypassSends
<1>2. /\ KeysOK(r) /\ r.down = s.down /\ r.remote = s.remote /\ r.overruled = s.overruled
      /\ r.held = s.held \cup {code}
      /\ code = "CapsLock" /\ "CapsLock" \notin s.held => r.caps # s.caps
      /\ code # "CapsLock" => r.caps = s.caps
  BY <1>1, IdBypassed, SendKeyDown
<1>3. ASSUME NEW X, NEW Y, HeldBut(s, X, Y) PROVE HeldBut(r, X \cup {code}, Y)
  BY <1>2, <1>3, HeldMore
<1> QED BY <1>2, <1>3

LEMMA BypassUpIs ==
    ASSUME NEW s, KeysOK(s), NEW code \in Bypassed, NEW r, r = BypassUp(s, code), conn = "connected"
    PROVE  /\ KeysOK(r) /\ r.down = s.down /\ r.remote = s.remote /\ s.overruled \subseteq r.overruled
           /\ r.held = s.held \ {code} /\ r.caps = s.caps
           /\ \A X, Y : HeldBut(s, X, Y) => HeldBut(r, X \ {code}, Y)
<1> DEFINE t == Overruling(s, KeyUp(code, code, NoSym))
<1>1. r = SendKey(t, KeyUp(code, code, NoSym)) BY BypassSends
<1>2. /\ KeysOK(t) /\ t.down = s.down /\ t.held = s.held /\ t.caps = s.caps /\ t.remote = s.remote
      /\ s.overruled \subseteq t.overruled /\ (code \in Down(s) => code \in t.overruled)
  BY OverrulingUp
<1> HIDE DEF t
<1>3. /\ KeysOK(r) /\ r.down = t.down /\ r.remote = t.remote /\ r.overruled = t.overruled
      /\ r.held = t.held \ {code} /\ r.caps = t.caps
  BY <1>1, <1>2, IdBypassed, SendKeyUp
<1>4. ASSUME NEW X, NEW Y, HeldBut(s, X, Y) PROVE HeldBut(r, X \ {code}, Y)
  <2>1. \A c \in Down(s) : IdOf(c, s.down[c]) = code => c \in r.overruled \cup {}
    BY <1>2, <1>3, OwnName
  <2>2. r.down = s.down /\ s.overruled \subseteq r.overruled /\ r.held = s.held \ {code}
    BY <1>2, <1>3
  <2>3. HeldBut(r, X \ {code}, Y \cup {}) BY ONLY <1>4, <2>1, <2>2, HeldLess
  <2>4. Y \cup {} = Y OBVIOUS
  <2> QED BY <2>3, <2>4
<1> QED BY <1>2, <1>3, <1>4

\* The fix of the caps lock.
FixedCaps(s) == BypassUp(BypassDown([s EXCEPT !.remote = NoSym], "CapsLock"), "CapsLock")

LEMMA FixIs ==
    ASSUME NEW s, KeysOK(s), conn = "connected", NEW r, r = FixedCaps(s)
    PROVE  /\ KeysOK(r) /\ r.down = s.down /\ r.remote = NoSym /\ s.overruled \subseteq r.overruled
           /\ r.held = s.held \ {"CapsLock"}
           /\ "CapsLock" \notin s.held => r.caps # s.caps
           /\ \A X, Y : HeldBut(s, X, Y) => HeldBut(r, X, Y)
<1> DEFINE f == [s EXCEPT !.remote = NoSym]
           t == BypassDown(f, "CapsLock")
<1>1. r = BypassUp(t, "CapsLock") BY DEF FixedCaps
<1>3. /\ KeysOK(f) /\ f.down = s.down /\ f.held = s.held /\ f.caps = s.caps
      /\ f.overruled = s.overruled /\ f.remote = NoSym
  BY ForgetsLamp
<1> HIDE DEF f
<1>4. "CapsLock" \in Bypassed BY DEF Bypassed
<1>5. /\ KeysOK(t) /\ t.down = f.down /\ t.remote = f.remote /\ f.overruled \subseteq t.overruled
      /\ t.held = f.held \cup {"CapsLock"}
      /\ "CapsLock" \notin f.held => t.caps # f.caps
      /\ \A X, Y : HeldBut(f, X, Y) => HeldBut(t, X \cup {"CapsLock"}, Y)
  BY <1>3, <1>4, BypassDownIs
<1> HIDE DEF t
<1>6. /\ KeysOK(r) /\ r.down = t.down /\ r.remote = t.remote /\ t.overruled \subseteq r.overruled
      /\ r.held = t.held \ {"CapsLock"} /\ r.caps = t.caps
      /\ \A X, Y : HeldBut(t, X, Y) => HeldBut(r, X \ {"CapsLock"}, Y)
  BY <1>1, <1>4, <1>5, BypassUpIs
<1>7. r.held = s.held \ {"CapsLock"} BY <1>3, <1>5, <1>6
<1>8. ASSUME NEW X, NEW Y, HeldBut(s, X, Y) PROVE HeldBut(r, X, Y)
  <2>1. HeldBut(f, X, Y) BY <1>3, <1>8, HeldSame
  <2>2. HeldBut(r, (X \cup {"CapsLock"}) \ {"CapsLock"}, Y) BY <1>5, <1>6, <2>1
  <2> QED BY <2>2, HeldSame
<1> QED BY <1>3, <1>5, <1>6, <1>7, <1>8

\* Before the session is up nothing is sent.
LEMMA BypassOff ==
    ASSUME NEW s, KeysOK(s), NEW code, conn # "connected", NEW r, r \in {BypassDown(s, code), BypassUp(s, code)}
    PROVE  /\ KeysOK(r) /\ r.down = s.down /\ r.held = s.held /\ s.overruled \subseteq r.overruled
<1>1. r \in {s, Overruling(s, KeyUp(code, code, NoSym))} BY BypassSends DEF SendKey
<1> QED BY <1>1, OverrulingUp

LEMMA FixOff ==
    ASSUME NEW s, KeysOK(s), conn # "connected", NEW r, r = FixedCaps(s)
    PROVE  KeysOK(r) /\ r.down = s.down /\ s.overruled \subseteq r.overruled /\ r.held = s.held
<1> DEFINE f == [s EXCEPT !.remote = NoSym]
           t == BypassDown(f, "CapsLock")
<1>1. r = BypassUp(t, "CapsLock") BY DEF FixedCaps
<1>3. KeysOK(f) /\ f.down = s.down /\ f.held = s.held /\ f.overruled = s.overruled
  BY ForgetsLamp
<1> HIDE DEF f
<1>4. KeysOK(t) /\ t.down = f.down /\ t.held = f.held /\ f.overruled \subseteq t.overruled
  BY <1>3, BypassOff
<1> HIDE DEF t
<1>5. KeysOK(r) /\ r.down = t.down /\ r.held = t.held /\ t.overruled \subseteq r.overruled
  <2>1. r \in {BypassDown(t, "CapsLock"), BypassUp(t, "CapsLock")} BY <1>1
  <2> QED BY <1>4, <2>1, BypassOff
<1> QED BY <1>3, <1>4, <1>5

\* RFB._handleKeyEvent, up to the key itself.
Readied(s, code, capslock) ==
    LET known == IF code = "CapsLock" THEN [s EXCEPT !.remote = NoSym] ELSE s
        wrong == NoSym \notin {known.remote, capslock} /\ known.remote # capslock
    IN IF wrong THEN FixedCaps(known) ELSE known

LEMMA OnKeyEventIs ==
    \A s, code, keysym, capslock :
        /\ OnKeyEvent(s, KeyDown(code, keysym, capslock)) =
              SendKey(Readied(s, code, capslock), KeyDown(code, keysym, capslock))
        /\ OnKeyEvent(s, KeyUp(code, keysym, capslock)) = SendKey(s, KeyUp(code, keysym, capslock))
<1>1. ASSUME NEW s, NEW code, NEW keysym, NEW capslock
      PROVE  OnKeyEvent(s, KeyDown(code, keysym, capslock)) =
                SendKey(Readied(s, code, capslock), KeyDown(code, keysym, capslock))
  BY DEF OnKeyEvent, Readied, FixedCaps, BypassUp, BypassDown, KeyDown, Key
<1>2. ASSUME NEW s, NEW code, NEW keysym, NEW capslock
      PROVE  OnKeyEvent(s, KeyUp(code, keysym, capslock)) = SendKey(s, KeyUp(code, keysym, capslock))
  BY KeyIs DEF OnKeyEvent
<1> QED BY <1>1, <1>2

LEMMA ReadiedIs ==
    ASSUME NEW s, KeysOK(s), NEW code, NEW capslock, NEW r, r = Readied(s, code, capslock)
    PROVE  /\ KeysOK(r) /\ r.down = s.down /\ s.overruled \subseteq r.overruled
           /\ conn # "connected" => r.held = s.held
           /\ conn = "connected" => \A X, Y : HeldBut(s, X, Y) => HeldBut(r, X, Y)
<1> DEFINE forgot == [s EXCEPT !.remote = NoSym]
           known == IF code = "CapsLock" THEN forgot ELSE s
           wrong == NoSym \notin {known.remote, capslock} /\ known.remote # capslock
<1>1. KeysOK(forgot) /\ forgot.down = s.down /\ forgot.held = s.held /\ forgot.overruled = s.overruled
  BY ForgetsLamp
<1>2. r = IF wrong THEN FixedCaps(known) ELSE known BY DEF Readied
<1> HIDE DEF forgot
<1>3. KeysOK(known) /\ known.down = s.down /\ known.held = s.held /\ s.overruled \subseteq known.overruled
  BY <1>1
<1> HIDE DEF known, wrong
<1>5. ASSUME NEW X, NEW Y, HeldBut(s, X, Y) PROVE HeldBut(known, X, Y)
  BY <1>3, <1>5, HeldSame
<1>6. CASE ~wrong BY <1>2, <1>3, <1>5, <1>6
<1>7. CASE wrong /\ conn = "connected"
  <2>1. KeysOK(r) /\ r.down = known.down /\ known.overruled \subseteq r.overruled
        /\ \A X, Y : HeldBut(known, X, Y) => HeldBut(r, X, Y)
    BY <1>2, <1>3, <1>7, FixIs
  <2> QED BY <1>3, <1>5, <1>7, <2>1
<1>8. CASE wrong /\ conn # "connected"
  <2>1. KeysOK(r) /\ r.down = known.down /\ r.held = known.held /\ known.overruled \subseteq r.overruled
    BY <1>2, <1>3, <1>8, FixOff
  <2> QED BY <1>3, <1>8, <2>1
<1> QED BY <1>6, <1>7, <1>8

\* A key goes down, or up.
LEMMA GoesDown ==
    ASSUME NEW s, KeysOK(s), NEW code, NEW keysym, NEW capslock, IdOf(code, keysym) \in Syms,
           conn = "connected", NEW r, r = OnKeyEvent(s, KeyDown(code, keysym, capslock))
    PROVE  /\ KeysOK(r) /\ r.down = s.down /\ s.overruled \subseteq r.overruled
           /\ IdOf(code, keysym) \in r.held \cup {Null}
           /\ \A X, Y : HeldBut(s, X, Y) => HeldBut(r, X \cup NamedAs(IdOf(code, keysym)), Y)
<1> DEFINE t == Readied(s, code, capslock)
<1>1. /\ KeysOK(t) /\ t.down = s.down /\ s.overruled \subseteq t.overruled
      /\ \A X, Y : HeldBut(s, X, Y) => HeldBut(t, X, Y)
  BY ReadiedIs
<1>2. r = SendKey(t, KeyDown(code, keysym, capslock)) BY OnKeyEventIs
<1> HIDE DEF t
<1>3. /\ KeysOK(r) /\ r.down = t.down /\ r.overruled = t.overruled
      /\ r.held = t.held \cup NamedAs(IdOf(code, keysym))
  BY <1>1, <1>2, SendKeyDown
<1>4. ASSUME NEW X, NEW Y, HeldBut(s, X, Y) PROVE HeldBut(r, X \cup NamedAs(IdOf(code, keysym)), Y)
  BY <1>1, <1>3, <1>4, HeldMore
<1>5. IdOf(code, keysym) \in r.held \cup {Null} BY <1>3 DEF NamedAs
<1> QED BY <1>1, <1>3, <1>4, <1>5

LEMMA GoesUp ==
    ASSUME NEW s, KeysOK(s), NEW code, NEW keysym, NEW capslock,
           conn = "connected", NEW r, r = OnKeyEvent(s, KeyUp(code, keysym, capslock))
    PROVE  /\ KeysOK(r) /\ r.down = s.down /\ r.overruled = s.overruled
           /\ r.held = s.held \ {IdOf(code, keysym)} /\ r.caps = s.caps /\ r.remote = s.remote
BY OnKeyEventIs, SendKeyUp

-----------------------------------------------------------------------------
\* The list of keys that are down, and what the guest is told of them.

Listed(s, code, sym) == [s EXCEPT !.down[code] = sym, !.overruled = @ \ {code}]
Lifted(s, code, keysym, capslock) == SendKeyEvent(s, KeyUp(code, keysym, capslock))
HeldOK(s) == HeldBut(s, {}, {})

LEMMA PressIs ==
    \A s, code, keysym, capslock :
        Press(s, code, keysym, capslock) =
            OnKeyEvent(Listed(s, code, keysym), KeyDown(code, keysym, capslock))
BY DEF Press, SendKeyEvent, Listed, KeyDown, Key

LEMMA LiftedIs ==
    \A s, code, keysym, capslock :
        Lifted(s, code, keysym, capslock) =
            IF IsDown(s, code) THEN OnKeyEvent(Listed(s, code, NoSym), KeyUp(code, keysym, capslock)) ELSE s
BY DEF Lifted, SendKeyEvent, Listed, KeyUp, Key

LEMMA TapIs ==
    \A s, code, keysym, capslock :
        Tap(s, code, keysym, capslock) =
            Lifted(Press(s, code, keysym, capslock), code, keysym, capslock)
BY DEF Tap, Lifted, KeyUp

LEMMA ReleaseIs ==
    \A s, code : Release(s, code) = Lifted(s, code, IF IsDown(s, code) THEN s.down[code] ELSE code, NoSym)
BY DEF Release, Lifted, KeyUp

LEMMA ListedIs ==
    ASSUME NEW s, KeysOK(s), NEW code \in keyboard.codes, NEW sym \in Means(code) \cup {NoSym},
           NEW r, r = Listed(s, code, sym)
    PROVE  /\ KeysOK(r) /\ r.down = [s.down EXCEPT ![code] = sym] /\ r.overruled = s.overruled \ {code}
           /\ r.held = s.held /\ r.caps = s.caps /\ r.remote = s.remote /\ r.leds = s.leds
<1> DEFINE down1 == [s.down EXCEPT ![code] = sym]
           over1 == s.overruled \ {code}
<1>1. s \in KeyStates /\ LampsIn(s) /\ keyboard \in Keyboards
      /\ \A c \in keyboard.codes : s.down[c] \in Means(c) \cup {NoSym}
  BY DEF KeysOK
<1>2. sym \in Syms BY <1>1, MeansApart DEF Syms
<1>3. s.down \in [keyboard.codes -> Syms] /\ over1 \in SUBSET keyboard.codes BY <1>1 DEF KeyStates
<1>4. down1 \in [keyboard.codes -> Syms] /\ \A c \in keyboard.codes : down1[c] \in Means(c) \cup {NoSym}
  BY <1>1, <1>2, <1>3
<1>5. r = [s EXCEPT !.down = down1, !.overruled = over1]
  BY <1>1 DEF Listed, KeyStates
<1> HIDE DEF down1, over1
<1>6. /\ r \in KeyStates /\ r.down = down1 /\ r.overruled = over1 /\ r.held = s.held /\ r.caps = s.caps
      /\ r.remote = s.remote /\ r.leds = s.leds
  BY <1>1, <1>3, <1>4, <1>5 DEF KeyStates
<1>7. LampsIn(r) BY <1>1, <1>6 DEF LampsIn
<1> QED BY <1>1, <1>4, <1>6, <1>7 DEF KeysOK, down1, over1

\* A key that goes down, or that is down and repeats.
LEMMA PressKeeps ==
    ASSUME NEW s, KeysOK(s), NEW code \in keyboard.codes, NEW sym \in Means(code), NEW capslock,
           s.down[code] \in {NoSym, sym}, conn = "connected", NEW r, r = Press(s, code, sym, capslock)
    PROVE  /\ KeysOK(r) /\ r.down = [s.down EXCEPT ![code] = sym]
           /\ HeldOK(s) => HeldOK(r)
<1> DEFINE t == Listed(s, code, sym)
<1>1. r = OnKeyEvent(t, KeyDown(code, sym, capslock)) BY PressIs
<1>2. KeysOK(t) /\ t.down = [s.down EXCEPT ![code] = sym] /\ t.overruled = s.overruled \ {code} /\ t.held = s.held
  BY ListedIs
<1> HIDE DEF t
<1>3. keyboard \in Keyboards /\ s.down \in [keyboard.codes -> Syms] BY DEF KeysOK, KeyStates
<1>4. IdOf(code, sym) \in Syms /\ NoSym # sym BY <1>3, IdIsKeys, MeansApart
<1>5. /\ KeysOK(r) /\ r.down = t.down /\ t.overruled \subseteq r.overruled
      /\ IdOf(code, sym) \in r.held \cup {Null}
      /\ \A X, Y : HeldBut(t, X, Y) => HeldBut(r, X \cup NamedAs(IdOf(code, sym)), Y)
  BY <1>1, <1>2, <1>4, GoesDown
<1>6. ASSUME HeldOK(s) PROVE HeldOK(r)
  <2>1. /\ Down(t) = Down(s) \cup {code} /\ t.down[code] = sym
        /\ \A c \in Down(s) : t.down[c] = s.down[c]
    BY <1>2, <1>3, <1>4 DEF Down
  <2>2. HeldBut(t, {}, {code}) BY <1>2, <1>6, <2>1 DEF HeldOK, HeldBut
  <2>3. HeldBut(r, {} \cup NamedAs(IdOf(code, sym)), {code}) BY <1>5, <2>2
  <2>4. Down(r) = Down(t) /\ code \in Down(r) /\ r.down[code] = sym BY <1>5, <2>1 DEF Down
  <2> QED BY <1>5, <2>3, <2>4 DEF HeldOK, HeldBut, NamedAs
<1> QED BY <1>2, <1>5, <1>6

\* A key that goes up, as what it went down as: no other goes up with it.
LEMMA LiftKeeps ==
    ASSUME NEW s, KeysOK(s), NEW code \in Down(s), NEW capslock, conn = "connected",
           NEW r, r = Lifted(s, code, s.down[code], capslock)
    PROVE  /\ KeysOK(r) /\ r.down = [s.down EXCEPT ![code] = NoSym] /\ r.caps = s.caps /\ r.remote = s.remote
           /\ HeldOK(s) => HeldOK(r)
<1> DEFINE t == Listed(s, code, NoSym)
           id == IdOf(code, s.down[code])
<1>0. /\ keyboard \in Keyboards /\ s.down \in [keyboard.codes -> Syms] /\ code \in keyboard.codes
      /\ s.down[code] # NoSym
      /\ \A c \in Down(s) : c \in keyboard.codes /\ s.down[c] \in Means(c)
  BY DEF KeysOK, KeyStates, Down
<1>1. r = OnKeyEvent(t, KeyUp(code, s.down[code], capslock))
  BY <1>0, LiftedIs DEF IsDown
<1>2. /\ KeysOK(t) /\ t.down = [s.down EXCEPT ![code] = NoSym] /\ t.overruled = s.overruled \ {code}
      /\ t.held = s.held /\ t.caps = s.caps /\ t.remote = s.remote
  <2>1. NoSym \in Means(code) \cup {NoSym} /\ t = Listed(s, code, NoSym) OBVIOUS
  <2> HIDE DEF t
  <2>2. KeysOK(s) /\ code \in keyboard.codes BY <1>0
  <2> QED BY ONLY <2>1, <2>2, ListedIs
<1> HIDE DEF t
<1>3. /\ KeysOK(r) /\ r.down = t.down /\ r.overruled = t.overruled
      /\ r.held = t.held \ {id} /\ r.caps = t.caps /\ r.remote = t.remote
  BY <1>1, <1>2, GoesUp
<1>4. ASSUME HeldOK(s) PROVE HeldOK(r)
  <2>1. Down(r) = Down(s) \ {code} /\ \A c \in Down(r) : r.down[c] = s.down[c]
    BY <1>0, <1>2, <1>3 DEF Down
  <2>2. \A c \in Down(s) : IdOf(c, s.down[c]) = id => c = code \/ id = Null
    <3>1. \A c \in Down(s) : IdOf(c, s.down[c]) \in Means(c) \cup {c} BY <1>0, IdIsKeys
    <3> QED BY <1>0, <3>1, MeansApart
  <2> HIDE DEF id
  <2>3. r.held = s.held \ {id} /\ r.overruled = s.overruled \ {code} BY <1>2, <1>3
  <2>4. \A x \in r.held : \E c \in Down(r) : x = IdOf(c, r.down[c])
    <3>1. TAKE x \in r.held
    <3>2. PICK c \in Down(s) : x = IdOf(c, s.down[c]) BY <1>4, <2>3 DEF HeldOK, HeldBut
    <3>3. c # code BY <2>3, <3>1, <3>2 DEF id
    <3> QED BY <2>1, <3>2, <3>3
  <2>5. \A c \in Down(r) : c \in r.overruled \/ IdOf(c, r.down[c]) \in r.held \cup {Null}
    BY <1>4, <2>1, <2>2, <2>3 DEF HeldOK, HeldBut
  <2> QED BY <2>4, <2>5 DEF HeldOK, HeldBut
<1> QED BY <1>2, <1>3, <1>4

LEMMA TapKeeps ==
    ASSUME NEW s, KeysOK(s), NEW code \in keyboard.codes, NEW sym \in Means(code), NEW capslock,
           s.down[code] \in {NoSym, sym}, conn = "connected", NEW r, r = Tap(s, code, sym, capslock)
    PROVE  /\ KeysOK(r) /\ r.down = [s.down EXCEPT ![code] = NoSym]
           /\ HeldOK(s) => HeldOK(r)
           /\ r.caps = Press(s, code, sym, capslock).caps
<1> DEFINE t == Press(s, code, sym, capslock)
<1>0. keyboard \in Keyboards /\ s.down \in [keyboard.codes -> Syms] BY DEF KeysOK, KeyStates
<1>1. KeysOK(t) /\ t.down = [s.down EXCEPT ![code] = sym] /\ (HeldOK(s) => HeldOK(t))
  BY PressKeeps
<1>2. r = Lifted(t, code, sym, capslock) BY TapIs
<1> HIDE DEF t
<1>3. sym # NoSym BY <1>0, MeansApart
<1>4. code \in Down(t) /\ t.down[code] = sym BY <1>0, <1>1, <1>3 DEF Down
<1>5. KeysOK(r) /\ r.down = [t.down EXCEPT ![code] = NoSym] /\ r.caps = t.caps /\ (HeldOK(t) => HeldOK(r))
  <2>1. r = Lifted(t, code, t.down[code], capslock) BY <1>2, <1>4
  <2>2. KeysOK(t) /\ code \in Down(t) /\ conn = "connected" BY <1>1, <1>4
  <2> QED BY ONLY <2>1, <2>2, LiftKeeps
<1>6. r.down = [s.down EXCEPT ![code] = NoSym] BY <1>0, <1>1, <1>5
<1> QED BY <1>1, <1>5, <1>6 DEF t

LEMMA ReleaseKeeps ==
    ASSUME NEW s, KeysOK(s), NEW code, conn = "connected", NEW r, r = Release(s, code)
    PROVE  /\ KeysOK(r) /\ (HeldOK(s) => HeldOK(r)) /\ Down(r) = Down(s) \ {code}
<1>0. keyboard \in Keyboards /\ s.down \in [keyboard.codes -> Syms] BY DEF KeysOK, KeyStates
<1>1. IsDown(s, code) <=> code \in Down(s) BY <1>0 DEF IsDown, Down
<1>2. CASE code \in Down(s)
  <2>1. r = Lifted(s, code, s.down[code], NoSym) BY <1>1, <1>2, ReleaseIs
  <2>2. KeysOK(r) /\ r.down = [s.down EXCEPT ![code] = NoSym] /\ (HeldOK(s) => HeldOK(r))
    BY <1>2, <2>1, LiftKeeps
  <2>3. Down(r) = Down(s) \ {code} BY <1>0, <2>2 DEF Down
  <2> QED BY <2>2, <2>3
<1>3. CASE code \notin Down(s)
  <2>1. r = s BY <1>1, <1>3, ReleaseIs, LiftedIs
  <2> QED BY <1>3, <2>1
<1> QED BY <1>2, <1>3

-----------------------------------------------------------------------------
\* The handlers.

\* The state they leave behind.
LEMMA Becoming ==
    ASSUME NEW r, KeysOK(r), Become(r), keyboard' = keyboard
    PROVE  /\ KeysOK(State)' /\ (HeldOK(r) => HeldOK(State)') /\ Holding' = Down(r)
           /\ guestCaps' = r.caps
<1>1. /\ downList' = r.down /\ guestHeld' = r.held /\ guestCaps' = r.caps
      /\ remoteCaps' = r.remote /\ leds' = r.leds /\ overruled' = r.overruled
  BY DEF Become
<1>2. r \in KeyStates BY DEF KeysOK
<1>3. State' = r
  <2>1. State' = [down |-> r.down, held |-> r.held, caps |-> r.caps,
                  remote |-> r.remote, leds |-> r.leds, overruled |-> r.overruled]
    BY <1>1 DEF State
  <2> QED BY <1>2, <2>1 DEF KeyStates
<1>4. KeysOK(State)' = KeysOK(r) BY <1>3 DEF KeysOK, KeyStates, LampsIn, Syms
<1>5. HeldOK(State)' = HeldOK(r) BY <1>3 DEF HeldOK, HeldBut, IdOf, Down
<1>6. Holding' = Down(r) BY <1>1 DEF Holding, Down
<1> QED BY <1>1, <1>4, <1>5, <1>6

Ctrl == IF armed THEN {"ControlLeft"} ELSE {}

LEMMA MeansItself == "ControlLeft" \in Means("ControlLeft") /\ Means("ControlLeft") = {"ControlLeft"}
    /\ "CapsLock" \in Means("CapsLock") /\ Means("CapsLock") = {"CapsLock"}
BY DEF Means

LEMMA AfterCtrlKeeps ==
    ASSUME KeysOK(State), armed => "ControlLeft" \in keyboard.codes, conn = "connected", NEW capslock,
           NEW s, s = State \/ (armed /\ s = Press(State, "ControlLeft", "ControlLeft", capslock))
    PROVE  KeysOK(s) /\ (HeldOK(State) => HeldOK(s)) /\ Down(State) \subseteq Down(s)
           /\ Down(s) \subseteq Down(State) \cup Ctrl
<1>1. CASE s = State BY <1>1
<1>2. CASE armed /\ s = Press(State, "ControlLeft", "ControlLeft", capslock)
  <2>1. "ControlLeft" \in keyboard.codes BY <1>2
  <2>2. State.down["ControlLeft"] \in {NoSym, "ControlLeft"} BY <2>1, MeansItself DEF KeysOK
  <2>3. KeysOK(s) /\ s.down = [State.down EXCEPT !["ControlLeft"] = "ControlLeft"] /\ (HeldOK(State) => HeldOK(s))
    BY <1>2, <2>1, <2>2, MeansItself, PressKeeps
  <2>4. State.down \in [keyboard.codes -> Syms] /\ "ControlLeft" # NoSym
    BY <2>1, MeansItself, MeansApart DEF KeysOK, KeyStates
  <2>5. Ctrl = {"ControlLeft"} BY <1>2 DEF Ctrl
  <2> QED BY <2>1, <2>3, <2>4, <2>5 DEF Down
<1> QED BY <1>1, <1>2

\* Keyboard._handleKeyDown
LEMMA KeyDownHandled ==
    ASSUME KeysOK(State), armed \in BOOLEAN, armed => "ControlLeft" \in keyboard.codes, conn = "connected",
           NEW code \in keyboard.codes, NEW keysym \in Means(code), NEW soon \in BOOLEAN, NEW capslock,
           HandleKeyDown(code, keysym, soon, capslock), keyboard' = keyboard
    PROVE  /\ KeysOK(State)' /\ (HeldOK(State) => HeldOK(State)')
           /\ Holding' \subseteq Down(State) \cup {code} \cup Ctrl
           /\ TapsOnly(code) => Holding' \subseteq Down(State) \cup Ctrl
           /\ armed' \in BOOLEAN /\ (armed' => code = "ControlLeft")
<1> DEFINE altGr == armed /\ code = "AltRight" /\ soon
           s     == IF armed /\ ~altGr THEN Press(State, "ControlLeft", "ControlLeft", capslock) ELSE State
           sym   == IF IsDown(s, code) THEN s.down[code] ELSE IF altGr THEN "ISO_Level3_Shift" ELSE keysym
           waits == On("windows") /\ code = "ControlLeft" /\ ~IsDown(s, code)
           none == code = "Unidentified" /\ sym = Null
           r == IF waits \/ none THEN s
                ELSE IF TapsOnly(code) THEN Tap(s, code, sym, capslock) ELSE Press(s, code, sym, capslock)
<1>1. armed' = waits /\ Become(r) BY DEF HandleKeyDown, AfterCtrl
<1>2. KeysOK(s) /\ (HeldOK(State) => HeldOK(s)) /\ Down(s) \subseteq Down(State) \cup Ctrl
  <2>1. s = State \/ (armed /\ s = Press(State, "ControlLeft", "ControlLeft", capslock)) OBVIOUS
  <2> HIDE DEF s
  <2> QED BY <2>1, AfterCtrlKeeps
<1>3. altGr => code = "AltRight" OBVIOUS
<1>4. armed' \in BOOLEAN /\ (armed' => code = "ControlLeft") BY <1>1
<1> HIDE DEF s, altGr
<1>5. s.down \in [keyboard.codes -> Syms] /\ s.down[code] \in Means(code) \cup {NoSym}
  BY <1>2 DEF KeysOK, KeyStates
<1>6. sym \in Means(code) /\ s.down[code] \in {NoSym, sym}
  <2>1. altGr => "ISO_Level3_Shift" \in Means(code) BY <1>3 DEF Means
  <2>2. IsDown(s, code) <=> s.down[code] # NoSym BY <1>5 DEF IsDown
  <2> QED BY <1>5, <2>1, <2>2
<1> HIDE DEF sym, waits, none
<1>7. /\ KeysOK(r) /\ (HeldOK(s) => HeldOK(r)) /\ Down(r) \subseteq Down(s) \cup {code}
      /\ TapsOnly(code) => Down(r) \subseteq Down(s)
  <2>1. CASE waits \/ none BY <1>2, <2>1
  <2>2. CASE ~(waits \/ none) /\ TapsOnly(code)
    <3>1. KeysOK(r) /\ r.down = [s.down EXCEPT ![code] = NoSym] /\ (HeldOK(s) => HeldOK(r))
      BY <1>2, <1>6, <2>2, TapKeeps
    <3> QED BY <1>5, <3>1 DEF Down
  <2>3. CASE ~(waits \/ none) /\ ~TapsOnly(code)
    <3>1. KeysOK(r) /\ r.down = [s.down EXCEPT ![code] = sym] /\ (HeldOK(s) => HeldOK(r))
      BY <1>2, <1>6, <2>3, PressKeeps
    <3> QED BY <1>5, <2>3, <3>1 DEF Down
  <2> QED BY <2>1, <2>2, <2>3
<1> HIDE DEF r
<1> QED BY <1>1, <1>2, <1>4, <1>7, Becoming

\* Keyboard._handleKeyUp
LEMMA KeyUpHandled ==
    ASSUME KeysOK(State), armed => "ControlLeft" \in keyboard.codes, conn = "connected",
           NEW code \in keyboard.codes, HandleKeyUp(code), keyboard' = keyboard
    PROVE  /\ KeysOK(State)' /\ (HeldOK(State) => HeldOK(State)')
           /\ Holding' \subseteq (Down(State) \cup Ctrl) \ {code}
           /\ On("windows") /\ code \in Shifts => Holding' \cap Shifts = {}
           /\ armed' = FALSE
<1> DEFINE s  == IF armed THEN Press(State, "ControlLeft", "ControlLeft", NoSym) ELSE State
           up == Release(s, code)
           right == Release(up, "ShiftRight")
           left == Release(right, "ShiftLeft")
           r == IF On("mac") /\ code = "CapsLock" THEN Tap(s, code, code, NoSym)
                ELSE IF On("windows") /\ code \in Shifts THEN left ELSE up
<1>1. armed' = FALSE /\ Become(r) BY DEF HandleKeyUp, AfterCtrl
<1>2. KeysOK(s) /\ (HeldOK(State) => HeldOK(s)) /\ Down(s) \subseteq Down(State) \cup Ctrl
  <2>1. s = State \/ (armed /\ s = Press(State, "ControlLeft", "ControlLeft", NoSym)) OBVIOUS
  <2> HIDE DEF s
  <2> QED BY <2>1, AfterCtrlKeeps
<1> HIDE DEF s
<1>3. KeysOK(up) /\ (HeldOK(s) => HeldOK(up)) /\ Down(up) = Down(s) \ {code}
  BY <1>2, ReleaseKeeps
<1> HIDE DEF up
<1>4. KeysOK(right) /\ (HeldOK(up) => HeldOK(right)) /\ Down(right) = Down(up) \ {"ShiftRight"}
  BY <1>3, ReleaseKeeps
<1> HIDE DEF right
<1>5. KeysOK(left) /\ (HeldOK(right) => HeldOK(left)) /\ Down(left) = Down(right) \ {"ShiftLeft"}
  BY <1>4, ReleaseKeeps
<1> HIDE DEF left
<1>6. /\ KeysOK(r) /\ (HeldOK(s) => HeldOK(r)) /\ Down(r) \subseteq Down(s) \ {code}
      /\ On("windows") /\ code \in Shifts => Down(r) \cap Shifts = {}
  <2>1. CASE On("mac") /\ code = "CapsLock"
    <3>1. s.down \in [keyboard.codes -> Syms] /\ s.down[code] \in Means(code) \cup {NoSym}
      BY <1>2 DEF KeysOK, KeyStates
    <3>2. code \in Means(code) /\ s.down[code] \in {NoSym, code} BY <2>1, <3>1, MeansItself
    <3>3. KeysOK(r) /\ r.down = [s.down EXCEPT ![code] = NoSym] /\ (HeldOK(s) => HeldOK(r))
      BY <1>2, <2>1, <3>2, TapKeeps
    <3>4. code \notin Shifts BY <2>1 DEF Shifts
    <3> QED BY <3>1, <3>3, <3>4 DEF Down
  <2>2. CASE ~(On("mac") /\ code = "CapsLock") /\ On("windows") /\ code \in Shifts
    <3>1. r = left BY <2>2
    <3> QED BY <1>3, <1>4, <1>5, <3>1 DEF Shifts
  <2>3. CASE ~(On("mac") /\ code = "CapsLock") /\ ~(On("windows") /\ code \in Shifts)
    BY <1>3, <2>3
  <2> QED BY <2>1, <2>2, <2>3
<1> HIDE DEF r
<1> QED BY <1>1, <1>2, <1>6, Becoming

-----------------------------------------------------------------------------
\* The caps lock a letter is typed under: before the fix the lamp is the
\* guest's, after it the guest's is the browser's.
Sure(s, capslock) == s.caps = capslock /\ s.remote \in {NoSym, capslock}
LampRight(s) == s.remote = s.caps /\ "CapsLock" \notin s.held

LEMMA ReadiedSure ==
    ASSUME NEW s, KeysOK(s), conn = "connected", NEW capslock, capslock \in BOOLEAN, NEW code, code # "CapsLock",
           LampRight(s) \/ Sure(s, capslock), NEW r, r = Readied(s, code, capslock)
    PROVE  Sure(r, capslock)
<1> DEFINE wrong == NoSym \notin {s.remote, capslock} /\ s.remote # capslock
<1>1. r = IF wrong THEN FixedCaps(s) ELSE s BY DEF Readied
<1>2. s.caps \in BOOLEAN /\ capslock # NoSym /\ s.caps # NoSym
  BY KeyboardsAssumption DEF KeysOK, KeyStates
<1>3. CASE Sure(s, capslock) BY <1>1, <1>3 DEF Sure
<1>4. CASE LampRight(s) /\ wrong
  <2>1. KeysOK(r) /\ r.remote = NoSym /\ r.caps # s.caps BY <1>1, <1>4, FixIs DEF LampRight
  <2>2. r.caps \in BOOLEAN BY <2>1 DEF KeysOK, KeyStates
  <2>3. s.caps # capslock BY <1>4 DEF LampRight
  <2>4. r.caps = capslock BY <1>2, <2>1, <2>2, <2>3
  <2> QED BY <2>1, <2>4 DEF Sure
<1>5. CASE LampRight(s) /\ ~wrong
  <2>1. s.remote = capslock BY <1>2, <1>5 DEF LampRight
  <2> QED BY <1>1, <1>5, <2>1 DEF LampRight, Sure
<1> QED BY <1>3, <1>4, <1>5

LEMMA PressSure ==
    ASSUME NEW s, KeysOK(s), conn = "connected", NEW capslock, capslock \in BOOLEAN,
           NEW code \in keyboard.codes, code \in {"KeyA", "ControlLeft"}, NEW sym \in Means(code),
           LampRight(s) \/ Sure(s, capslock), NEW r, r = Press(s, code, sym, capslock)
    PROVE  Sure(r, capslock)
<1> DEFINE t == Listed(s, code, sym)
           q == Readied(t, code, capslock)
<1>1. keyboard \in Keyboards BY DEF KeysOK
<1>2. IdOf(code, sym) # "CapsLock"
  <2>1. Means("KeyA") = {"a", "A", Null} BY DEF Means
  <2> QED BY <2>1, MeansItself DEF IdOf, Null
<1>0. t = Listed(s, code, sym) /\ sym \in Means(code) \cup {NoSym} OBVIOUS
<1> HIDE DEF t
<1>3. r = OnKeyEvent(t, KeyDown(code, sym, capslock)) BY <1>0, PressIs
<1>4. /\ KeysOK(t) /\ t.down = [s.down EXCEPT ![code] = sym] /\ t.overruled = s.overruled \ {code}
      /\ t.held = s.held /\ t.caps = s.caps /\ t.remote = s.remote /\ t.leds = s.leds
  BY <1>0, ListedIs
<1>5. LampRight(t) \/ Sure(t, capslock) BY <1>4 DEF LampRight, Sure
<1>6. KeysOK(q) BY <1>4, ReadiedIs
<1>7. Sure(q, capslock) BY <1>4, <1>5, ReadiedSure
<1>8. r = SendKey(q, KeyDown(code, sym, capslock)) BY <1>3, OnKeyEventIs
<1> HIDE DEF q
<1>9. IdOf(code, sym) \in Syms BY <1>1, IdIsKeys
<1>10. r.remote = q.remote /\ r.caps = q.caps BY <1>2, <1>6, <1>8, <1>9, SendKeyDown
<1> QED BY <1>7, <1>10 DEF Sure

LEMMA TapSure ==
    ASSUME NEW s, KeysOK(s), NEW code \in keyboard.codes, NEW sym \in Means(code), NEW capslock,
           s.down[code] \in {NoSym, sym}, conn = "connected", Sure(Press(s, code, sym, capslock), capslock)
    PROVE  Tap(s, code, sym, capslock).caps = capslock
<1> DEFINE tap == Tap(s, code, sym, capslock)
<1>1. tap = Tap(s, code, sym, capslock) OBVIOUS
<1> HIDE DEF tap
<1>2. /\ KeysOK(tap) /\ tap.down = [s.down EXCEPT ![code] = NoSym]
      /\ HeldOK(s) => HeldOK(tap)
      /\ tap.caps = Press(s, code, sym, capslock).caps
  BY <1>1, TapKeeps
<1> QED BY <1>1, <1>2 DEF Sure

LEMMA TypedRight ==
    ASSUME KeysOK(State), armed => "ControlLeft" \in keyboard.codes, conn = "connected",
           keyboard.lamps, leds = <<>>, remoteCaps # NoSym, "CapsLock" \notin guestHeld,
           "KeyA" \in keyboard.codes, NEW keysym \in Means("KeyA"), NEW soon \in BOOLEAN, NEW capslock, capslock \in BOOLEAN,
           HandleKeyDown("KeyA", keysym, soon, capslock), keyboard' = keyboard
    PROVE  guestCaps' = capslock
<1> DEFINE s     == IF armed THEN Press(State, "ControlLeft", "ControlLeft", capslock) ELSE State
           sym   == IF IsDown(s, "KeyA") THEN s.down["KeyA"] ELSE keysym
           r == IF TapsOnly("KeyA") THEN Tap(s, "KeyA", sym, capslock) ELSE Press(s, "KeyA", sym, capslock)
<1>1. guestCaps' = r.caps BY DEF HandleKeyDown, AfterCtrl, Become
<1>2. LampRight(State)
  <2>1. State.leds = leds /\ State.remote = remoteCaps /\ State.held = guestHeld BY DEF State
  <2> QED BY <2>1 DEF KeysOK, LampsIn, LampRight
<1>3. KeysOK(s)
  <2>1. s = State \/ (armed /\ s = Press(State, "ControlLeft", "ControlLeft", capslock)) OBVIOUS
  <2> HIDE DEF s
  <2> QED BY <2>1, AfterCtrlKeeps
<1>4. LampRight(s) \/ Sure(s, capslock)
  <2>1. CASE armed
    <3>1. s = Press(State, "ControlLeft", "ControlLeft", capslock) BY <2>1
    <3>2. "ControlLeft" \in keyboard.codes \cap {"KeyA", "ControlLeft"} BY <2>1
    <3> HIDE DEF s
    <3> QED BY <1>2, <3>1, <3>2, MeansItself, PressSure
  <2>2. CASE ~armed BY <1>2, <2>2
  <2> QED BY <2>1, <2>2
<1> HIDE DEF s
<1>5. s.down \in [keyboard.codes -> Syms] /\ s.down["KeyA"] \in Means("KeyA") \cup {NoSym}
  BY <1>3 DEF KeysOK, KeyStates
<1>6. sym \in Means("KeyA") /\ s.down["KeyA"] \in {NoSym, sym}
  <2>1. IsDown(s, "KeyA") <=> s.down["KeyA"] # NoSym BY <1>5 DEF IsDown
  <2> QED BY <1>5, <2>1
<1> HIDE DEF sym
<1>7. "KeyA" \in keyboard.codes \cap {"KeyA", "ControlLeft"} OBVIOUS
<1>8. Sure(Press(s, "KeyA", sym, capslock), capslock) BY <1>3, <1>4, <1>6, <1>7, PressSure
<1>9. Tap(s, "KeyA", sym, capslock).caps = capslock
  BY <1>3, <1>6, <1>8, TapSure
<1> QED BY <1>1, <1>8, <1>9 DEF Sure


-----------------------------------------------------------------------------
\* The keys that go behind the back of the list, and those of a client that is
\* no longer connected.

LEMMA PressOff ==
    ASSUME NEW s, KeysOK(s), NEW code \in keyboard.codes, NEW sym \in Means(code), NEW capslock,
           conn # "connected", NEW r, r = Press(s, code, sym, capslock)
    PROVE  KeysOK(r)
<1> DEFINE t == Listed(s, code, sym)
           q == Readied(t, code, capslock)
<1>0. t = Listed(s, code, sym) /\ sym \in Means(code) \cup {NoSym} OBVIOUS
<1>1. r = OnKeyEvent(t, KeyDown(code, sym, capslock)) BY PressIs
<1> HIDE DEF t
<1>2. /\ KeysOK(t) /\ t.down = [s.down EXCEPT ![code] = sym] /\ t.overruled = s.overruled \ {code}
      /\ t.held = s.held /\ t.caps = s.caps /\ t.remote = s.remote /\ t.leds = s.leds
  BY <1>0, ListedIs
<1>3. r = SendKey(q, KeyDown(code, sym, capslock)) BY <1>1, OnKeyEventIs
<1>4. KeysOK(q) BY <1>2, ReadiedIs
<1> HIDE DEF q
<1> QED BY <1>3, <1>4 DEF SendKey

\* What is sent behind its back leaves the list alone, and the guest as it was
\* when all of it, X, is up again.
Unlisted(s, o, X) == KeysOK(s) /\ s.down = o.down /\ (HeldOK(o) => HeldBut(s, X, {}))

LEMMA DownUnlisted ==
    ASSUME NEW s, NEW o, NEW X, Unlisted(s, o, X), NEW code \in Bypassed, conn = "connected"
    PROVE  Unlisted(BypassDown(s, code), o, X \cup {code})
<1> DEFINE r == BypassDown(s, code)
<1>1. r = BypassDown(s, code) OBVIOUS
<1> HIDE DEF r
<1>2. KeysOK(r) /\ r.down = s.down /\ (HeldBut(s, X, {}) => HeldBut(r, X \cup {code}, {}))
  BY <1>1, BypassDownIs DEF Unlisted
<1> QED BY <1>1, <1>2 DEF Unlisted

LEMMA UpUnlisted ==
    ASSUME NEW s, NEW o, NEW X, Unlisted(s, o, X), NEW code \in Bypassed, conn = "connected"
    PROVE  Unlisted(BypassUp(s, code), o, X \ {code})
<1> DEFINE r == BypassUp(s, code)
<1>1. r = BypassUp(s, code) OBVIOUS
<1> HIDE DEF r
<1>2. KeysOK(r) /\ r.down = s.down /\ (HeldBut(s, X, {}) => HeldBut(r, X \ {code}, {}))
  BY <1>1, BypassUpIs DEF Unlisted
<1> QED BY <1>1, <1>2 DEF Unlisted

LEMMA CtrlAltDelKeeps ==
    ASSUME NEW s, KeysOK(s), conn = "connected",
           NEW a, a = BypassDown(s, "ControlLeft"), NEW b, b = BypassDown(a, "AltLeft"),
           NEW c, c = BypassDown(b, "Delete"), NEW d, d = BypassUp(c, "Delete"),
           NEW e, e = BypassUp(d, "AltLeft"), NEW r, r = BypassUp(e, "ControlLeft")
    PROVE  KeysOK(r) /\ r.down = s.down /\ (HeldOK(s) => HeldOK(r))
<1> DEFINE X1 == {"ControlLeft"}
           X2 == X1 \cup {"AltLeft"}
           X3 == X2 \cup {"Delete"}
           X4 == X3 \ {"Delete"}
           X5 == X4 \ {"AltLeft"}
           X6 == X5 \ {"ControlLeft"}
<1>0. "ControlLeft" \in Bypassed /\ "AltLeft" \in Bypassed /\ "Delete" \in Bypassed BY DEF Bypassed
<1>1. X6 = {} OBVIOUS
<1>2. {} \cup {"ControlLeft"} = X1 OBVIOUS
<1>3. Unlisted(s, s, {}) BY DEF Unlisted, HeldOK
<1>4. Unlisted(a, s, X1) BY <1>0, <1>2, <1>3, DownUnlisted
<1> HIDE DEF X1
<1>5. Unlisted(b, s, X2) BY <1>0, <1>4, DownUnlisted
<1> HIDE DEF X2
<1>6. Unlisted(c, s, X3) BY <1>0, <1>5, DownUnlisted
<1> HIDE DEF X3
<1>7. Unlisted(d, s, X4) BY <1>0, <1>6, UpUnlisted
<1> HIDE DEF X4
<1>8. Unlisted(e, s, X5) BY <1>0, <1>7, UpUnlisted
<1> HIDE DEF X5
<1>9. Unlisted(r, s, X6) BY <1>0, <1>8, UpUnlisted
<1> QED BY <1>1, <1>9 DEF Unlisted, HeldOK

\* The Ctrl of a pinch.
PinchDown(s) == PinchKey(s, TRUE)
PinchUp(s) == PinchKey(s, FALSE)

LEMMA PinchUpIs == \A s : PinchUp(s) = BypassUp(s, "ControlLeft")
<1> DEFINE lock(s) == IF s.remote = NoSym THEN NoSym ELSE ~s.remote
<1>1. \A s : PinchUp(s) = OnKeyEvent(Overruling(s, KeyUp("ControlLeft", "ControlLeft", lock(s))),
                                     KeyUp("ControlLeft", "ControlLeft", lock(s)))
  BY DEF PinchUp, PinchKey, KeyUp
<1> HIDE DEF lock
<1>2. \A s : PinchUp(s) = SendKey(Overruling(s, KeyUp("ControlLeft", "ControlLeft", lock(s))),
                                  KeyUp("ControlLeft", "ControlLeft", lock(s)))
  BY <1>1, OnKeyEventIs
<1>3. \A s, x, y : Overruling(s, KeyUp("ControlLeft", "ControlLeft", x)) =
                   Overruling(s, KeyUp("ControlLeft", "ControlLeft", y))
  BY DEF Overruling, KeyUp, Key
<1>4. \A s, x, y : SendKey(s, KeyUp("ControlLeft", "ControlLeft", x)) =
                   SendKey(s, KeyUp("ControlLeft", "ControlLeft", y))
  BY DEF SendKey, KeyUp, Key
<1> QED BY <1>2, <1>3, <1>4, BypassSends

LEMMA PinchDownKeeps ==
    ASSUME NEW s, KeysOK(s), NEW r, r = PinchDown(s)
    PROVE  /\ KeysOK(r) /\ r.down = s.down
           /\ conn # "connected" => r.held = s.held /\ s.overruled \subseteq r.overruled
           /\ conn = "connected" => (HeldOK(s) => HeldBut(r, {"ControlLeft"}, {}))
<1> DEFINE lock == IF s.remote = NoSym THEN NoSym ELSE ~s.remote
           q == Readied(s, "ControlLeft", lock)
<1>1. r = OnKeyEvent(Overruling(s, KeyDown("ControlLeft", "ControlLeft", lock)),
                     KeyDown("ControlLeft", "ControlLeft", lock))
  BY DEF PinchDown, PinchKey, KeyDown
<1> HIDE DEF lock
<1>2. r = OnKeyEvent(s, KeyDown("ControlLeft", "ControlLeft", lock)) BY <1>1, OverrulingDown
<1>3. r = SendKey(q, KeyDown("ControlLeft", "ControlLeft", lock)) BY <1>2, OnKeyEventIs
<1>4. CASE conn = "connected"
  <2>1. IdOf("ControlLeft", "ControlLeft") = "ControlLeft" /\ "ControlLeft" \in Syms
        /\ NamedAs("ControlLeft") = {"ControlLeft"}
    BY IdBypassed DEF Bypassed
  <2>2. KeysOK(r) /\ r.down = s.down /\ \A X, Y : HeldBut(s, X, Y) => HeldBut(r, X \cup {"ControlLeft"}, Y)
    BY <1>2, <1>4, <2>1, GoesDown
  <2>3. ASSUME HeldOK(s) PROVE HeldBut(r, {"ControlLeft"}, {})
    <3>1. HeldBut(r, {} \cup {"ControlLeft"}, {}) BY <2>2, <2>3 DEF HeldOK
    <3>2. {} \cup {"ControlLeft"} = {"ControlLeft"} OBVIOUS
    <3> QED BY <3>1, <3>2
  <2> QED BY <1>4, <2>2, <2>3
<1>5. CASE conn # "connected"
  <2>1. r = q BY <1>3, <1>5 DEF SendKey
  <2> QED BY <1>5, <2>1, ReadiedIs
<1> QED BY <1>4, <1>5

LEMMA PinchUpKeeps ==
    ASSUME NEW s, KeysOK(s), NEW r, r = PinchUp(s)
    PROVE  /\ KeysOK(r) /\ r.down = s.down
           /\ conn # "connected" => r.held = s.held /\ s.overruled \subseteq r.overruled
           /\ conn = "connected" /\ (HeldOK(s) \/ HeldBut(s, {"ControlLeft"}, {})) => HeldOK(r)
<1>1. r = BypassUp(s, "ControlLeft") BY PinchUpIs
<1>2. "ControlLeft" \in Bypassed BY DEF Bypassed
<1>3. CASE conn = "connected"
  <2>1. KeysOK(r) /\ r.down = s.down /\ \A X, Y : HeldBut(s, X, Y) => HeldBut(r, X \ {"ControlLeft"}, Y)
    BY <1>1, <1>2, <1>3, BypassUpIs
  <2>2. ASSUME HeldOK(s) \/ HeldBut(s, {"ControlLeft"}, {}) PROVE HeldOK(r)
    <3>1. {"ControlLeft"} \ {"ControlLeft"} = {} /\ {} \ {"ControlLeft"} = {} OBVIOUS
    <3> QED BY <2>1, <2>2, <3>1 DEF HeldOK
  <2> QED BY <1>3, <2>1, <2>2
<1>4. CASE conn # "connected"
  <2>1. r \in {BypassDown(s, "ControlLeft"), BypassUp(s, "ControlLeft")} BY <1>1
  <2> QED BY <1>4, <2>1, BypassOff
<1> QED BY <1>3, <1>4

LEMMA PinchKeysKeep ==
    ASSUME NEW s, KeysOK(s), NEW type, NEW g, NEW wheel, NEW r, r = PinchKeys(s, type, g, wheel)
    PROVE  KeysOK(r) /\ r.down = s.down /\ (HeldOK(s) => HeldOK(r))
<1> DEFINE t == IF wheel = "none" THEN s ELSE PinchDown(s)
<1>1. r = s \/ r = PinchUp(t) BY DEF PinchKeys, PinchUp, PinchDown
<1>2. CASE r = s BY <1>2
<1>3. CASE r = PinchUp(t)
  <2>1. /\ KeysOK(t) /\ t.down = s.down
        /\ conn # "connected" => t.held = s.held /\ s.overruled \subseteq t.overruled
        /\ conn = "connected" /\ HeldOK(s) => HeldOK(t) \/ HeldBut(t, {"ControlLeft"}, {})
    BY PinchDownKeeps
  <2> HIDE DEF t
  <2>2. /\ KeysOK(r) /\ r.down = t.down
        /\ conn # "connected" => r.held = t.held /\ t.overruled \subseteq r.overruled
        /\ conn = "connected" /\ (HeldOK(t) \/ HeldBut(t, {"ControlLeft"}, {})) => HeldOK(r)
    BY <1>3, <2>1, PinchUpKeeps
  <2>3. CASE conn = "connected" BY <2>1, <2>2, <2>3
  <2>4. CASE conn # "connected"
    <3>1. r.down = s.down /\ r.held = s.held /\ s.overruled \subseteq r.overruled BY <2>1, <2>2, <2>4
    <3>2. HeldOK(s) => HeldOK(r)
      <4>1. HeldBut(s, {}, {}) => HeldBut(r, {}, {}) BY <3>1, HeldSame
      <4> QED BY <4>1 DEF HeldOK
    <3> QED BY <2>2, <3>1, <3>2
  <2> QED BY <2>3, <2>4
<1> QED BY <1>1, <1>2, <1>3

-----------------------------------------------------------------------------
\* The user: what the client has down, or is about to, the user has down, or
\* has let go of where the canvas had no event of it.
Accounted ==
    pressed \cup unheard \cup (IF On("windows") /\ pressed \cap Shifts # {} THEN Shifts ELSE {})

KeyboardHere ==
    /\ KeysOK(State) /\ armed \in BOOLEAN
    /\ pressed \subseteq keyboard.codes /\ hostCaps \in BOOLEAN
    /\ focus \in {"canvas", "page", "elsewhere"} /\ mistyped = FALSE
    /\ armed => "ControlLeft" \in keyboard.codes

KeyboardInv ==
    /\ KeyboardHere
    /\ armed => conn \notin {"", "connecting"}
    /\ conn # "disconnected" => HeldOK(State) /\ Holding \cup Ctrl \subseteq Accounted

LEMMA HoldingIs == Down(State) = Holding
BY DEF Down, State, Holding

LEMMA CtrlIs ==
    /\ armed => Ctrl = {"ControlLeft"}
    /\ ~armed => Ctrl = {}
    /\ \A c : c \in Ctrl <=> armed /\ c = "ControlLeft"
BY DEF Ctrl

LEMMA CtrlBecomes ==
    /\ \A c : c \in Ctrl' <=> armed' /\ c = "ControlLeft"
BY DEF Ctrl

LEMMA KeysymsMean ==
    ASSUME NEW code PROVE Keysyms(code) \subseteq Means(code)
BY DEF Keysyms, Means

\* A key goes down, or repeats: it is down now.
LEMMA GoingDown ==
    ASSUME KeyboardInv, conn = "connected", conn' = conn, keyboard' = keyboard, focus' = focus,
           NEW code \in keyboard.codes, NEW keysym \in Keysyms(code), NEW soon \in BOOLEAN,
           NEW capslock, capslock \in BOOLEAN, HandleKeyDown(code, keysym, soon, capslock),
           hostCaps' = capslock, pressed' = pressed \cup {code}, unheard' \in {unheard, unheard \ {code}},
           Judged(code)
    PROVE  KeyboardInv'
<1>1. /\ KeysOK(State) /\ armed \in BOOLEAN /\ (armed => "ControlLeft" \in keyboard.codes)
      /\ pressed \subseteq keyboard.codes /\ focus \in {"canvas", "page", "elsewhere"} /\ mistyped = FALSE
      /\ HeldOK(State) /\ Holding \cup Ctrl \subseteq Accounted
  BY DEF KeyboardInv, KeyboardHere
<1>2. keysym \in Means(code) BY KeysymsMean
<1>3. /\ KeysOK(State)' /\ (HeldOK(State) => HeldOK(State)')
      /\ Holding' \subseteq Holding \cup {code} \cup Ctrl
      /\ armed' \in BOOLEAN /\ (armed' => code = "ControlLeft")
  BY <1>1, <1>2, KeyDownHandled, HoldingIs
<1>4. mistyped' = FALSE
  <2>1. CASE code = "KeyA" /\ keyboard.lamps /\ leds = <<>> /\ remoteCaps # NoSym /\ "CapsLock" \notin guestHeld
    <3>1. "KeyA" \in keyboard.codes /\ keysym \in Means("KeyA") /\ HandleKeyDown("KeyA", keysym, soon, capslock)
      BY <1>2, <2>1
    <3>2. guestCaps' = capslock BY <1>1, <2>1, <3>1, TypedRight
    <3> QED BY <1>1, <3>2 DEF Judged
  <2>2. CASE ~(code = "KeyA" /\ keyboard.lamps /\ leds = <<>> /\ remoteCaps # NoSym /\ "CapsLock" \notin guestHeld)
    BY <1>1, <2>2 DEF Judged
  <2> QED BY <2>1, <2>2
<1>5. Accounted \cup {code} \subseteq Accounted'
  BY DEF Accounted, On
<1>6. Holding' \cup Ctrl' \subseteq Accounted' BY <1>1, <1>3, <1>5, CtrlBecomes
<1>7. armed' => "ControlLeft" \in keyboard'.codes BY <1>3
<1>8. KeyboardHere' BY <1>1, <1>3, <1>4, <1>7 DEF KeyboardHere
<1> QED BY <1>1, <1>3, <1>6, <1>8 DEF KeyboardInv

LEMMA KeyPressedKeeps == ASSUME KeyboardInv, KeyPressed PROVE KeyboardInv'
<1>1. conn = "connected" /\ conn' = conn /\ keyboard' = keyboard /\ focus' = focus
  BY DEF KeyPressed, Listens, connection
<1>2. PICK code \in keyboard.codes \ pressed :
        /\ pressed' = pressed \cup {code}
        /\ hostCaps' = (hostCaps # (code = "CapsLock"))
        /\ \E sym \in Keysyms(code), soon \in BOOLEAN : HandleKeyDown(code, sym, soon, hostCaps')
        /\ unheard' = unheard \ {code}
        /\ Judged(code)
  BY DEF KeyPressed
<1>3. PICK sym \in Keysyms(code), soon \in BOOLEAN : HandleKeyDown(code, sym, soon, hostCaps')
  BY <1>2
<1>4. hostCaps' \in BOOLEAN BY <1>2
<1> QED BY <1>1, <1>2, <1>3, <1>4, GoingDown

LEMMA KeyRepeatsKeeps == ASSUME KeyboardInv, KeyRepeats PROVE KeyboardInv'
<1>1. conn = "connected" /\ conn' = conn /\ UNCHANGED <<keyboard, pressed, focus, unheard>>
  BY DEF KeyRepeats, Listens, connection
<1>2. PICK code \in pressed :
        /\ \E sym \in Keysyms(code) : HandleKeyDown(code, sym, FALSE, hostCaps)
        /\ UNCHANGED hostCaps /\ Judged(code)
  BY DEF KeyRepeats
<1> DEFINE soon == FALSE
<1>3. PICK sym \in Keysyms(code) : HandleKeyDown(code, sym, soon, hostCaps)
  BY <1>2
<1>4. soon \in BOOLEAN OBVIOUS
<1> HIDE DEF soon
<1>5. hostCaps \in BOOLEAN /\ code \in keyboard.codes BY DEF KeyboardInv, KeyboardHere
<1>6. pressed' = pressed \cup {code} BY <1>1
<1> QED BY <1>1, <1>2, <1>3, <1>4, <1>5, <1>6, GoingDown

\* A key goes up.
LEMMA KeyReleasedKeeps == ASSUME KeyboardInv, KeyReleased PROVE KeyboardInv'
<1>0. /\ KeysOK(State) /\ armed \in BOOLEAN /\ (armed => "ControlLeft" \in keyboard.codes)
      /\ pressed \subseteq keyboard.codes /\ focus \in {"canvas", "page", "elsewhere"} /\ mistyped = FALSE
      /\ hostCaps \in BOOLEAN
  BY DEF KeyboardInv, KeyboardHere
<1>1. conn = "connected" /\ conn' = conn /\ UNCHANGED <<keyboard, hostCaps, focus, unheard, mistyped>>
  BY DEF KeyReleased, Listens, connection
<1>2. PICK code \in pressed : ~Swallowed(code) /\ pressed' = pressed \ {code} /\ HandleKeyUp(code)
  BY DEF KeyReleased
<1>3. HeldOK(State) /\ Holding \cup Ctrl \subseteq Accounted BY <1>1 DEF KeyboardInv
<1>4. code \in keyboard.codes BY <1>0
<1>5. /\ KeysOK(State)' /\ (HeldOK(State) => HeldOK(State)')
      /\ Holding' \subseteq (Holding \cup Ctrl) \ {code}
      /\ On("windows") /\ code \in Shifts => Holding' \cap Shifts = {}
      /\ armed' = FALSE
  BY <1>0, <1>1, <1>2, <1>4, KeyUpHandled, HoldingIs
<1>6. On("windows")' <=> On("windows") BY <1>1 DEF On
<1>7. Holding' \subseteq Accounted'
  <2>1. CASE On("windows") /\ code \in Shifts BY <1>1, <1>2, <1>3, <1>5, <2>1 DEF Accounted
  <2>2. CASE On("windows") /\ code \notin Shifts
    <3>1. pressed' \cap Shifts = pressed \cap Shifts BY <1>2, <2>2
    <3> QED BY <1>1, <1>2, <1>3, <1>5, <1>6, <2>2, <3>1 DEF Accounted
  <2>3. CASE ~On("windows") BY <1>1, <1>2, <1>3, <1>5, <1>6, <2>3 DEF Accounted
  <2> QED BY <2>1, <2>2, <2>3
<1>8. Ctrl' = {} BY <1>5 DEF Ctrl
<1>9. KeyboardHere' BY <1>0, <1>1, <1>2, <1>5 DEF KeyboardHere
<1> QED BY <1>3, <1>5, <1>7, <1>8, <1>9 DEF KeyboardInv

\* What is known of the user stays the same.
LEMMA KeysStay ==
    ASSUME KeyboardInv, KeysOK(State)', HeldOK(State) => HeldOK(State)', conn' = conn,
           UNCHANGED <<keyboard, pressed, unheard, mistyped>>,
           hostCaps' \in BOOLEAN, focus' \in {"canvas", "page", "elsewhere"},
           armed' \in BOOLEAN, armed' => armed, Holding' \cup Ctrl' \subseteq Holding \cup Ctrl
    PROVE  KeyboardInv'
<1>1. Accounted' = Accounted BY DEF Accounted, On
<1>2. /\ armed => "ControlLeft" \in keyboard.codes
      /\ pressed \subseteq keyboard.codes /\ mistyped = FALSE
      /\ armed => conn \notin {"", "connecting"}
      /\ conn # "disconnected" => HeldOK(State) /\ Holding \cup Ctrl \subseteq Accounted
  BY DEF KeyboardInv, KeyboardHere
<1>3. KeyboardHere' BY <1>2 DEF KeyboardHere
<1>4. conn # "disconnected" => HeldOK(State)' /\ Holding' \cup Ctrl' \subseteq Accounted'
  BY <1>1, <1>2
<1> QED BY <1>2, <1>3, <1>4 DEF KeyboardInv

LEMMA ListedStays ==
    ASSUME NEW r, KeysOK(r), r.down = State.down, Become(r), keyboard' = keyboard
    PROVE  /\ KeysOK(State)' /\ (HeldOK(r) => HeldOK(State)') /\ Holding' = Holding
<1>1. KeysOK(State)' /\ (HeldOK(r) => HeldOK(State)') /\ Holding' = Down(r) BY Becoming
<1>2. Down(r) = Down(State) BY DEF Down
<1> QED BY <1>1, <1>2, HoldingIs

LEMMA MacCapsLockKeeps == ASSUME KeyboardInv, MacCapsLock PROVE KeyboardInv'
<1>0. /\ KeysOK(State) /\ armed \in BOOLEAN /\ (armed => "ControlLeft" \in keyboard.codes)
      /\ focus \in {"canvas", "page", "elsewhere"}
  BY DEF KeyboardInv, KeyboardHere
<1>1. /\ conn = "connected" /\ conn' = conn /\ UNCHANGED <<keyboard, pressed, focus, unheard, mistyped>>
      /\ On("mac") /\ "CapsLock" \in keyboard.codes /\ hostCaps' \in BOOLEAN
  BY DEF MacCapsLock, Listens, connection
<1> DEFINE soon == FALSE
           lit == TRUE
<1>2. HandleKeyDown("CapsLock", "CapsLock", soon, lit) \/ HandleKeyUp("CapsLock")
  BY DEF MacCapsLock
<1>3. soon \in BOOLEAN OBVIOUS
<1> HIDE DEF soon, lit
<1>4. CASE HandleKeyDown("CapsLock", "CapsLock", soon, lit)
  <2>1. TapsOnly("CapsLock") BY <1>1 DEF TapsOnly
  <2>2. /\ KeysOK(State)' /\ (HeldOK(State) => HeldOK(State)')
        /\ TapsOnly("CapsLock") => Holding' \subseteq Holding \cup Ctrl
        /\ armed' \in BOOLEAN /\ (armed' => "CapsLock" = "ControlLeft")
    BY <1>0, <1>1, <1>3, <1>4, MeansItself, KeyDownHandled, HoldingIs
  <2>3. armed' = FALSE /\ Ctrl' = {} BY <2>2 DEF Ctrl
  <2> QED BY <1>0, <1>1, <2>1, <2>2, <2>3, KeysStay
<1>5. CASE HandleKeyUp("CapsLock")
  <2>1. /\ KeysOK(State)' /\ (HeldOK(State) => HeldOK(State)')
        /\ Holding' \subseteq (Holding \cup Ctrl) \ {"CapsLock"}
        /\ armed' = FALSE
    BY <1>0, <1>1, <1>5, KeyUpHandled, HoldingIs
  <2>2. Ctrl' = {} BY <2>1 DEF Ctrl
  <2> QED BY <1>0, <1>1, <2>1, <2>2, KeysStay
<1> QED BY <1>2, <1>4, <1>5

LEMMA AltGrTimeoutKeeps == ASSUME PageInv, KeyboardInv, AltGrTimeout PROVE KeyboardInv'
<1>0. /\ KeysOK(State) /\ armed /\ "ControlLeft" \in keyboard.codes /\ conn \notin {"", "connecting"}
      /\ focus \in {"canvas", "page", "elsewhere"} /\ hostCaps \in BOOLEAN
      /\ pressed \subseteq keyboard.codes /\ mistyped = FALSE
  BY DEF KeyboardInv, KeyboardHere, AltGrTimeout
<1> DEFINE s == Press(State, "ControlLeft", "ControlLeft", NoSym)
<1>1. /\ armed' = FALSE /\ Become(s) /\ conn' = conn
      /\ UNCHANGED <<keyboard, pressed, hostCaps, focus, unheard, mistyped>>
  BY DEF AltGrTimeout, AfterCtrl, connection, user
<1>2. s = Press(State, "ControlLeft", "ControlLeft", NoSym) OBVIOUS
<1> HIDE DEF s
<1>3. Ctrl' = {} BY <1>1 DEF Ctrl
<1>4. CASE conn = "connected"
  <2>1. KeysOK(s) /\ (HeldOK(State) => HeldOK(s)) /\ Down(State) \subseteq Down(s)
        /\ Down(s) \subseteq Down(State) \cup Ctrl
    BY <1>0, <1>2, <1>4, AfterCtrlKeeps
  <2>2. KeysOK(State)' /\ (HeldOK(s) => HeldOK(State)') /\ Holding' = Down(s)
    BY <1>1, <2>1, Becoming
  <2> QED BY <1>0, <1>1, <1>3, <2>1, <2>2, HoldingIs, KeysStay
<1>5. CASE conn # "connected"
  <2>1. KeysOK(s) BY <1>0, <1>2, <1>5, MeansItself, PressOff
  <2>2. KeysOK(State)' BY <1>1, <2>1, Becoming
  <2>3. conn' = "disconnected" BY <1>0, <1>1, <1>5 DEF PageInv, PageShape
  <2>4. KeyboardHere' BY <1>0, <1>1, <2>2 DEF KeyboardHere
  <2> QED BY <1>1, <2>3, <2>4 DEF KeyboardInv
<1> QED BY <1>4, <1>5

\* Nothing but the user moves.
LEMMA ClientStays ==
    ASSUME KeyboardInv, UNCHANGED <<keyboard, client, guest, overruled>>
    PROVE  /\ KeysOK(State)' /\ (HeldOK(State) => HeldOK(State)')
           /\ Holding' = Holding /\ Ctrl' = Ctrl /\ armed' = armed
<1>1. UNCHANGED <<keyboard, downList, armed, remoteCaps, guestHeld, guestCaps, leds, overruled>>
  BY DEF client, guest
<1>2. State' = State BY <1>1 DEF State
<1>3. KeysOK(State)' /\ (HeldOK(State) => HeldOK(State)')
  <2>1. KeysOK(State)' <=> KeysOK(State) BY <1>1, <1>2 DEF KeysOK, KeyStates, LampsIn, Syms
  <2>2. HeldOK(State)' <=> HeldOK(State) BY <1>1, <1>2 DEF HeldOK, HeldBut, IdOf, Down
  <2> QED BY <2>1, <2>2 DEF KeyboardInv, KeyboardHere
<1> QED BY <1>1, <1>3 DEF Holding, Ctrl

LEMMA FocusKeeps == ASSUME KeyboardInv, StepsAway \/ Returns PROVE KeyboardInv'
<1>1. /\ conn' = conn /\ UNCHANGED <<keyboard, client, guest, overruled>>
      /\ UNCHANGED <<pressed, hostCaps, unheard, mistyped>> /\ focus' \in {"canvas", "page", "elsewhere"}
  BY DEF StepsAway, Returns, connection
<1>2. armed \in BOOLEAN /\ hostCaps \in BOOLEAN BY DEF KeyboardInv, KeyboardHere
<1> QED BY <1>1, <1>2, ClientStays, KeysStay

LEMMA KeyReleasedUnheardKeeps == ASSUME KeyboardInv, KeyReleasedUnheard PROVE KeyboardInv'
<1>0. /\ KeysOK(State) /\ armed \in BOOLEAN /\ (armed => "ControlLeft" \in keyboard.codes)
      /\ pressed \subseteq keyboard.codes /\ focus \in {"canvas", "page", "elsewhere"} /\ mistyped = FALSE
      /\ hostCaps \in BOOLEAN /\ (armed => conn \notin {"", "connecting"})
  BY DEF KeyboardInv, KeyboardHere
<1>1. /\ conn' = conn /\ UNCHANGED <<keyboard, client, guest, overruled>>
      /\ UNCHANGED <<hostCaps, focus, mistyped>>
  BY DEF KeyReleasedUnheard, connection
<1>2. PICK code \in pressed :
          /\ focus # "canvas" \/ Swallowed(code)
          /\ pressed' = pressed \ {code}
          /\ unheard' = unheard \cup
                {c \in keyboard.codes :
                    /\ c = code \/ (code \in Shifts /\ c \in Shifts)
                    /\ ~(On("windows") /\ Swallowed(code) /\ focus = "canvas")
                    /\ downList[c] # NoSym \/ (c = "ControlLeft" /\ armed)}
  BY DEF KeyReleasedUnheard
<1>3. /\ KeysOK(State)' /\ (HeldOK(State) => HeldOK(State)')
      /\ Holding' = Holding /\ Ctrl' = Ctrl /\ armed' = armed
  BY <1>1, ClientStays
<1>4. KeyboardHere' BY <1>0, <1>1, <1>2, <1>3 DEF KeyboardHere
<1>5. ASSUME conn # "disconnected" PROVE Holding \cup Ctrl \subseteq Accounted'
  <2>1. Holding \cup Ctrl \subseteq Accounted BY <1>5 DEF KeyboardInv
  <2>2. SUFFICES ASSUME NEW c \in Holding \cup Ctrl PROVE c \in Accounted' OBVIOUS
  <2>3. c \in keyboard.codes /\ (downList[c] # NoSym \/ (c = "ControlLeft" /\ armed))
    BY <1>0, CtrlIs DEF Holding
  <2>4. On("windows")' <=> On("windows") BY <1>1 DEF On
  <2>5. CASE c \in unheard BY <1>2, <2>5 DEF Accounted
  <2>6. CASE c \in pressed /\ c # code BY <1>2, <2>6 DEF Accounted
  <2>7. CASE On("windows") /\ pressed' \cap Shifts # {} /\ c \in Shifts BY <2>4, <2>7 DEF Accounted
  <2>8. CASE c \notin unheard /\ (c = code \/ (code \in Shifts /\ c \in Shifts))
             /\ ~(On("windows") /\ pressed' \cap Shifts # {} /\ c \in Shifts)
    <3>1. ~(On("windows") /\ Swallowed(code) /\ focus = "canvas")
      <4>1. SUFFICES ASSUME On("windows"), Swallowed(code) PROVE FALSE OBVIOUS
      <4>2. ~On("mac") BY <4>1 DEF On
      <4>3. code \in Shifts /\ Shifts \subseteq pressed BY <4>1, <4>2 DEF Swallowed
      <4>4. pressed' \cap Shifts # {} BY <1>2, <4>3 DEF Shifts
      <4> QED BY <2>8, <4>1, <4>3, <4>4
    <3>2. c \in unheard' BY <1>2, <2>3, <2>8, <3>1
    <3> QED BY <3>2 DEF Accounted
  <2>9. c \in pressed \/ c \in unheard \/ (On("windows") /\ pressed \cap Shifts # {} /\ c \in Shifts)
    BY <2>1 DEF Accounted
  <2>10. pressed \cap Shifts # {} /\ pressed' \cap Shifts = {} => code \in Shifts BY <1>2
  <2> QED BY <2>5, <2>6, <2>7, <2>8, <2>9, <2>10
<1> QED BY <1>0, <1>1, <1>3, <1>4, <1>5 DEF KeyboardInv

\* What is next of the lamps.
LEMMA NextLamp ==
    ASSUME NEW q \in Seq(Lit), q # <<>>
    PROVE  /\ Head(q) \in Lit /\ Tail(q) \in Seq(Lit)
           /\ Tail(q) # <<>> => Tail(q)[Len(Tail(q))] = q[Len(q)]
           /\ Tail(q) = <<>> => Head(q) = q[Len(q)]
<1>1. Len(q) \in Nat /\ Len(q) # 0 /\ Tail(q) \in Seq(Lit) /\ Len(Tail(q)) = Len(q) - 1 OBVIOUS
<1>2. Head(q) = q[1] /\ Head(q) \in Lit OBVIOUS
<1>3. \A i \in 1 .. Len(Tail(q)) : Tail(q)[i] = q[i + 1] OBVIOUS
<1>4. Tail(q) # <<>> => Len(Tail(q)) \in 1 .. Len(Tail(q)) BY <1>1
<1>5. Tail(q) # <<>> => Tail(q)[Len(Tail(q))] = q[Len(q)] BY <1>1, <1>3, <1>4
<1>6. Tail(q) = <<>> => Len(q) = 1 BY <1>1
<1> QED BY <1>1, <1>2, <1>5, <1>6

LEMMA LedArrivesKeeps == ASSUME KeyboardInv, LedArrives PROVE KeyboardInv'
<1>0. /\ KeysOK(State) /\ armed \in BOOLEAN /\ focus \in {"canvas", "page", "elsewhere"} /\ hostCaps \in BOOLEAN
  BY DEF KeyboardInv, KeyboardHere
<1>1. /\ conn' = conn /\ leds # <<>> /\ remoteCaps' = Head(leds) /\ leds' = Tail(leds)
      /\ UNCHANGED <<keyboard, downList, armed, guestHeld, guestCaps, overruled>>
      /\ UNCHANGED <<pressed, hostCaps, focus, unheard, mistyped>>
  BY DEF LedArrives, connection, user
<1>2. /\ State.down = downList /\ State.held = guestHeld /\ State.caps = guestCaps
      /\ State.remote = remoteCaps /\ State.leds = leds /\ State.overruled = overruled
  BY DEF State
<1>3. /\ downList \in [keyboard.codes -> Syms] /\ guestHeld \in SUBSET Syms /\ guestCaps \in BOOLEAN
      /\ leds \in Seq(Lit) /\ overruled \in SUBSET keyboard.codes
  BY <1>0, <1>2 DEF KeysOK, KeyStates
<1>4. /\ Head(leds) \in Lit /\ Tail(leds) \in Seq(Lit)
      /\ Tail(leds) # <<>> => Tail(leds)[Len(Tail(leds))] = leds[Len(leds)]
      /\ Tail(leds) = <<>> => Head(leds) = leds[Len(leds)]
  BY <1>1, <1>3, NextLamp
<1> DEFINE first == Head(leds)
           rest == Tail(leds)
           r == [State EXCEPT !.remote = first, !.leds = rest]
<1>5. first \in BOOLEAN \cup {NoSym} BY <1>4 DEF Lit
<1> HIDE DEF first, rest
<1>6. /\ r \in KeyStates /\ r.down = State.down /\ r.held = State.held /\ r.caps = State.caps
      /\ r.overruled = State.overruled /\ r.remote = first /\ r.leds = rest
  <2>1. State \in KeyStates /\ rest \in Seq(Lit) BY <1>0, <1>4 DEF KeysOK, rest
  <2> QED BY <1>5, <2>1 DEF KeyStates
<1>7. LampsIn(r)
  <2>1. LampsIn(State) BY <1>0 DEF KeysOK
  <2>2. keyboard.lamps => leds[Len(leds)] = guestCaps BY <1>1, <1>2, <2>1 DEF LampsIn
  <2>3. /\ rest # <<>> => rest[Len(rest)] = leds[Len(leds)]
        /\ rest = <<>> => first = leds[Len(leds)]
    BY <1>4 DEF first, rest
  <2> QED BY <1>2, <1>6, <2>2, <2>3 DEF LampsIn
<1>8. KeysOK(r) BY <1>0, <1>6, <1>7 DEF KeysOK
<1>9. Become(r) /\ r.down = State.down
  <2>1. remoteCaps' = first /\ leds' = rest BY <1>1 DEF first, rest
  <2> QED BY <1>1, <1>2, <1>6, <2>1 DEF Become
<1>10. HeldOK(State) => HeldOK(r)
  <2>1. r.held = State.held /\ State.overruled \subseteq r.overruled /\ r.down = State.down BY <1>6
  <2> HIDE DEF r
  <2>2. HeldBut(State, {}, {}) => HeldBut(r, {}, {}) BY ONLY <2>1, HeldSame
  <2> QED BY <2>2 DEF HeldOK
<1>11. KeysOK(State)' /\ (HeldOK(r) => HeldOK(State)') /\ Holding' = Holding
  BY <1>1, <1>8, <1>9, ListedStays
<1>12. Ctrl' = Ctrl BY <1>1 DEF Ctrl
<1> QED BY <1>0, <1>1, <1>10, <1>11, <1>12, KeysStay

LEMMA CtrlAltDelStays == ASSUME PageInv, KeyboardInv, CtrlAltDel PROVE KeyboardInv'
<1> DEFINE a == BypassDown(State, "ControlLeft")
           b == BypassDown(a, "AltLeft")
           c == BypassDown(b, "Delete")
           d == BypassUp(c, "Delete")
           e == BypassUp(d, "AltLeft")
           r == BypassUp(e, "ControlLeft")
<1>0. KeysOK(State) /\ armed \in BOOLEAN /\ hostCaps \in BOOLEAN BY DEF KeyboardInv, KeyboardHere
<1>1. Become(r) BY DEF CtrlAltDel, BypassDown, BypassUp
<1>2. /\ conn' = conn /\ conn = "connected" /\ focus' \in {"canvas", "page", "elsewhere"}
      /\ UNCHANGED <<keyboard, armed, pressed, hostCaps, unheard, mistyped>>
  BY DEF CtrlAltDel, PageInv, PageFollows
<1>3. /\ a = BypassDown(State, "ControlLeft") /\ b = BypassDown(a, "AltLeft")
      /\ c = BypassDown(b, "Delete") /\ d = BypassUp(c, "Delete")
      /\ e = BypassUp(d, "AltLeft") /\ r = BypassUp(e, "ControlLeft")
  OBVIOUS
<1> HIDE DEF a, b, c, d, e, r
<1>4. KeysOK(r) /\ r.down = State.down /\ (HeldOK(State) => HeldOK(r))
  BY <1>0, <1>2, <1>3, CtrlAltDelKeeps
<1>5. KeysOK(State)' /\ (HeldOK(r) => HeldOK(State)') /\ Holding' = Holding
  BY <1>1, <1>2, <1>4, ListedStays
<1>6. Ctrl' = Ctrl BY <1>2 DEF Ctrl
<1> QED BY <1>0, <1>2, <1>4, <1>5, <1>6, KeysStay

\* Keyboard._allKeysUp
LEMMA BlursKeeps == ASSUME KeyboardInv, Blurs PROVE KeyboardInv'
<1>0. /\ KeysOK(State) /\ armed \in BOOLEAN /\ (armed => "ControlLeft" \in keyboard.codes)
      /\ pressed \subseteq keyboard.codes /\ mistyped = FALSE /\ hostCaps \in BOOLEAN
      /\ (armed => conn \notin {"", "connecting"})
  BY DEF KeyboardInv, KeyboardHere
<1> DEFINE all == {c \in keyboard.codes : IsDown(State, c)}
           up == [c \in keyboard.codes |-> NoSym]
           has == guestHeld \ {Id(c) : c \in all}
           over1 == overruled \ all
           r == [State EXCEPT !.down = up, !.held = has, !.overruled = over1]
<1>1. /\ conn = "connected" /\ conn' = conn /\ focus' = "elsewhere"
      /\ downList' = up /\ guestHeld' = has /\ overruled' = over1
      /\ UNCHANGED <<guestCaps, remoteCaps, leds, armed, keyboard, pressed, hostCaps, mistyped>>
      /\ unheard' = IF armed /\ "ControlLeft" \notin pressed THEN {"ControlLeft"} ELSE {}
  BY DEF Blurs, AllKeysUp, connection
<1>2. /\ State.down = downList /\ State.held = guestHeld /\ State.caps = guestCaps
      /\ State.remote = remoteCaps /\ State.leds = leds /\ State.overruled = overruled
  BY DEF State
<1>3. State \in KeyStates /\ LampsIn(State) /\ keyboard \in Keyboards BY <1>0 DEF KeysOK
<1>4. /\ up \in [keyboard.codes -> Syms] /\ \A c \in keyboard.codes : up[c] = NoSym
  BY DEF Syms
<1>5. has \in SUBSET (Syms \ {Null}) /\ over1 \in SUBSET keyboard.codes BY <1>2, <1>3 DEF KeyStates
<1>6. HeldOK(State) BY <1>1 DEF KeyboardInv
<1>7. has = {}
  <2>1. \A x \in guestHeld : \E c \in Down(State) : x = IdOf(c, downList[c])
    BY <1>2, <1>6 DEF HeldOK, HeldBut
  <2>2. \A c \in Down(State) : c \in all
    <3>1. DOMAIN State.down = keyboard.codes BY <1>3 DEF KeyStates
    <3> QED BY <3>1 DEF Down, IsDown
  <2>3. \A c : Id(c) = IdOf(c, downList[c]) BY DEF Id, IdOf
  <2> HIDE DEF all
  <2>4. guestHeld \subseteq {Id(c) : c \in all} BY <2>1, <2>2, <2>3
  <2> QED BY <1>1, <2>4
<1> HIDE DEF all, up, has, over1
<1>8. /\ r \in KeyStates /\ r.down = up /\ r.held = has /\ r.overruled = over1
      /\ r.caps = State.caps /\ r.remote = State.remote /\ r.leds = State.leds
  BY <1>3, <1>4, <1>5 DEF KeyStates
<1>9. LampsIn(r) BY <1>3, <1>8 DEF LampsIn
<1>10. KeysOK(r) BY <1>3, <1>4, <1>8, <1>9 DEF KeysOK
<1>11. Down(r) = {} BY <1>4, <1>8 DEF Down
<1>12. HeldOK(r) BY <1>7, <1>8, <1>11 DEF HeldOK, HeldBut
<1>13. Become(r) BY <1>1, <1>2, <1>8 DEF Become
<1> HIDE DEF r
<1>14. KeysOK(State)' /\ HeldOK(State)' /\ Holding' = {}
  BY <1>1, <1>10, <1>11, <1>12, <1>13, Becoming
<1>15. Ctrl' \subseteq Accounted' BY <1>1, CtrlBecomes DEF Accounted
<1>16. KeyboardHere' BY <1>0, <1>1, <1>14 DEF KeyboardHere
<1> QED BY <1>0, <1>1, <1>14, <1>15, <1>16 DEF KeyboardInv

\* The keys of a gesture: none but those of a pinch.
LEMMA GestureTypes ==
    ASSUME KeyboardInv, NEW types, NEW g, Gesture(types, g), conn' = conn
    PROVE  KeyboardInv'
<1>0. /\ KeysOK(State) /\ armed \in BOOLEAN /\ focus \in {"canvas", "page", "elsewhere"} /\ hostCaps \in BOOLEAN
  BY DEF KeyboardInv, KeyboardHere
<1>1. PICK wheel \in Wheels(g) :
        /\ Become(IF Len(types) = 1 THEN PinchKeys(State, types[1], g, wheel)
                  ELSE PinchKeys(PinchKeys(State, types[1], g, wheel), types[2], g, wheel))
        /\ UNCHANGED <<armed, keyboard, user>>
  BY DEF Gesture
<1> DEFINE first == PinchKeys(State, types[1], g, wheel)
           second == PinchKeys(first, types[2], g, wheel)
           r == IF Len(types) = 1 THEN first ELSE second
<1>2. KeysOK(first) /\ first.down = State.down /\ (HeldOK(State) => HeldOK(first))
  BY <1>0, PinchKeysKeep
<1>3. Become(r) BY <1>1
<1> HIDE DEF first
<1>4. KeysOK(second) /\ second.down = first.down /\ (HeldOK(first) => HeldOK(second))
  BY <1>2, PinchKeysKeep
<1> HIDE DEF second
<1>5. KeysOK(r) /\ r.down = State.down /\ (HeldOK(State) => HeldOK(r)) BY <1>2, <1>4
<1> HIDE DEF r
<1>6. keyboard' = keyboard /\ UNCHANGED <<armed, pressed, hostCaps, focus, unheard, mistyped>>
  BY <1>1 DEF user
<1>7. KeysOK(State)' /\ (HeldOK(r) => HeldOK(State)') /\ Holding' = Holding
  BY <1>3, <1>5, <1>6, ListedStays
<1>8. Ctrl' = Ctrl BY <1>6 DEF Ctrl
<1> QED BY <1>0, <1>5, <1>6, <1>7, <1>8, KeysStay

\* What has nothing to do with the keyboard, but for the end of the connection.
LEMMA TypingStays ==
    ASSUME PageInv, [Next]_vars, KeyboardInv, UNCHANGED typing PROVE KeyboardInv'
<1>1. /\ UNCHANGED <<keyboard, client, guest, overruled>>
      /\ UNCHANGED <<armed, pressed, hostCaps, focus, unheard, mistyped>>
  BY DEF typing, user, client
<1>2. /\ KeysOK(State)' /\ (HeldOK(State) => HeldOK(State)')
      /\ Holding' = Holding /\ Ctrl' = Ctrl
  BY <1>1, ClientStays
<1>3. Accounted' = Accounted BY <1>1 DEF Accounted, On
<1>4. KeyboardHere' BY <1>1, <1>2 DEF KeyboardInv, KeyboardHere
<1> QED BY <1>1, <1>2, <1>3, <1>4, ConnMoves DEF KeyboardInv

LEMMA UngrabKeeps ==
    ASSUME PageInv, [Next]_vars, KeyboardInv, Ungrab(Ends) PROVE KeyboardInv'
<1>1. CASE Ends
  <2> DEFINE up == [c \in keyboard.codes |-> NoSym]
             r == [State EXCEPT !.down = up]
  <2>1. /\ downList' = up /\ conn' = "disconnected"
        /\ UNCHANGED <<keyboard, armed, remoteCaps, guestHeld, guestCaps, leds, overruled>>
        /\ UNCHANGED <<pressed, hostCaps, focus, unheard, mistyped>>
    BY <1>1 DEF Ungrab, Ends, guest, user
  <2>2. KeyboardHere /\ KeysOK(State) BY DEF KeyboardInv, KeyboardHere
  <2>3. State \in KeyStates /\ LampsIn(State) /\ keyboard \in Keyboards BY <2>2 DEF KeysOK
  <2>4. /\ State.held = guestHeld /\ State.caps = guestCaps
        /\ State.remote = remoteCaps /\ State.leds = leds /\ State.overruled = overruled
    BY DEF State
  <2>5. up \in [keyboard.codes -> Syms] /\ \A c \in keyboard.codes : up[c] = NoSym BY DEF Syms
  <2> HIDE DEF up
  <2>6. /\ r \in KeyStates /\ r.down = up /\ r.held = State.held /\ r.overruled = State.overruled
        /\ r.caps = State.caps /\ r.remote = State.remote /\ r.leds = State.leds
    BY <2>3, <2>5 DEF KeyStates
  <2>7. LampsIn(r) BY <2>3, <2>6 DEF LampsIn
  <2>8. KeysOK(r) BY <2>3, <2>5, <2>6, <2>7 DEF KeysOK
  <2>9. Become(r) BY <2>1, <2>4, <2>6 DEF Become
  <2> HIDE DEF r
  <2>10. KeysOK(State)' BY <2>1, <2>8, <2>9, Becoming
  <2>11. KeyboardHere' BY <2>1, <2>2, <2>10 DEF KeyboardHere
  <2>12. armed' => conn' \notin {"", "connecting"} BY <2>1
  <2> QED BY <2>1, <2>11, <2>12 DEF KeyboardInv
<1>2. CASE ~Ends
  <2>1. UNCHANGED typing BY <1>2 DEF Ungrab, typing, client
  <2> QED BY <2>1, TypingStays
<1> QED BY <1>1, <1>2

LEMMA KeyboardInitially == ASSUME Init PROVE KeyboardInv
<1>1. /\ keyboard \in Keyboards /\ downList = [c \in keyboard.codes |-> NoSym] /\ armed = FALSE
      /\ remoteCaps = NoSym /\ guestHeld = {} /\ hostCaps = FALSE
      /\ guestCaps \in IF keyboard.lamps THEN BOOLEAN ELSE {FALSE}
      /\ leds = IF keyboard.lamps THEN <<guestCaps>> ELSE <<>>
      /\ pressed = {} /\ focus = "canvas" /\ unheard = {} /\ overruled = {} /\ mistyped = FALSE
      /\ conn = ""
  BY DEF Init, KeyboardInit, ConnectionInit
<1>2. /\ State.down = downList /\ State.held = guestHeld /\ State.caps = guestCaps
      /\ State.remote = remoteCaps /\ State.leds = leds /\ State.overruled = overruled
      /\ State = [down |-> downList, held |-> guestHeld, caps |-> guestCaps,
                  remote |-> remoteCaps, leds |-> leds, overruled |-> overruled]
  BY DEF State
<1>3. guestCaps \in BOOLEAN BY <1>1
<1>4. leds \in Seq(Lit) /\ (leds # <<>> => leds[Len(leds)] = guestCaps)
  <2> DEFINE one == <<guestCaps>>
  <2>1. one \in Seq(Lit) /\ Len(one) = 1 /\ one[1] = guestCaps BY <1>3 DEF Lit
  <2>2. <<>> \in Seq(Lit) OBVIOUS
  <2> HIDE DEF one
  <2>3. CASE leds = one BY <2>1, <2>3
  <2>4. CASE leds = <<>> BY <2>2, <2>4
  <2> QED BY <1>1, <2>3, <2>4 DEF one
<1>5. downList \in [keyboard.codes -> Syms] /\ \A c \in keyboard.codes : downList[c] = NoSym
  BY <1>1 DEF Syms
<1>6. guestHeld \in SUBSET (Syms \ {Null}) /\ overruled \in SUBSET keyboard.codes
      /\ remoteCaps \in BOOLEAN \cup {NoSym}
  BY <1>1
<1>7. State \in KeyStates BY <1>2, <1>3, <1>4, <1>5, <1>6 DEF KeyStates
<1>8. LampsIn(State) BY <1>1, <1>2, <1>4 DEF LampsIn
<1>9. KeysOK(State) BY <1>1, <1>2, <1>5, <1>7, <1>8 DEF KeysOK
<1>10. HeldOK(State) BY <1>1, <1>2, <1>5 DEF HeldOK, HeldBut, Down
<1>11. Holding = {} BY <1>5 DEF Holding
<1>12. Ctrl = {} BY <1>1 DEF Ctrl
<1>13. KeyboardHere BY <1>1, <1>9 DEF KeyboardHere
<1> QED BY <1>1, <1>10, <1>11, <1>12, <1>13 DEF KeyboardInv

LEMMA TypesKeeps ==
    ASSUME PageInv, KeyboardInv, Types PROVE KeyboardInv'
BY AltGrTimeoutKeeps, LedArrivesKeeps, CtrlAltDelStays, KeyPressedKeeps, KeyRepeatsKeeps,
   MacCapsLockKeeps, KeyReleasedKeeps, KeyReleasedUnheardKeeps, FocusKeeps, BlursKeeps
DEF Types, KeyboardNext

LEMMA PointsKeepsKeys ==
    ASSUME PageInv, KeyboardInv, [Next]_vars, Points PROVE KeyboardInv'
<1>1. conn' = conn BY PointerLeavesConnection DEF connection
<1>2. CASE UNCHANGED typing BY <1>2, TypingStays
<1>3. CASE \E types, g : Gesture(types, g) BY <1>1, <1>3, GestureTypes
<1>4. UNCHANGED typing \/ \E types, g : Gesture(types, g)
  <2>1. NoEvent => UNCHANGED typing BY DEF NoEvent, typing
  <2>2. \A types, s : Pushes(types, s) => \E t, g : Gesture(t, g) BY DEF Pushes
  <2>3. MouseNext => UNCHANGED typing
    BY DEF MouseNext, MouseCrosses, MouseMoves, MousePressed, MouseReleased, HandleWheel,
           DelayedMouseMove, SameUser
  <2>4. CASE GesturesNext
    <3>1. CASE \E id \in Fingers : TouchStart(id) \/ TouchEndIgnored(id)
      BY <2>1, <3>1 DEF TouchStart, TouchEndIgnored
    <3>2. CASE \E i \in DOMAIN tracked : TouchMoveDetected(i)
                                      \/ \E far, sameWay \in BOOLEAN : TouchMove(i, far, sameWay)
      BY <2>1, <2>2, <3>2 DEF TouchMoveDetected, TouchMove
    <3>3. CASE \E i \in DOMAIN tracked : \E slow \in BOOLEAN : TouchEndDetected(i, slow) \/ TouchEnd(i, slow)
      BY <2>1, <2>2, <3>3 DEF TouchEndDetected, TouchEnd
    <3>4. CASE LongpressTimeout \/ TwoTouchTimeout
      BY <2>1, <2>2, <3>4 DEF LongpressTimeout, TwoTouchTimeout
    <3> QED BY <2>4, <3>1, <3>2, <3>3, <3>4 DEF GesturesNext
  <2>5. CASE ~GesturesNext
    <3>1. MouseNext BY <2>5 DEF Points, MouseNext
    <3> QED BY <2>3, <3>1
  <2> QED BY <2>4, <2>5
<1> QED BY <1>2, <1>3, <1>4

LEMMA KeyboardStep ==
    ASSUME PageInv, KeyboardInv, [Next]_vars PROVE KeyboardInv'
<1>1. CASE Points BY <1>1, PointsKeepsKeys
<1>2. CASE Types BY <1>2, TypesKeeps
<1>3. CASE Page \/ Handshaking \/ UsesClipboard
  <2>1. Ungrab(Ends) BY <1>3 DEF Page, Handshaking, UsesClipboard, OtherInput
  <2> QED BY <2>1, UngrabKeeps
<1>4. CASE Resizes \/ UNCHANGED vars
  <2>1. UNCHANGED typing BY <1>4 DEF Resizes, inputs, vars
  <2> QED BY <2>1, TypingStays
<1> QED BY <1>1, <1>2, <1>3, <1>4 DEF Next

\* The guest holds the keys that the client has down, and those only, but for
\* those it was told are up behind the back of Keyboard and those that have
\* neither a scancode it takes nor a keysym; the client has no key
\* down that the user has let go of, as far as the canvas heard of it; and a
\* letter typed when all is quiet is typed under the browser's caps lock:
\* whatever the platform, the AltGr timer, the fix of the caps lock, the page's
\* Ctrl+Alt+Del, gestures and the focus do in between (Keyboard and
\* RFB._handleKeyEvent).
THEOREM KeysAgreeAlways == Spec => []KeysAgree
<1> DEFINE Inv == PageInv /\ KeyboardInv
<1>1. Init => Inv BY PageInit, KeyboardInitially
<1>2. Inv /\ [Next]_vars => Inv' BY PageNext, KeyboardStep
<1>3. Inv => KeysAgree
  <2> SUFFICES ASSUME KeyboardInv, conn = "connected" PROVE KeysAgree BY DEF KeysAgree
  <2>1. HeldOK(State) /\ Holding \cup Ctrl \subseteq Accounted /\ mistyped = FALSE
    BY DEF KeyboardInv, KeyboardHere
  <2>2. \A c : Id(c) = IdOf(c, downList[c]) BY DEF Id, IdOf
  <2>3. /\ \A x \in guestHeld : \E c \in Holding : x = Id(c)
        /\ \A c \in Holding : c \in overruled \/ Id(c) \in guestHeld \cup {Null}
    BY <2>1, <2>2, HoldingIs DEF HeldOK, HeldBut, State
  <2> QED BY <2>1, <2>3 DEF KeysAgree, Accounted
<1> QED BY <1>1, <1>2, <1>3, PTL DEF Spec

-----------------------------------------------------------------------------
\* All parts together: what their invariants do not say of the types.

PageTypes ==
    /\ sock \in {"unused", "connecting", "open", "closing", "closed"}
    /\ keys \in BOOLEAN /\ late \in BOOLEAN
    /\ box \in {"", "unavailable", "load failed", "disconnected"}

NegotiationTypes ==
    /\ script \in Servers /\ misread \in BOOLEAN
    /\ version \in {0, 33, 37, 38} /\ vencrypt \in 0 .. 4
    /\ ra2 \in {"none", "key length", "key", "approval"}
    /\ tight \in BOOLEAN /\ password \in BOOLEAN

SizeTypes ==
    /\ size \in Sizes /\ expected \in Sizes /\ desktop \in Sizes /\ scaled \in Sizes \X Sizes
    /\ wanted \in Sizes \cup {NoSize} /\ changes \in 0 .. MaxChanges
    /\ unseen \in BOOLEAN /\ frame \in BOOLEAN /\ timer \in BOOLEAN
    /\ settable \in BOOLEAN /\ ignored \in BOOLEAN
    /\ requests \in Seq(Sizes) /\ layouts \in Seq([accepted : BOOLEAN, size : Sizes])

TouchTypes ==
    /\ fingers \subseteq Fingers /\ waitingRelease \in BOOLEAN
    /\ twoTouch => twoTouchId

-----------------------------------------------------------------------------
LEMMA FailsTyped == ASSUME PageTypes, Fails PROVE PageTypes'
BY DEF PageTypes, Fails, Terminated, TellDisconnect

LEMMA PageStaysTyped ==
    ASSUME PageTypes, UNCHANGED <<sock, keys, box, late>> PROVE PageTypes'
BY DEF PageTypes

\* The timer for a slow connection is the page's own.
LEMMA LateStays ==
    /\ UsesClipboard /\ ~OddReceived => late' = late
    /\ Types => late' = late
<1>1. ASSUME UsesClipboard, ~OddReceived PROVE late' = late
  <2> USE DEF connection, page
  <2>1. ClipboardNext BY <1>1 DEF UsesClipboard
  <2>2. CASE HostCopies \/ PasteClicked \/ PasteBlocked \/ Paste
    BY <2>2 DEF HostCopies, PasteClicked, PasteBlocked, Paste
  <2>3. CASE CapsReceived \/ RequestReceived \/ PeekReceived \/ NotifyReceived
    BY <2>3 DEF CapsReceived, RequestReceived, PeekReceived, NotifyReceived
  <2>4. CASE ProvideReceived \/ TextReceived
    BY <2>4 DEF ProvideReceived, TextReceived, Clipped
  <2>5. CASE GuestAnnounces \/ GuestCopies \/ GuestReceives \/ GuestErrs
    BY <2>5 DEF GuestAnnounces, GuestCopies, GuestReceives, GuestErrs
  <2> QED BY <1>1, <2>1, <2>2, <2>3, <2>4, <2>5 DEF ClipboardNext
<1>2. ASSUME Types PROVE late' = late
  <2> USE DEF connection, page
  <2>1. KeyboardNext BY <1>2 DEF Types
  <2>2. CASE CtrlAltDel BY <2>2 DEF CtrlAltDel
  <2>3. CASE AltGrTimeout \/ LedArrives \/ KeyPressed \/ KeyRepeats \/ MacCapsLock
    BY <2>3 DEF AltGrTimeout, LedArrives, KeyPressed, KeyRepeats, MacCapsLock
  <2>4. CASE KeyReleased \/ KeyReleasedUnheard \/ StepsAway \/ Blurs \/ Returns
    BY <2>4 DEF KeyReleased, KeyReleasedUnheard, StepsAway, Blurs, Returns
  <2> QED BY <2>1, <2>2, <2>3, <2>4 DEF KeyboardNext
<1> QED BY <1>1, <1>2

LEMMA PageTyped ==
    ASSUME PageInv, PageTypes, [Next]_vars PROVE PageTypes'
<1>1. CASE Page
  <2>1. CASE StartViewer BY <2>1 DEF StartViewer, PageTypes
  <2>2. CASE ViewerFails BY <2>2 DEF ViewerFails, PageTypes
  <2>3. CASE Slow BY <2>3 DEF Slow, PageTypes
  <2>4. CASE SocketCloses BY <2>4 DEF SocketCloses, TellDisconnect, page, PageTypes
  <2> QED BY <1>1, <2>1, <2>2, <2>3, <2>4 DEF Page
<1>2. CASE Handshaking
  <2>1. CASE SocketOpens BY <2>1, PageStaysTyped DEF SocketOpens, page, PageTypes
  <2>2. CASE InitMsg
    <3>1. Handshakes BY <2>2, InitMsgHandshakes DEF PageInv
    <3>2. CASE Quiet BY <3>2, PageStaysTyped DEF Quiet, connection, page
    <3>3. CASE Fails BY <3>3, FailsTyped
    <3>4. CASE Connected BY <3>4 DEF Connected, PageTypes
    <3> QED BY <3>1, <3>2, <3>3, <3>4 DEF Handshakes
  <2>3. CASE Resume \/ \E n \in 1 .. Len(script.units) : HandshakeArrives(n)
    BY <2>3, PageStaysTyped DEF Resume, HandshakeArrives, connection, page
  <2> QED BY <1>2, <2>1, <2>2, <2>3 DEF Handshaking
<1>3. CASE UsesClipboard
  <2>1. CASE OddReceived BY <2>1, FailsTyped DEF OddReceived
  <2>2. CASE ~OddReceived BY <1>3, <2>2, ClipboardLeavesConnection, LateStays, PageStaysTyped
  <2> QED BY <2>1, <2>2
<1>4. CASE Types BY <1>4, KeyboardLeavesConnection, LateStays, PageStaysTyped
<1>5. CASE Resizes \/ Points \/ UNCHANGED vars
  <2>1. UNCHANGED connection
    BY <1>5, PointerLeavesConnection DEF Resizes, ResizeNext, vars
  <2> QED BY <2>1, PageStaysTyped DEF connection, page
<1> QED BY <1>1, <1>2, <1>3, <1>4, <1>5 DEF Next

-----------------------------------------------------------------------------
LEMMA ReadsTyped ==
    /\ \A roles : Reads(roles) => script' = script /\ misread' \in BOOLEAN
    /\ ReadsNothing => script' = script /\ misread' = misread
BY DEF Reads, ReadsNothing

LEMMA VersionsTyped == \A k \in DOMAIN Versions : Versions[k] \in {33, 37, 38}
BY DEF Versions

LEMMA OfFour == \A n : n = 1 \/ n = 2 \/ n = 3 \/ n = 4 => n \in 0 .. 4
OBVIOUS

LEMMA InitMsgTyped ==
    ASSUME NegotiationTypes, InitMsg PROVE NegotiationTypes'
<1> USE ReadsTyped DEF NegotiationTypes, VeNCryptTo, progress, AsksCredentials, Starves, To
<1>1. CASE Version BY <1>1, VersionsTyped DEF Version
<1>2. CASE Repeater \/ VersionRefused \/ VersionStarves
  <2>1. CASE Repeater BY <2>1 DEF Repeater
  <2>2. CASE VersionRefused BY <2>2 DEF VersionRefused
  <2>3. CASE VersionStarves BY <2>3 DEF VersionStarves
  <2> QED BY <1>2, <2>1, <2>2, <2>3
<1>3. CASE SecurityStarves BY <1>3 DEF SecurityStarves, stream
<1>4. CASE NoSecurity \/ Security \/ SecurityDictated
  <2>1. CASE NoSecurity BY <2>1 DEF NoSecurity
  <2>2. CASE Security BY <2>2 DEF Security
  <2>3. CASE SecurityDictated BY <2>3 DEF SecurityDictated
  <2> QED BY <1>4, <2>1, <2>2, <2>3
<1>5. CASE UsernameMissing \/ MSLogonStarves \/ NoAuth \/ Unsupported
  <2>1. CASE UsernameMissing BY <2>1 DEF UsernameMissing
  <2>2. CASE MSLogonStarves BY <2>2 DEF MSLogonStarves
  <2>3. CASE NoAuth BY <2>3 DEF NoAuth
  <2>4. CASE Unsupported BY <2>4 DEF Unsupported
  <2> QED BY <1>5, <2>1, <2>2, <2>3, <2>4
<1>6. CASE StdVNCStarves \/ StdVNCAsks \/ StdVNCAuth
  <2>1. CASE StdVNCStarves BY <2>1 DEF StdVNCStarves
  <2>2. CASE StdVNCAsks BY <2>2 DEF StdVNCAsks
  <2>3. CASE StdVNCAuth BY <2>3 DEF StdVNCAuth
  <2> QED BY <1>6, <2>1, <2>2, <2>3
<1>7. CASE VeNCryptStarves \/ VeNCryptVersion \/ VeNCryptAck \/ VeNCryptCount \/ VeNCryptTypes
  <2>1. CASE VeNCryptStarves BY <2>1 DEF VeNCryptStarves
  <2>2. CASE VeNCryptVersion \/ VeNCryptAck \/ VeNCryptCount \/ VeNCryptTypes
    <3>1. UNCHANGED <<version, tight, ra2, password>>
      BY <2>2 DEF VeNCryptVersion, VeNCryptAck, VeNCryptCount, VeNCryptTypes
    <3>2. script' = script /\ misread' \in BOOLEAN
      BY <2>2 DEF VeNCryptVersion, VeNCryptAck, VeNCryptCount, VeNCryptTypes
    <3>3. vencrypt' = vencrypt \/ vencrypt' = 1 \/ vencrypt' = 2 \/ vencrypt' = 3 \/ vencrypt' = 4
      BY <2>2 DEF VeNCryptVersion, VeNCryptAck, VeNCryptCount, VeNCryptTypes
    <3>4. vencrypt \in 0 .. 4 OBVIOUS
    <3>5. vencrypt' \in 0 .. 4 BY ONLY <3>3, <3>4, OfFour
    <3> QED BY <3>1, <3>2, <3>5
  <2> QED BY <1>7, <2>1, <2>2
<1>8. CASE TightStarves \/ TightNoTunnels \/ TightTunnels \/ TightNone \/ TightAuth
  <2>1. CASE TightStarves BY <2>1 DEF TightStarves
  <2>2. CASE TightNoTunnels BY <2>2 DEF TightNoTunnels
  <2>3. CASE TightTunnels BY <2>3 DEF TightTunnels
  <2>4. CASE TightNone BY <2>4 DEF TightNone
  <2>5. CASE TightAuth BY <2>5 DEF TightAuth
  <2> QED BY <1>8, <2>1, <2>2, <2>3, <2>4, <2>5
<1>9. CASE Ra2Pokes \/ Ra2Waits \/ Ra2KeyLength \/ Ra2Key
  <2>1. CASE Ra2Pokes BY <2>1 DEF Ra2Pokes
  <2>2. CASE Ra2Waits BY <2>2 DEF Ra2Waits
  <2>3. CASE Ra2KeyLength BY <2>3 DEF Ra2KeyLength
  <2>4. CASE Ra2Key BY <2>4 DEF Ra2Key
  <2> QED BY <1>9, <2>1, <2>2, <2>3, <2>4
<1>10. CASE ResultStarves \/ SecurityResult \/ ReasonStarves \/ SecurityReason
  <2>1. CASE ResultStarves BY <2>1 DEF ResultStarves
  <2>2. CASE SecurityResult BY <2>2 DEF SecurityResult
  <2>3. CASE ReasonStarves BY <2>3 DEF ReasonStarves
  <2>4. CASE SecurityReason BY <2>4 DEF SecurityReason
  <2> QED BY <1>10, <2>1, <2>2, <2>3, <2>4
<1>11. CASE ClientInitialisation \/ ServerInitStarves \/ ServerInit
  <2>1. CASE ClientInitialisation BY <2>1 DEF ClientInitialisation
  <2>2. CASE ServerInitStarves BY <2>2 DEF ServerInitStarves
  <2>3. CASE ServerInit BY <2>3 DEF ServerInit
  <2> QED BY <1>11, <2>1, <2>2, <2>3
<1> QED BY <1>1, <1>2, <1>3, <1>4, <1>5, <1>6, <1>7, <1>8, <1>9, <1>10, <1>11 DEF InitMsg

LEMMA NegotiationTyped ==
    ASSUME NegotiationTypes, [Next]_vars PROVE NegotiationTypes'
<1>1. CASE Handshaking
  <2>1. CASE InitMsg BY <2>1, InitMsgTyped
  <2>2. CASE SocketOpens BY <2>2 DEF SocketOpens, stream, NegotiationTypes
  <2>3. CASE Resume \/ \E n \in 1 .. Len(script.units) : HandshakeArrives(n)
    BY <2>3 DEF Resume, HandshakeArrives, stream, progress, NegotiationTypes
  <2> QED BY <1>1, <2>1, <2>2, <2>3 DEF Handshaking
<1>2. CASE ~Handshaking
  <2>1. UNCHANGED handshake
    BY <1>2 DEF Next, vars, Page, UsesClipboard, Resizes, Types, Points
  <2> QED BY <2>1 DEF handshake, stream, progress, NegotiationTypes
<1> QED BY <1>1, <1>2

-----------------------------------------------------------------------------
LEMMA Asked ==
    ASSUME requests \in Seq(Sizes), size \in Sizes, RequestRemoteResize
    PROVE  requests' \in Seq(Sizes)
<1>1. Append(requests, size) \in Seq(Sizes) BY AppendedTo
<1>2. requests' = Append(requests, size) \/ requests' = requests BY DEF RequestRemoteResize
<1> QED BY <1>1, <1>2

LEMMA ResizesTyped ==
    ASSUME SizeTypes, ResizeNext PROVE SizeTypes'
<1> DEFINE Layout == [accepted : BOOLEAN, size : Sizes]
<1> USE SizesAssumption
<1>1. CASE PageResizes BY <1>1 DEF PageResizes, SizeTypes
<1>2. CASE HandleResize
  <2>1. unseen' = FALSE /\ frame' \in BOOLEAN /\ timer' \in BOOLEAN /\ ignored' \in BOOLEAN
    BY <1>2 DEF HandleResize, SizeTypes
  <2> QED BY <1>2, <2>1 DEF HandleResize, SizeTypes
<1>3. CASE AnimationFrame BY <1>3 DEF AnimationFrame, UpdateScale, SizeTypes
<1>4. CASE ResizeTimeout
  <2>1. requests' \in Seq(Sizes) BY <1>4, Asked DEF ResizeTimeout, SizeTypes
  <2> QED BY <1>4, <2>1 DEF ResizeTimeout, RequestRemoteResize, SizeTypes
<1>5. CASE HandleExtendedDesktopSize
  <2>1. layouts \in Seq(Layout) /\ layouts # <<>> BY <1>5 DEF HandleExtendedDesktopSize, SizeTypes
  <2>2. Tail(layouts) \in Seq(Layout) /\ Head(layouts) \in Layout BY <2>1, Shortened
  <2>3. Head(layouts).size \in Sizes BY <2>2
  <2>4. layouts' \in Seq(Layout) /\ settable' = TRUE
    BY <1>5, <2>2 DEF HandleExtendedDesktopSize
  <2>5. UNCHANGED <<size, unseen, frame, changes, ignored>> BY <1>5 DEF HandleExtendedDesktopSize
  <2>6. desktop' \in Sizes /\ scaled' \in Sizes \X Sizes /\ expected' \in Sizes
    BY <1>5, <2>3 DEF HandleExtendedDesktopSize, UpdateScale, SizeTypes
  <2>7. requests' \in Seq(Sizes) /\ wanted' \in Sizes \cup {NoSize} /\ timer' \in BOOLEAN
    <3>1. CASE settable BY <1>5, <3>1 DEF HandleExtendedDesktopSize, SizeTypes
    <3>2. CASE ~settable
      <4>1. RequestRemoteResize BY <1>5, <3>2 DEF HandleExtendedDesktopSize
      <4>2. requests' \in Seq(Sizes) BY <4>1, Asked DEF SizeTypes
      <4> QED BY <4>1, <4>2 DEF RequestRemoteResize, SizeTypes
    <3> QED BY <3>1, <3>2
  <2> QED BY <2>4, <2>5, <2>6, <2>7 DEF SizeTypes
<1>6. CASE ServerAnswers
  <2>1. requests \in Seq(Sizes) /\ requests # <<>> /\ layouts \in Seq(Layout)
    BY <1>6 DEF ServerAnswers, SizeTypes
  <2>2. Tail(requests) \in Seq(Sizes) /\ Head(requests) \in Sizes BY <2>1, Shortened
  <2>3. \A ok \in BOOLEAN : [accepted |-> ok, size |-> Head(requests)] \in Layout BY <2>2
  <2>4. layouts' \in Seq(Layout) BY <1>6, <2>1, <2>3, AppendedTo DEF ServerAnswers
  <2> QED BY <1>6, <2>2, <2>4 DEF ServerAnswers, SizeTypes
<1>7. CASE ServerResizes
  <2>1. layouts \in Seq(Layout) BY DEF SizeTypes
  <2>2. \A s \in Sizes : [accepted |-> TRUE, size |-> s] \in Layout OBVIOUS
  <2>3. layouts' \in Seq(Layout) BY <1>7, <2>1, <2>2, AppendedTo DEF ServerResizes
  <2> QED BY <1>7, <2>3 DEF ServerResizes, SizeTypes
<1> QED BY <1>1, <1>2, <1>3, <1>4, <1>5, <1>6, <1>7 DEF ResizeNext

LEMMA SizeTyped ==
    ASSUME SizeTypes, [Next]_vars PROVE SizeTypes'
<1>1. CASE Resizes BY <1>1, ResizesTyped DEF Resizes
<1>2. CASE ~Resizes
  <2>1. UNCHANGED resizing
    BY <1>2 DEF Next, vars, Page, Handshaking, UsesClipboard, Types, Points
  <2> QED BY <2>1 DEF resizing, SizeTypes
<1> QED BY <1>1, <1>2

-----------------------------------------------------------------------------
LEMMA TouchTyped ==
    ASSUME TouchTypes, [Next]_vars PROVE TouchTypes'
<1>1. CASE UNCHANGED touching BY <1>1 DEF touching, TouchTypes
<1>2. CASE GesturesNext
  <2>1. CASE \E id \in Fingers : TouchStart(id) \/ TouchEndIgnored(id)
    <3>1. CASE \E id \in Fingers : TouchStart(id) BY <3>1 DEF TouchStart, TouchTypes
    <3>2. CASE \E id \in Fingers : TouchEndIgnored(id)
      <4>1. PICK id \in Fingers : TouchEndIgnored(id) BY <3>2
      <4>2. fingers' = fingers \ {id} /\ waitingRelease' \in BOOLEAN /\ UNCHANGED <<twoTouchId, twoTouch>>
        BY <4>1 DEF TouchEndIgnored
      <4> QED BY <4>2 DEF TouchTypes
    <3> QED BY <2>1, <3>1, <3>2
  <2>2. CASE \E i \in DOMAIN tracked : TouchMoveDetected(i)
                                    \/ \E far, sameWay \in BOOLEAN : TouchMove(i, far, sameWay)
    BY <2>2 DEF TouchMoveDetected, TouchMove, SameTouches, TouchTypes
  <2>3. CASE \E i \in DOMAIN tracked :
                \E slow \in BOOLEAN : TouchEndDetected(i, slow) \/ TouchEnd(i, slow)
    <3>1. PICK i \in DOMAIN tracked, slow \in BOOLEAN : TouchEndDetected(i, slow) \/ TouchEnd(i, slow)
      BY <2>3
    <3>2. fingers' = fingers \ {tracked[i].id} BY <3>1 DEF TouchEndDetected, TouchEnd
    <3>3. CASE TouchEndDetected(i, slow)
      <4>1. waitingRelease' \in BOOLEAN /\ UNCHANGED <<twoTouchId, twoTouch>>
        BY <3>3 DEF TouchEndDetected
      <4> QED BY <3>2, <4>1 DEF TouchTypes
    <3>4. CASE TouchEnd(i, slow)
      <4>1. waitingRelease' \in BOOLEAN /\ twoTouch' = FALSE BY <3>4 DEF TouchEnd
      <4> QED BY <3>2, <4>1 DEF TouchTypes
    <3> QED BY <3>1, <3>3, <3>4
  <2>4. CASE LongpressTimeout \/ TwoTouchTimeout
    BY <2>4 DEF LongpressTimeout, TwoTouchTimeout, SameTouches, TouchTypes
  <2> QED BY <1>2, <2>1, <2>2, <2>3, <2>4 DEF GesturesNext
<1>3. UNCHANGED touching \/ GesturesNext
  BY DEF Next, vars, Page, Handshaking, UsesClipboard, Resizes, Types, Points, OtherInput, inputs
<1> QED BY <1>1, <1>2, <1>3

-----------------------------------------------------------------------------
\* What the parts' invariants do say.
PartsInv ==
    /\ PageInv /\ InStepInv /\ ClipboardInv /\ GesturesInv /\ PointerInv /\ KeyboardInv

Typed == PageTypes /\ NegotiationTypes /\ SizeTypes /\ TouchTypes

LEMMA TypesHold ==
    ASSUME PartsInv, Typed PROVE TypeOK
<1>1. ConnectionTypeOK
  BY DEF PartsInv, Typed, PageInv, PageShape, PageFollows, PageTypes, ConnectionTypeOK
<1>2. HandshakeTypeOK
  <2>1. /\ arrived \in 0 .. Units /\ taken \in 0 .. arrived /\ Units \in Nat
    BY Scripted DEF PartsInv, InStepInv, StreamOK, Units
  <2>2. taken \in Nat /\ arrived \in Nat /\ taken <= arrived /\ arrived <= Len(script.units)
    BY <2>1 DEF Units
  <2>3. pc \in {"idle", "loop", "timer", "ra2"} /\ resumes \in Nat
    BY DEF PartsInv, InStepInv, CallsOK, ResumesOK
  <2> QED BY <2>2, <2>3 DEF Typed, NegotiationTypes, HandshakeTypeOK
<1>3. ClipboardTypeOK
  <2>1. ClipboardShape /\ Coherent BY DEF PartsInv, ClipboardInv
  <2>2. caps \subseteq Capabilities BY <2>1, CapsAreCapabilities
  <2>3. clock \in 0 .. MaxCopies /\ MaxCopies \in Nat BY <2>1, ClipboardAssumption DEF ClipboardShape
  <2>4. pasted \in Around BY DEF Around
  <2>5. held # None => held \in Around BY <2>4 DEF PartsInv, ClipboardInv, AnnouncedOnce
  <2>6. \A t \in Around : t.at \in 0 .. MaxCopies
    <3>1. \A t \in Around : t.at \in Nat /\ t.at <= clock BY <2>1, AroundIsText DEF AllTexts, Coherent
    <3> QED BY <2>3, <3>1
  <2> QED BY <2>1, <2>2, <2>3, <2>4, <2>5, <2>6 DEF ClipboardShape, Capabilities, ClipboardTypeOK
<1>4. ResizeTypeOK BY DEF Typed, SizeTypes, ResizeTypeOK
<1>5. KeyboardTypeOK
  BY DEF PartsInv, KeyboardInv, KeyboardHere, KeysOK, KeyStates, State, KeyboardTypeOK
<1>6. PointerTypeOK
  BY DEF PartsInv, PointerInv, PointerHere, AllButtons, PointerTypeOK
<1>7. GesturesTypeOK
  <2>1. ignoring \subseteq fingers BY DEF PartsInv, GesturesInv, TouchesOK
  <2>2. longpress \in BOOLEAN /\ threw \in BOOLEAN BY DEF PartsInv, GesturesInv, TimersOK
  <2>3. state \subseteq InitState
    <3>1. state \in {InitState, {}, TwoFingers, Drags} \cup {{g} : g \in InitState}
      BY StatesAre DEF PartsInv
    <3>2. TwoFingers \subseteq InitState /\ Drags \subseteq InitState
      BY DEF TwoFingers, Drags, InitState, Taps
    <3> QED BY <3>1, <3>2
  <2> QED BY <2>1, <2>2, <2>3 DEF Typed, TouchTypes, GesturesTypeOK
<1> QED BY <1>1, <1>2, <1>3, <1>4, <1>5, <1>6, <1>7 DEF TypeOK

LEMMA TypedInitially == ASSUME Init PROVE Typed
<1> USE DEF Init
<1>1. PageTypes BY DEF ConnectionInit, PageTypes
<1>2. NegotiationTypes
  <2>1. /\ script \in Servers /\ misread = FALSE /\ version = 0 /\ vencrypt = 0 /\ ra2 = "none"
        /\ tight = FALSE /\ password = FALSE
    BY DEF HandshakeInit
  <2>2. 0 \in 0 .. 4 OBVIOUS
  <2> QED BY ONLY <2>1, <2>2 DEF NegotiationTypes
<1>3. SizeTypes
  <2>1. requests \in Seq(Sizes) /\ layouts \in Seq([accepted : BOOLEAN, size : Sizes])
    BY DEF ResizeInit
  <2>2. size \in Sizes /\ desktop \in Sizes /\ expected = size /\ scaled = <<size, desktop>>
    BY DEF ResizeInit
  <2>3. changes \in 0 .. MaxChanges BY SizesAssumption DEF ResizeInit
  <2>4. /\ unseen \in BOOLEAN /\ frame \in BOOLEAN /\ timer \in BOOLEAN
        /\ settable = FALSE /\ ignored = FALSE /\ wanted = NoSize
    BY DEF ResizeInit
  <2> QED BY ONLY <2>1, <2>2, <2>3, <2>4 DEF SizeTypes
<1>4. TouchTypes BY DEF GesturesInit, TouchTypes
<1> QED BY <1>1, <1>2, <1>3, <1>4 DEF Typed

\* Every part of a console holds what it is meant to, whatever the others do.
THEOREM TypeCorrect == Spec => []TypeOK
<1>1. Init => PartsInv /\ Typed
  BY PageInit, InStepInit, ClipboardInitially, GesturesInitially, PointerInitially,
     KeyboardInitially, TypedInitially DEF PartsInv
<1>2. (PartsInv /\ Typed) /\ [Next]_vars => (PartsInv /\ Typed)'
  BY PageNext, InStepNext, ClipboardStep, GesturesStep, PointerStep, KeyboardStep,
     PageTyped, NegotiationTyped, SizeTyped, TouchTyped DEF PartsInv, Typed
<1>3. PartsInv /\ Typed => TypeOK BY TypesHold
<1> QED BY <1>1, <1>2, <1>3, PTL DEF Spec

=============================================================================
