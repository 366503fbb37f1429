---------------------------- MODULE MotionProofs ----------------------------
(***************************************************************************)
(* Theorems about Motion, for every debounce limit, hysteresis, set of     *)
(* configurations and clock width: its type invariant, that a level is     *)
(* entered and left on debounced evidence only, that presence is never     *)
(* learned as background, and that a change is stamped only when it shows. *)
(* The second part is about Csi, which counts the packets the engine's     *)
(* samples come from.                                                      *)
(***************************************************************************)
EXTENDS Motion, Csi, SequenceTheorems, TLAPS

Windows == [up : Level, dn : Level]

\* What the published result says of the engine.  A calibration in the middle of a
\* window is not published yet, and that window cannot leave Idle again.
Shown ==
  /\ result.presence <=> result.state >= PRESENCE
  /\ pc \in {"wait", "baseline", "reset"} => level = result.state /\ baseline = result.baseline
  /\ pc = "decide" =>
       \/ level = result.state /\ (level >= PRESENCE => baseline = result.baseline)
       \/ level = IDLE /\ lpf = 0 /\ feature <= baseline
  /\ pc = "publish" =>
       /\ level # prev => level # result.state
       /\ level >= PRESENCE /\ result.presence => baseline = result.baseline

\* The inductive invariant.
IInv == TypeOK /\ CountersEarned /\ Shown

-----------------------------------------------------------------------------
(* The pure parts. *)

\* A greatest element is the one CHOOSE finds.
LEMMA GreatestIsChosen ==
  ASSUME NEW S \in SUBSET Level, NEW v \in S, \A m \in S : m <= v
  PROVE  (CHOOSE l \in S : \A m \in S : m <= l) = v
<1>1. \A l \in S : (\A m \in S : m <= l) => l = v
  BY DEF Level, IDLE, HIGH_MOTION
<1>. QED BY <1>1

\* The cascade of comparisons finds the highest threshold reached.
LEMMA ClassifyIsHighest ==
  ASSUME NEW score \in Int, NEW c \in Config, NEW h \in Int
  PROVE  LET S == {IDLE} \cup {l \in 1 .. 3 : score + h >= c.threshold[l]} IN
         /\ S \in SUBSET Level
         /\ Classify(score, c, h) \in S
         /\ \A m \in S : m <= Classify(score, c, h)
<1>1. \A l \in 1 .. 3 : c.threshold[l] \in Int
  BY ConfigAssumption, ScoreAssumption
<1>2. \A l \in 1 .. 3 : score + h >= c.threshold[l] <=> score >= c.threshold[l] - h
  BY <1>1
<1>. QED BY <1>2 DEF Classify, Level, IDLE, HIGH_MOTION

\* What a window says, in the words of the documentation, is what the code computes.
LEMMA ReadingIsClassify ==
  ASSUME NEW score \in Score, NEW c \in Config
  PROVE  /\ Reading(score, c) = [up |-> Classify(score, c, 0), dn |-> Classify(score, c, Hysteresis)]
         /\ Reading(score, c) \in Windows
<1>1. score \in Int /\ 0 \in Int /\ Hysteresis \in Int
  BY HysteresisAssumption DEF Score
<1>. DEFINE S(h) == {IDLE} \cup {l \in 1 .. 3 : score + h >= c.threshold[l]}
<1>2. {IDLE} \cup {l \in 1 .. 3 : score >= c.threshold[l]} = S(0)
  BY <1>1
<1>3. \A h \in Int : (CHOOSE l \in S(h) : \A m \in S(h) : m <= l) = Classify(score, c, h)
                     /\ Classify(score, c, h) \in Level
  <2>. TAKE h \in Int
  <2>1. S(h) \in SUBSET Level /\ Classify(score, c, h) \in S(h)
        /\ \A m \in S(h) : m <= Classify(score, c, h)
    BY <1>1, ClassifyIsHighest
  <2>. HIDE DEF S
  <2>. QED BY <2>1, GreatestIsChosen
<1>4. Reading(score, c) = [up |-> CHOOSE l \in S(0) : \A m \in S(0) : m <= l,
                           dn |-> CHOOSE l \in S(Hysteresis) : \A m \in S(Hysteresis) : m <= l]
  BY <1>2 DEF Reading
<1>. HIDE DEF S
<1>5. Reading(score, c).up = Classify(score, c, 0) /\ Classify(score, c, 0) \in Level
  BY <1>1, <1>3, <1>4
<1>6. Reading(score, c).dn = Classify(score, c, Hysteresis)
      /\ Classify(score, c, Hysteresis) \in Level
  BY <1>1, <1>3, <1>4
<1>. QED BY <1>4, <1>5, <1>6 DEF Windows

\* The end of a history with one more reading.
LEMMA LastUpToProperties ==
  ASSUME NEW s \in Seq(Windows), NEW r \in Windows, NEW n \in Nat, Len(s) <= n
  PROVE  LET t == LastUpTo(Append(s, r), n) IN
         /\ t \in Seq(Windows)
         /\ Len(t) = IF Len(s) + 1 <= n THEN Len(s) + 1 ELSE n
         /\ \A i \in 1 .. Len(t) : t[i] = IF i = Len(t) THEN r ELSE s[i + Len(s) + 1 - Len(t)]
<1>. DEFINE a == Append(s, r)
            t == LastUpTo(a, n)
<1>1. /\ a \in Seq(Windows) /\ Len(a) = Len(s) + 1 /\ a[Len(s) + 1] = r
      /\ \A i \in 1 .. Len(s) : a[i] = s[i]
  BY AppendProperties
<1>2. Len(s) \in Nat
  OBVIOUS
<1>. HIDE DEF a
<1>3. CASE Len(a) <= n
  <2>1. t = a
    BY <1>3 DEF LastUpTo
  <2>2. \A i \in 1 .. Len(a) : a[i] = IF i = Len(a) THEN r ELSE s[i + Len(s) + 1 - Len(a)]
    <3>. TAKE i \in 1 .. Len(a)
    <3>1. i + Len(s) + 1 - Len(a) = i /\ (i # Len(a) => i \in 1 .. Len(s))
      BY <1>1, <1>2
    <3>. QED BY <1>1, <3>1
  <2>. QED BY <1>1, <1>3, <2>1, <2>2 DEF a
<1>4. CASE ~(Len(a) <= n)
  <2>. DEFINE k == Len(a)
              b == k - n + 1
  <2>1. k \in Nat /\ k = n + 1 /\ k = Len(s) + 1
    BY <1>1, <1>2, <1>4
  <2>2. t = SubSeq(a, b, k)
    BY <1>4 DEF LastUpTo
  <2>3. b \in Int /\ k \in Int /\ k - b + 1 = n /\ \A i \in b .. k : a[i] \in Windows
    BY <1>1, <2>1
  <2>. HIDE DEF t, b, k
  <2>4. /\ t \in Seq(Windows)
        /\ Len(t) = IF b <= k THEN k - b + 1 ELSE 0
        /\ \A i \in 1 .. k - b + 1 : t[i] = a[b + i - 1]
    BY <2>2, <2>3, SubSeqProperties
  <2>5. Len(t) = n /\ \A i \in 1 .. n : t[i] = a[i + 1]
    <3>1. Len(t) = n
      BY <2>1, <2>3, <2>4
    <3>2. \A i \in 1 .. n : b + i - 1 = i + 1
      BY <2>1, <2>3
    <3>. QED BY <2>3, <2>4, <3>1, <3>2
  <2>6. \A i \in 1 .. n : t[i] = IF i = n THEN r ELSE s[i + Len(s) + 1 - n]
    <3>. TAKE i \in 1 .. n
    <3>1. i + Len(s) + 1 - n = i + 1 /\ n + 1 = Len(s) + 1 /\ (i # n => i + 1 \in 1 .. Len(s))
      BY <2>1, <1>2
    <3>. QED BY <1>1, <2>5, <3>1
  <2>7. Len(t) = IF Len(s) + 1 <= n THEN Len(s) + 1 ELSE n
    BY <1>2, <2>1, <2>5
  <2>8. \A i \in 1 .. Len(t) : t[i] = IF i = Len(t) THEN r ELSE s[i + Len(s) + 1 - Len(t)]
    BY <2>5, <2>6
  <2>. QED BY <2>4, <2>7, <2>8 DEF t, a
<1>. QED BY <1>3, <1>4

-----------------------------------------------------------------------------
(* Types. *)

\* An EMA of naturals is a natural, of scores a score.
LEMMA BetweenRange ==
  ASSUME NEW a \in Nat, NEW b \in Nat, NEW x \in Between(a, b)
  PROVE  x \in Nat /\ (a <= ScoreMax /\ b <= ScoreMax => x \in Score)
BY ScoreAssumption DEF Between, Score

\* One step of the debounced state machine, branch by branch: the branch taken says
\* what the window read.
LEMMA StepLevelCases ==
  ASSUME NEW l \in Level, NEW r \in 0 .. DebounceRise - 1, NEW f \in 0 .. DebounceFall - 1,
         NEW up \in Level, NEW dn \in Level
  PROVE  LET st == StepLevel([level |-> l, rise |-> r, fall |-> f], up, dn) IN
         \/ st.level = up /\ st.rise = 0 /\ st.fall = 0 /\ up > l /\ r = DebounceRise - 1
         \/ st.level = l /\ st.rise = r + 1 /\ st.fall = 0 /\ up > l /\ r + 1 < DebounceRise
         \/ st.level = dn /\ st.rise = 0 /\ st.fall = 0 /\ dn < l /\ f = DebounceFall - 1
         \/ st.level = l /\ st.rise = 0 /\ st.fall = f + 1 /\ dn < l /\ f + 1 < DebounceFall
         \/ st.level = l /\ st.rise = 0 /\ st.fall = 0
<1>. DEFINE s == [level |-> l, rise |-> r, fall |-> f]
<1>0. l \in Int /\ r \in Int /\ f \in Int /\ up \in Int /\ dn \in Int
      /\ DebounceRise \in Int /\ DebounceFall \in Int
  BY DebounceAssumption DEF Level, IDLE, HIGH_MOTION
<1>1. s \in [level : Int, rise : Int, fall : Int] /\ s.level = l /\ s.rise = r /\ s.fall = f
  BY <1>0
<1>. HIDE DEF s
<1>2. CASE up > l
  BY <1>0, <1>1, <1>2 DEF StepLevel, RiseConfirmed
<1>3. CASE ~(up > l) /\ dn < l
  BY <1>0, <1>1, <1>3 DEF StepLevel, FallConfirmed
<1>4. CASE ~(up > l) /\ ~(dn < l)
  BY <1>1, <1>4 DEF StepLevel, Undecided
<1>. QED BY <1>2, <1>3, <1>4 DEF s

\* The decision of a window, in one place.
LEMMA DecideCases ==
  ASSUME TypeOK, Decide
  PROVE  LET r == Reading(lpf', cfg) IN
         /\ lpf' \in Score /\ r \in Windows
         /\ \/ level' = r.up /\ rise' = 0 /\ fall' = 0 /\ r.up > level /\ rise = DebounceRise - 1
            \/ level' = level /\ rise' = rise + 1 /\ fall' = 0 /\ r.up > level
               /\ rise + 1 < DebounceRise
            \/ level' = r.dn /\ rise' = 0 /\ fall' = 0 /\ r.dn < level /\ fall = DebounceFall - 1
            \/ level' = level /\ rise' = 0 /\ fall' = fall + 1 /\ r.dn < level
               /\ fall + 1 < DebounceFall
            \/ level' = level /\ rise' = 0 /\ fall' = 0
<1>. DEFINE r == Reading(lpf', cfg)
            st == StepLevel([level |-> level, rise |-> rise, fall |-> fall],
                            Classify(lpf', cfg, 0), Classify(lpf', cfg, Hysteresis))
<1>1. PICK raw \in Normalised(feature, baseline) : lpf' \in Between(lpf, raw)
  BY DEF Decide
<1>2. raw \in Score
  BY <1>1, ScoreAssumption DEF Normalised, Score
<1>3. lpf' \in Score
  BY <1>1, <1>2, BetweenRange DEF TypeOK, Score
<1>4. r = [up |-> Classify(lpf', cfg, 0), dn |-> Classify(lpf', cfg, Hysteresis)] /\ r \in Windows
  BY <1>3, ReadingIsClassify DEF TypeOK
<1>5. st = StepLevel([level |-> level, rise |-> rise, fall |-> fall], r.up, r.dn)
      /\ r.up \in Level /\ r.dn \in Level
  BY <1>4 DEF Windows
<1>6. level' = st.level /\ rise' = st.rise /\ fall' = st.fall
  BY DEF Decide
<1>. HIDE DEF r, st
<1>7. \/ st.level = r.up /\ st.rise = 0 /\ st.fall = 0 /\ r.up > level /\ rise = DebounceRise - 1
      \/ st.level = level /\ st.rise = rise + 1 /\ st.fall = 0 /\ r.up > level
         /\ rise + 1 < DebounceRise
      \/ st.level = r.dn /\ st.rise = 0 /\ st.fall = 0 /\ r.dn < level /\ fall = DebounceFall - 1
      \/ st.level = level /\ st.rise = 0 /\ st.fall = fall + 1 /\ r.dn < level
         /\ fall + 1 < DebounceFall
      \/ st.level = level /\ st.rise = 0 /\ st.fall = 0
  BY <1>5, StepLevelCases DEF TypeOK
<1>. QED BY <1>3, <1>4, <1>6, <1>7 DEF r

\* A decision keeps the types, and the history of readings with it.
LEMMA DecideTyped ==
  ASSUME TypeOK, Decide
  PROVE  /\ lpf' \in Score /\ level' \in Level
         /\ rise' \in 0 .. DebounceRise - 1 /\ fall' \in 0 .. DebounceFall - 1
         /\ windows' \in Seq(Windows) /\ Len(windows') < DebounceFall
<1>. DEFINE r == Reading(lpf', cfg)
<1>1. r \in Windows /\ r.up \in Level /\ r.dn \in Level /\ lpf' \in Score
  BY DecideCases DEF Windows
<1>2. windows \in Seq(Windows) /\ Len(windows) \in Nat /\ Len(windows) <= DebounceFall - 1
      /\ DebounceFall - 1 \in Nat
  BY DebounceAssumption DEF TypeOK, Windows
<1>3. windows' = IF level' = level THEN LastUpTo(Append(windows, r), DebounceFall - 1) ELSE <<>>
  BY DEF Decide
<1>. HIDE DEF r
<1>4. windows' \in Seq(Windows) /\ Len(windows') <= DebounceFall - 1
  <2>1. CASE level' = level
    BY <1>1, <1>2, <1>3, <2>1, LastUpToProperties
  <2>2. CASE level' # level
    BY <1>2, <1>3, <2>2, EmptySeq
  <2>. QED BY <2>1, <2>2
<1>5. Len(windows') < DebounceFall
  BY <1>2, <1>4, DebounceAssumption
<1>6. level' \in Level /\ rise' \in 0 .. DebounceRise - 1 /\ fall' \in 0 .. DebounceFall - 1
  BY <1>1, DecideCases, DebounceAssumption DEF TypeOK, r
<1>. QED BY <1>1, <1>4, <1>5, <1>6

\* Every step keeps the types.
LEMMA TypeStep == TypeOK /\ [Next]_vars => TypeOK'
<1>. SUFFICES ASSUME TypeOK, [Next]_vars PROVE TypeOK'
  OBVIOUS
<1>1. CASE TakeWindow
  BY <1>1, FeatureAssumption DEF TakeWindow, env, engine, shown, TypeOK
<1>2. CASE TrackBaseline
  <2>1. baseline' \in Nat
    BY <1>2, BetweenRange DEF TrackBaseline, TypeOK
  <2>. QED BY <1>2, <2>1 DEF TrackBaseline, env, shown, local, TypeOK
<1>3. CASE Calibrate
  <2>1. windows' \in Seq([up : Level, dn : Level]) /\ Len(windows') = 0
    BY <1>3, EmptySeq DEF Calibrate
  <2>2. /\ 0 \in 0 .. DebounceRise - 1 /\ 0 \in 0 .. DebounceFall - 1 /\ 0 < DebounceFall
        /\ 0 \in Score /\ IDLE \in Level
    BY DebounceAssumption, ScoreAssumption DEF Score, Level, IDLE, HIGH_MOTION
  <2>. QED BY <1>3, <2>1, <2>2 DEF Calibrate, shown, local, TypeOK
<1>4. CASE Decide
  <2>1. windows' \in Seq([up : Level, dn : Level])
    BY <1>4, DecideTyped DEF Windows
  <2>. QED BY <1>4, <2>1, DecideTyped DEF Decide, env, shown, TypeOK
<1>5. CASE Publish
  <2>1. result' \in [state : Level, presence : BOOLEAN, score : Score, baseline : Nat,
                     last_change : 0 .. ClockMod - 1, state_since : 0 .. ClockMod - 1]
    BY <1>5 DEF Publish, TypeOK
  <2>2. IDLE \in Level
    BY DEF Level, IDLE, HIGH_MOTION
  <2>. QED BY <1>5, <2>1, <2>2 DEF Publish, env, engine, TypeOK
<1>6. CASE RequestCalibration
  BY <1>6 DEF RequestCalibration, engine, shown, local, TypeOK
<1>7. CASE SetConfig
  BY <1>7 DEF SetConfig, engine, shown, local, TypeOK
<1>8. CASE Tick
  <2>1. clock' \in 0 .. ClockMod - 1
    BY <1>8, ClockAssumption DEF Tick, TypeOK
  <2>. QED BY <1>8, <2>1 DEF Tick, env, engine, shown, local, TypeOK
<1>9. CASE UNCHANGED vars
  BY <1>9 DEF vars, env, engine, shown, local, TypeOK
<1>. QED
  BY <1>1, <1>2, <1>3, <1>4, <1>5, <1>6, <1>7, <1>8, <1>9 DEF Next, MotionTask

-----------------------------------------------------------------------------
(* The evidence behind a pending rise or fall. *)

\* The last n readings of w are all above, or all below, the level l.
AllAbove(w, n, l) == Len(w) >= n /\ \A i \in Len(w) - n + 1 .. Len(w) : w[i].up > l
AllBelow(w, n, l) == Len(w) >= n /\ \A i \in Len(w) - n + 1 .. Len(w) : w[i].dn < l

LEMMA EarnedUnfolded ==
  CountersEarned <=> AllAbove(windows, rise, level) /\ AllBelow(windows, fall, level)
BY DEF CountersEarned, Preceded, AllAbove, AllBelow

LEMMA EarnedUnfoldedPrimed ==
  CountersEarned' <=> AllAbove(windows', rise', level') /\ AllBelow(windows', fall', level')
BY DEF CountersEarned, Preceded, AllAbove, AllBelow

\* One more reading of the same kind lengthens the run behind a counter.
LEMMA RunGrows ==
  ASSUME NEW s \in Seq(Windows), NEW r \in Windows, NEW n \in Nat, Len(s) <= n,
         NEW k \in 0 .. n - 1, NEW l \in Level
  PROVE  LET t == LastUpTo(Append(s, r), n) IN
         /\ AllAbove(s, k, l) /\ r.up > l => AllAbove(t, k + 1, l)
         /\ AllBelow(s, k, l) /\ r.dn < l => AllBelow(t, k + 1, l)
<1>. DEFINE t == LastUpTo(Append(s, r), n)
<1>1. /\ Len(t) = IF Len(s) + 1 <= n THEN Len(s) + 1 ELSE n
      /\ \A i \in 1 .. Len(t) : t[i] = IF i = Len(t) THEN r ELSE s[i + Len(s) + 1 - Len(t)]
  BY LastUpToProperties
<1>. HIDE DEF t
<1>. DEFINE m == Len(s)
            u == Len(t)
<1>2. m \in Nat
  OBVIOUS
<1>. HIDE DEF m, u
<1>3. u \in Nat /\ u <= m + 1 /\ (m >= k => u >= k + 1)
  BY <1>1, <1>2 DEF m, u
<1>4. ASSUME m >= k, NEW i \in u - (k + 1) + 1 .. u
      PROVE  t[i] = r \/ (i + m + 1 - u \in m - k + 1 .. m /\ t[i] = s[i + m + 1 - u])
  <2>1. i \in 1 .. u
    BY <1>2, <1>3, <1>4
  <2>2. t[i] = IF i = u THEN r ELSE s[i + m + 1 - u]
    BY <1>1, <2>1 DEF m, u
  <2>3. i # u => i + m + 1 - u \in m - k + 1 .. m
    BY <1>2, <1>3, <1>4
  <2>. QED BY <2>2, <2>3
<1>5. AllAbove(s, k, l) /\ r.up > l => AllAbove(t, k + 1, l)
  BY <1>3, <1>4 DEF AllAbove, m, u
<1>6. AllBelow(s, k, l) /\ r.dn < l => AllBelow(t, k + 1, l)
  BY <1>3, <1>4 DEF AllBelow, m, u
<1>. QED BY <1>5, <1>6 DEF t

\* A counter at zero needs no evidence.
LEMMA NoEvidenceNeeded ==
  ASSUME NEW s \in Seq(Windows), NEW l
  PROVE  AllAbove(s, 0, l) /\ AllBelow(s, 0, l)
<1>1. Len(s) \in Nat
  OBVIOUS
<1>. QED BY <1>1 DEF AllAbove, AllBelow

\* The counters stay earned.
LEMMA EarnedStep == TypeOK /\ TypeOK' /\ CountersEarned /\ [Next]_vars => CountersEarned'
<1>. SUFFICES ASSUME TypeOK, TypeOK', CountersEarned, [Next]_vars
             PROVE  AllAbove(windows', rise', level') /\ AllBelow(windows', fall', level')
  BY EarnedUnfoldedPrimed
<1>0. windows \in Seq(Windows) /\ windows' \in Seq(Windows)
  BY DEF TypeOK, Windows
<1>1. CASE Calibrate
  BY <1>0, <1>1, NoEvidenceNeeded DEF Calibrate
<1>2. CASE Decide
  <2>. DEFINE r == Reading(lpf', cfg)
              d == DebounceFall - 1
  <2>0. r \in Windows
    BY <1>2, DecideCases
  <2>1. d \in Nat /\ Len(windows) <= d
    BY DebounceAssumption, <1>0, SMTT(20) DEF TypeOK
  <2>2. level' = level => windows' = LastUpTo(Append(windows, r), d)
    BY <1>2 DEF Decide
  <2>. HIDE DEF r, d
  <2>3. CASE level' = level /\ rise' = rise + 1 /\ fall' = 0 /\ r.up > level
             /\ rise + 1 < DebounceRise
    <3>1. rise \in 0 .. d - 1 /\ level \in Level
      BY <2>3, DebounceAssumption DEF TypeOK, d
    <3>2. AllAbove(windows, rise, level)
      BY EarnedUnfolded
    <3>3. AllAbove(windows', rise', level')
      BY <1>0, <2>0, <2>1, <2>2, <2>3, <3>1, <3>2, RunGrows
    <3>4. AllBelow(windows', fall', level')
      BY <1>0, <2>3, NoEvidenceNeeded
    <3>. QED BY <3>3, <3>4
  <2>4. CASE level' = level /\ fall' = fall + 1 /\ rise' = 0 /\ r.dn < level
             /\ fall + 1 < DebounceFall
    <3>1. fall \in 0 .. d - 1 /\ level \in Level
      BY <2>4, DebounceAssumption DEF TypeOK, d
    <3>2. AllBelow(windows, fall, level)
      BY EarnedUnfolded
    <3>3. AllBelow(windows', fall', level')
      BY <1>0, <2>0, <2>1, <2>2, <2>4, <3>1, <3>2, RunGrows
    <3>4. AllAbove(windows', rise', level')
      BY <1>0, <2>4, NoEvidenceNeeded
    <3>. QED BY <3>3, <3>4
  <2>5. CASE rise' = 0 /\ fall' = 0
    BY <1>0, <2>5, NoEvidenceNeeded
  <2>. QED BY <1>2, <2>3, <2>4, <2>5, DecideCases DEF r
<1>3. CASE UNCHANGED <<windows, rise, fall, level>>
  BY <1>3, EarnedUnfolded
<1>4. TakeWindow \/ TrackBaseline \/ Publish \/ RequestCalibration \/ SetConfig \/ Tick
        \/ UNCHANGED vars => UNCHANGED <<windows, rise, fall, level>>
  BY DEF TakeWindow, TrackBaseline, Publish, RequestCalibration, SetConfig, Tick, vars, engine
<1>. QED BY <1>1, <1>2, <1>3, <1>4 DEF Next, MotionTask

-----------------------------------------------------------------------------
(* What the published result says of the engine. *)

\* A window that finds nothing above its baseline reads Idle.
LEMMA NothingReadsIdle ==
  ASSUME TypeOK, Decide, level = IDLE, lpf = 0, feature <= baseline
  PROVE  level' = IDLE
<1>1. lpf' = 0
  BY DEF Decide, Normalised, Between, TypeOK, Score
<1>2. \A l \in 1 .. 3 : cfg.threshold[l] \in 1 .. ScoreMax
  BY ConfigAssumption DEF TypeOK
<1>3. Classify(0, cfg, 0) = IDLE
  BY <1>2, ScoreAssumption DEF Classify
<1>4. Reading(lpf', cfg).up = IDLE
  BY <1>1, <1>3, ReadingIsClassify, ScoreAssumption DEF TypeOK, Score
<1>5. Reading(lpf', cfg).dn \in Level
  BY DecideCases DEF Windows
<1>. QED BY <1>4, <1>5, DecideCases DEF IDLE, Level, HIGH_MOTION

\* The result stays true of the engine.
LEMMA ShownStep == TypeOK /\ TypeOK' /\ Shown /\ [Next]_vars => Shown'
<1>. SUFFICES ASSUME TypeOK, TypeOK', Shown, [Next]_vars PROVE Shown'
  OBVIOUS
<1>. USE DEF Shown
<1>1. CASE TakeWindow
  BY <1>1 DEF TakeWindow, engine, shown
<1>2. CASE TrackBaseline
  BY <1>2 DEF TrackBaseline, Adapts, shown, IDLE, PRESENCE
<1>3. CASE Calibrate
  BY <1>3 DEF Calibrate, shown, local, TypeOK
<1>4. CASE Decide
  <2>1. UNCHANGED <<baseline, result>> /\ prev' = level /\ pc' = "publish"
    BY <1>4 DEF Decide, shown
  <2>2. CASE level = result.state /\ (level >= PRESENCE => baseline = result.baseline)
    BY <1>4, <2>1, <2>2 DEF Decide
  <2>3. CASE level = IDLE /\ lpf = 0 /\ feature <= baseline
    BY <2>1, <2>3, <1>4, NothingReadsIdle DEF IDLE, PRESENCE
  <2>. QED BY <1>4, <2>2, <2>3 DEF Decide
<1>5. CASE Publish
  BY <1>5 DEF Publish, engine
<1>6. CASE RequestCalibration
  BY <1>6 DEF RequestCalibration, engine, shown, local
<1>7. CASE SetConfig
  BY <1>7 DEF SetConfig, engine, shown, local
<1>8. CASE Tick
  BY <1>8 DEF Tick, engine, shown, local
<1>9. CASE UNCHANGED vars
  BY <1>9 DEF vars, engine, shown, local
<1>. QED
  BY <1>1, <1>2, <1>3, <1>4, <1>5, <1>6, <1>7, <1>8, <1>9 DEF Next, MotionTask

-----------------------------------------------------------------------------
(* The theorems. *)

\* The engine starts in Idle with nothing published, nothing pending, no history.
LEMMA InitIInv == Init => IInv
<1>. SUFFICES ASSUME Init PROVE IInv
  OBVIOUS
<1>1. TypeOK
  <2>1. windows \in Seq([up : Level, dn : Level]) /\ Len(windows) = 0
    BY EmptySeq DEF Init
  <2>2. /\ 0 \in 0 .. DebounceRise - 1 /\ 0 \in 0 .. DebounceFall - 1 /\ 0 < DebounceFall
        /\ 0 \in Score /\ IDLE \in Level /\ 0 \in 0 .. ClockMod - 1
    BY DebounceAssumption, ScoreAssumption, ClockAssumption DEF Score, Level, IDLE, HIGH_MOTION
  <2>. QED BY <2>1, <2>2 DEF Init, TypeOK
<1>2. CountersEarned
  <2>1. windows \in Seq(Windows) /\ rise = 0 /\ fall = 0
    BY <1>1 DEF Init, TypeOK, Windows
  <2>. QED BY <2>1, EarnedUnfolded, NoEvidenceNeeded
<1>3. Shown
  BY DEF Init, Shown, IDLE, PRESENCE
<1>. QED BY <1>1, <1>2, <1>3 DEF IInv

\* Types, evidence and publication agree in every reachable state.
THEOREM InductiveInvariant == Spec => []IInv
<1>1. IInv /\ [Next]_vars => IInv'
  BY TypeStep, EarnedStep, ShownStep DEF IInv
<1>. QED BY InitIInv, <1>1, PTL DEF Spec

\* Every variable keeps its type: a debounce counter never reaches its limit, whatever
\* the limits, and scores stay on their scale.
THEOREM TypeCorrect == Spec => []TypeOK
<1>1. IInv => TypeOK
  BY DEF IInv
<1>. QED BY InductiveInvariant, <1>1, PTL

\* A pending rise or fall has as many consecutive windows behind it as its counter says,
\* through retuned thresholds and calibrations.
THEOREM CountersAlwaysEarned == Spec => []CountersEarned
<1>1. IInv => CountersEarned
  BY DEF IInv
<1>. QED BY InductiveInvariant, <1>1, PTL

\* The windows before a change of level are those its counter has counted.
LEMMA DebouncedStep ==
  ASSUME IInv, Next
  PROVE  /\ level' > level =>
              /\ AllAbove(windows, DebounceRise - 1, level)
              /\ Reading(lpf', cfg).up > level
         /\ level' < level /\ pc # "reset" =>
              /\ AllBelow(windows, DebounceFall - 1, level)
              /\ Reading(lpf', cfg).dn < level
<1>0. TypeOK /\ level \in Int /\ level >= IDLE
      /\ AllAbove(windows, rise, level) /\ AllBelow(windows, fall, level)
  BY EarnedUnfolded DEF IInv, TypeOK, Level, IDLE, HIGH_MOTION
<1>1. CASE Decide
  <2>. DEFINE r == Reading(lpf', cfg)
  <2>1. r.up \in Int /\ r.dn \in Int
    BY <1>0, <1>1, DecideCases DEF Windows, Level, IDLE, HIGH_MOTION
  <2>. HIDE DEF r
  <2>2. \/ level' = r.up /\ r.up > level /\ rise = DebounceRise - 1
        \/ level' = r.dn /\ r.dn < level /\ fall = DebounceFall - 1
        \/ level' = level
    BY <1>0, <1>1, DecideCases DEF r
  <2>. QED BY <1>0, <2>1, <2>2 DEF r
<1>2. CASE Calibrate
  BY <1>0, <1>2 DEF Calibrate, IDLE
<1>3. ~ Decide /\ ~ Calibrate => level' = level
  BY DEF Next, MotionTask, TakeWindow, TrackBaseline, Publish, RequestCalibration, SetConfig, Tick,
         engine
<1>. QED BY <1>0, <1>1, <1>2, <1>3

\* No level is entered or left on less than the debounced evidence, whatever the
\* debounce limits and however the user retunes or recalibrates in between.
THEOREM LevelAlwaysDebounced == Spec => LevelDebounced
<1>1. IInv /\ [Next]_vars =>
        [LET Above(w) == w.up > level
             Below(w) == w.dn < level IN
         /\ level' > level =>
              Preceded(DebounceRise - 1, Above) /\ Above(Reading(lpf', cfg))
         /\ level' < level /\ pc # "reset" =>
              Preceded(DebounceFall - 1, Below) /\ Below(Reading(lpf', cfg))]_vars
  BY DebouncedStep DEF Preceded, AllAbove, AllBelow
<1>. QED BY InductiveInvariant, <1>1, PTL DEF Spec, LevelDebounced

\* While presence stays reported the reported baseline stands still: neither the
\* adaptation nor a calibration in the middle of a window learns a person as background.
THEOREM PresenceNeverLearned == Spec => PresenceNotLearned
<1>1. IInv /\ [Next]_vars =>
        [result.presence /\ result'.presence => result'.baseline = result.baseline]_vars
  <2>. SUFFICES ASSUME IInv, Next, result.presence, result'.presence
               PROVE  result'.baseline = result.baseline
    OBVIOUS
  <2>1. CASE Publish
    BY <2>1 DEF Publish, IInv, Shown
  <2>2. ~ Publish => result' = result
    BY DEF Next, MotionTask, TakeWindow, TrackBaseline, Calibrate, Decide, RequestCalibration,
           SetConfig, Tick, shown
  <2>. QED BY <2>1, <2>2
<1>. QED BY InductiveInvariant, <1>1, PTL DEF Spec, PresenceNotLearned

\* The time of the last change moves only together with the reported state.
THEOREM ChangeStampsAlwaysHonest == Spec => ChangeStampsHonest
<1>1. IInv /\ [Next]_vars =>
        [result'.last_change # result.last_change => result'.state # result.state]_vars
  <2>. SUFFICES ASSUME IInv, Next, result'.last_change # result.last_change
               PROVE  result'.state # result.state
    OBVIOUS
  <2>1. CASE Publish
    BY <2>1 DEF Publish, Changed, IInv, Shown
  <2>2. ~ Publish => result' = result
    BY DEF Next, MotionTask, TakeWindow, TrackBaseline, Calibrate, Decide, RequestCalibration,
           SetConfig, Tick, shown
  <2>. QED BY <2>1, <2>2
<1>. QED BY InductiveInvariant, <1>1, PTL DEF Spec, ChangeStampsHonest

(* What the deviations from the documentation are confined to. *)

\* A rise by one level rests on windows that each qualify for the level entered, as
\* ARCHITECTURE.md has it: only a level entered past another (Presence skipped on the way
\* to Motion) may rest on evidence for a lower one.
EntryOfNextQualified ==
  [][level' = level + 1 =>
       LET Qualifies(w) == w.up >= level' IN Preceded(DebounceRise - 1, Qualifies)]_vars

THEOREM NextLevelAlwaysQualified == Spec => EntryOfNextQualified
<1>1. IInv /\ [Next]_vars =>
        [level' = level + 1 =>
           LET Qualifies(w) == w.up >= level' IN Preceded(DebounceRise - 1, Qualifies)]_vars
  <2>. SUFFICES ASSUME IInv, Next, level' = level + 1
               PROVE  LET Qualifies(w) == w.up >= level' IN Preceded(DebounceRise - 1, Qualifies)
    OBVIOUS
  <2>1. level \in Int /\ DebounceRise - 1 \in Int /\ windows \in Seq(Windows)
    BY DebounceAssumption DEF IInv, TypeOK, Windows, Level, IDLE, HIGH_MOTION
  <2>2. AllAbove(windows, DebounceRise - 1, level)
    BY <2>1, DebouncedStep
  <2>3. Len(windows) >= DebounceRise - 1
    BY <2>2 DEF AllAbove
  <2>4. ASSUME NEW i \in Len(windows) - (DebounceRise - 1) + 1 .. Len(windows)
        PROVE  windows[i].up >= level'
    <3>1. i \in 1 .. Len(windows)
      BY <2>1, <2>3
    <3>2. windows[i].up \in Int
      <4>1. windows[i] \in Windows
        BY <2>1, <3>1, ElementOfSeq
      <4>. QED BY <4>1 DEF Windows, Level, IDLE, HIGH_MOTION
    <3>3. windows[i].up > level
      BY <2>2 DEF AllAbove
    <3>. QED BY <2>1, <3>2, <3>3
  <2>. QED BY <2>3, <2>4 DEF Preceded
<1>. QED BY InductiveInvariant, <1>1, PTL DEF Spec, EntryOfNextQualified

\* Every reported state but Idle bears the time at which it began, as motion.h says: only
\* the Idle that a calibration brings may keep an older stamp (motion_process).
ActivityStamped ==
  [][result'.state # result.state /\ result'.state # IDLE
       => result'.state_since = clock /\ result'.last_change = clock]_vars

\* A level that the window did not change is the one reported, or Idle.
Stamped == pc = "publish" /\ level = prev => level \in {result.state, IDLE}

THEOREM ActivityAlwaysStamped == Spec => ActivityStamped
<1>1. Init => Stamped
  BY DEF Init, Stamped
<1>2. IInv /\ Stamped /\ [Next]_vars => Stamped'
  <2>. SUFFICES ASSUME IInv, Stamped, [Next]_vars PROVE Stamped'
    OBVIOUS
  <2>1. CASE Decide
    <3>1. prev' = level /\ result' = result /\ pc = "decide"
      BY <2>1 DEF Decide, shown
    <3>2. level \in {result.state, IDLE}
      BY <3>1 DEF IInv, Shown
    <3>. QED BY <3>1, <3>2 DEF Stamped
  <2>2. CASE TakeWindow \/ TrackBaseline \/ Calibrate \/ Publish
    BY <2>2 DEF TakeWindow, TrackBaseline, Calibrate, Publish, Stamped
  <2>3. CASE RequestCalibration \/ SetConfig \/ Tick \/ UNCHANGED vars
    BY <2>3 DEF RequestCalibration, SetConfig, Tick, engine, shown, local, vars, Stamped
  <2>. QED BY <2>1, <2>2, <2>3 DEF Next, MotionTask
<1>3. Stamped /\ [Next]_vars =>
        [result'.state # result.state /\ result'.state # IDLE
           => result'.state_since = clock /\ result'.last_change = clock]_vars
  <2>. SUFFICES ASSUME Stamped, Next, result'.state # result.state, result'.state # IDLE
               PROVE  result'.state_since = clock /\ result'.last_change = clock
    OBVIOUS
  <2>1. CASE Publish
    <3>1. result'.state = level /\ level # prev
      BY <2>1 DEF Publish, Stamped
    <3>. QED BY <2>1, <3>1 DEF Publish, Changed
  <2>2. ~ Publish => result' = result
    BY DEF Next, MotionTask, TakeWindow, TrackBaseline, Calibrate, Decide, RequestCalibration,
           SetConfig, Tick, shown
  <2>. QED BY <2>1, <2>2
<1>. QED BY InductiveInvariant, <1>1, <1>2, <1>3, PTL DEF Spec, ActivityStamped

-----------------------------------------------------------------------------
(***************************************************************************)
(* The measurements the engine works on: Csi, for any radix Half of the    *)
(* halves of a 64-bit counter and any bound MaxHeard on the packets heard. *)
(* What it says of packets, rates and reports has no part in the engine's  *)
(* theorems above, nor they in its own.                                    *)
(***************************************************************************)

(* Packets counted: any number that fits the 64 bits. *)

Digit == 0 .. Half - 1
HalfNames == {"high", "low"}

\* The variables the callback works on have their types.
Counted ==
  /\ total \in [high : Digit, low : Digit]
  /\ rx \in [at : {"idle", "push", "count", "try", "publish"}, sum : [high : Digit, low : Digit],
             half : {"none"} \cup HalfNames]
  /\ heard \in 0 .. MaxHeard /\ stored \in Nat /\ dropped \in Nat

\* Where the callback is says how far the total is behind the packets heard.
Accounts ==
  /\ rx.at # "count" => rx.half = "none"
  /\ rx.at = "push" => heard > 0 /\ Value(total) = heard - 1 /\ stored + dropped = heard - 1
  /\ rx.at = "count" =>
       /\ Value(rx.sum) = heard /\ stored + dropped = heard
       /\ \A h \in HalfNames : rx.half = h => total[h] = rx.sum[h]
  /\ rx.at \in {"idle", "try", "publish"} => Value(total) = heard /\ stored + dropped = heard

Accounted == Counted /\ Accounts

\* A number of 64 bits is the sum of its halves.
LEMMA HalvesOfNumber ==
  ASSUME NEW n \in Nat, n < Half * Half
  PROVE  Halves(n) \in [high : Digit, low : Digit] /\ Value(Halves(n)) = n
<1>. USE HalfAssumption, HeardAssumption
<1>. DEFINE q == n \div Half
            r == n % Half
<1>1. q \in Nat /\ r \in Nat /\ r < Half /\ n = Half * q + r
  OBVIOUS
<1>. HIDE DEF q, r
<1>2. q < Half
  <2>. SUFFICES ASSUME q >= Half PROVE FALSE
    BY <1>1
  <2>1. Half * q >= Half * Half
    BY <1>1
  <2>. QED BY <1>1, <2>1
<1>3. q % Half = q
  BY <1>1, <1>2
<1>4. Halves(n) = [high |-> q, low |-> r]
  BY <1>3 DEF Halves, q, r
<1>5. q * Half = Half * q
  BY <1>1
<1>. QED BY <1>1, <1>2, <1>4, <1>5 DEF Digit, Value

\* A number of 32 bits is its low half.
LEMMA HalvesOfSmall ==
  ASSUME NEW n \in Digit
  PROVE  Halves(n) = [high |-> 0, low |-> n]
<1>. USE HalfAssumption, HeardAssumption
<1>1. n \div Half = 0 /\ n % Half = n /\ 0 % Half = 0
  BY DEF Digit
<1>. QED BY <1>1 DEF Halves

\* The callback keeps its accounts; nobody else touches them.
LEMMA AccountedStep ==
  ASSUME MaxHeard < Half * Half,
         Accounted, [CsiNext]_CsiVars
  PROVE  Accounted'
<1>. USE HalfAssumption, HeardAssumption
<1>. USE DEF Accounted
<1>1. CASE Receive
  BY <1>1 DEF Receive, Others, Counted, Accounts, Value
<1>2. CASE Push
  <2>1. Value(total) + 1 = heard /\ heard \in Nat /\ heard < Half * Half
    BY <1>2 DEF Push, Counted, Accounts
  <2>2. /\ Halves(heard) \in [high : Digit, low : Digit]
        /\ Value(Halves(heard)) = heard
    BY <2>1, HalvesOfNumber
  <2>. DEFINE s == Halves(heard)
  <2>3. /\ rx' = [rx EXCEPT !.at = "count", !.sum = s]
        /\ total' = total /\ heard' = heard
        /\ \/ stored' = stored + 1 /\ dropped' = dropped
           \/ dropped' = dropped + 1 /\ stored' = stored
    BY <1>2, <2>1 DEF Push
  <2>. HIDE DEF s
  <2>4. s \in [high : Digit, low : Digit] /\ Value(s) = heard
    BY <2>2 DEF s
  <2>5. rx.at = "push" /\ rx.half = "none"
    BY <1>2 DEF Push, Accounts
  <2>6. /\ rx'.at = "count" /\ rx'.sum = s /\ rx'.half = "none"
        /\ rx' \in [at : {"idle", "push", "count", "try", "publish"},
                    sum : [high : Digit, low : Digit], half : {"none"} \cup HalfNames]
    BY <2>3, <2>4, <2>5 DEF Counted
  <2>7. Counted'
    BY <2>3, <2>6 DEF Counted, Digit
  <2>8. Value(rx.sum)' = heard'
    BY <2>3, <2>4, <2>6 DEF Value
  <2>. QED BY <2>1, <2>3, <2>5, <2>6, <2>7, <2>8 DEF Accounts, Counted, HalfNames
<1>3. CASE Count
  <2>1. PICK h \in HalfNames : StoreHalf(h)
    BY <1>3 DEF Count, HalfNames
  <2>2. /\ total' = [total EXCEPT ![h] = rx.sum[h]]
        /\ heard' = heard /\ stored' = stored /\ dropped' = dropped
        /\ rx.at = "count" /\ rx.half # h
    BY <2>1 DEF StoreHalf
  <2>3. total'[h] = rx.sum[h] /\ \A g \in HalfNames : g # h => total'[g] = total[g]
    BY <2>2 DEF Counted, HalfNames
  <2>4. CASE rx.half = "none"
    <3>1. rx' = [rx EXCEPT !.half = h]
      BY <2>1, <2>4 DEF StoreHalf
    <3>. QED BY <2>2, <2>3, <3>1 DEF Counted, Accounts, HalfNames, Value
  <2>5. CASE rx.half # "none"
    <3>1. rx' = [rx EXCEPT !.at = "try", !.half = "none"]
      BY <2>1, <2>5 DEF StoreHalf
    <3>2. total'["high"] = rx.sum["high"] /\ total'["low"] = rx.sum["low"]
      BY <2>2, <2>3, <2>5 DEF Counted, Accounts, HalfNames
    <3>3. Value(total)' = heard'
      BY <2>2, <3>2 DEF Value, Accounts
    <3>4. Counted'
      BY <2>2, <3>1 DEF Counted, HalfNames
    <3>. QED BY <2>2, <3>1, <3>3, <3>4 DEF Accounts, Counted
  <2>. QED BY <2>4, <2>5
<1>4. CASE TryLock
  BY <1>4 DEF TryLock, Others, Counted, Accounts, Value
<1>5. CASE PublishPacket
  BY <1>5 DEF PublishPacket, Others, Counted, Accounts, Value
<1>6. CASE TaskStep \/ ReaderStep \/ UNCHANGED CsiVars
  <2>1. UNCHANGED <<total, rx, heard, stored, dropped>>
    BY <1>6 DEF TaskStep, Wake, ReadTotal, TaskLocks, PublishRate, ReaderStep,
                Ask, ReaderLocks, Copy, ReadLive, Report, CsiVars, counters
  <2>. QED BY <2>1 DEF Counted, Accounts, Value
<1>. QED BY <1>1, <1>2, <1>3, <1>4, <1>5, <1>6 DEF CsiNext, RxStep

\* "Always counted, even if the metrics lock is busy", until 64 bits overflow.
THEOREM PacketsAlwaysAccounted ==
  ASSUME MaxHeard < Half * Half
  PROVE  CsiSpec => []PacketsAccounted
<1>. USE HalfAssumption, HeardAssumption
<1>1. CsiInit => Accounted
  <2>1. Halves(0) = [high |-> 0, low |-> 0] /\ 0 \in Digit
    BY HalvesOfSmall DEF Digit
  <2>. QED BY <2>1 DEF CsiInit, Accounted, Counted, Accounts, Value, HalfNames
<1>2. Accounted /\ [CsiNext]_CsiVars => Accounted'
  BY AccountedStep
<1>3. Accounted => PacketsAccounted
  BY DEF Accounted, Accounts, PacketsAccounted
<1>. QED BY <1>1, <1>2, <1>3, PTL DEF CsiSpec

-----------------------------------------------------------------------------
(* Rates and reports: any number that fits the low half. *)

\* A number in halves, of which only the low one is used.
Low(halves) == halves \in [high : {0}, low : Digit]

HalfRead == {"none"} \cup HalfNames

PacketMetrics == [packet : Digit, total : Digit, rate : Int]
Callback == [at : {"idle", "push", "count", "try", "publish"}, sum : [high : {0}, low : Digit],
             half : HalfRead]
Housekeeper == [at : {"sleep", "read", "lock", "publish"}, read : [high : {0}, low : Digit],
                half : HalfRead, last : Digit]
Readers == [at : {"idle", "lock", "copy", "live", "report"}, asked : Digit,
            read : [high : {0}, low : Digit], half : HalfRead, copy : PacketMetrics]

Typed ==
  /\ Low(total) /\ heard \in Digit
  /\ rx \in Callback
  /\ metrics \in PacketMetrics
  /\ task \in Housekeeper
  /\ reader \in Readers

\* The total is never ahead of the packets heard, and up with them but from a packet's
\* reception to its count.
Counting ==
  /\ total.low <= heard
  /\ rx.at = "count" => rx.sum.low = heard
  /\ rx.at \in {"idle", "try", "publish"} => total.low = heard
  /\ rx.half = "low" => total.low = heard
  /\ rx.at = "push" => total.low + 1 = heard
  /\ rx.at # "count" => rx.half = "none"

\* What the housekeeping task read lies between the last published total and the
\* present one, once it has read the low half.
Rating ==
  /\ rated = metrics.total /\ task.last = metrics.total
  /\ 0 <= metrics.rate /\ metrics.rate <= metrics.total
  /\ metrics.total <= total.low /\ metrics.packet <= total.low
  /\ task.at # "read" => task.half = "none"
  /\ task.half = "low" \/ task.at \in {"lock", "publish"} =>
       task.last <= task.read.low /\ task.read.low <= total.low

\* So does what a reader read, of the total when it asked and of what its copy says.
Reporting ==
  /\ reader.at # "idle" => reader.asked <= total.low
  /\ reader.at \in {"idle", "lock", "copy"} => reader.half = "none"
  /\ reader.copy.total <= total.low /\ reader.copy.packet <= total.low
  /\ reader.half = "low" \/ reader.at = "report" =>
       /\ reader.asked <= reader.read.low /\ reader.read.low <= total.low
       /\ reader.copy.total <= reader.read.low /\ reader.copy.packet <= reader.read.low

Measured == Typed /\ Counting /\ Rating /\ Reporting

\* The callback's step: the total does not go back.
LEMMA CountingStep ==
  ASSUME MaxHeard \in Digit, heard <= MaxHeard, Measured, RxStep
  PROVE  /\ total' \in [high : {0}, low : Digit] /\ heard' \in Digit /\ heard' <= MaxHeard
         /\ rx' \in Callback
         /\ Counting' /\ total.low <= total'.low
         /\ metrics' = metrics \/ metrics' = [metrics EXCEPT !.packet = total.low]
         /\ UNCHANGED <<task, reader, rated>>
<1>. USE HalfAssumption, HeardAssumption
<1>0. /\ total \in [high : {0}, low : Digit] /\ heard \in Digit /\ Counting
      /\ rx \in Callback /\ metrics \in PacketMetrics
  BY DEF Measured, Typed, Low
<1>. USE DEF Callback
<1>1. CASE Receive
  <2>1. /\ rx.at = "idle" /\ heard < MaxHeard /\ heard' = heard + 1
        /\ rx' = [rx EXCEPT !.at = "push"]
        /\ UNCHANGED <<total, metrics, task, reader, rated>>
    BY <1>0, <1>1 DEF Receive, Others
  <2>2. rx' \in Callback
    BY <1>0, <2>1
  <2>3. heard' \in Digit /\ heard' <= MaxHeard
    BY <1>0, <2>1 DEF Digit
  <2>4. rx'.at = "push" /\ rx'.half = "none" /\ total.low = heard /\ heard \in Nat
    BY <1>0, <2>1 DEF Counting, Digit
  <2>5. Counting'
    BY <2>1, <2>4 DEF Counting
  <2>. QED BY <1>0, <2>1, <2>2, <2>3, <2>5 DEF Digit
<1>2. CASE Push
  <2>1. Value(total) + 1 = heard /\ rx.half = "none" /\ rx.at = "push"
    BY <1>0, <1>2 DEF Push, Counting, Value, Digit
  <2>2. Halves(heard) = [high |-> 0, low |-> heard]
    BY <1>0, HalvesOfSmall
  <2>3. /\ rx' = [rx EXCEPT !.at = "count", !.sum = [high |-> 0, low |-> heard]]
        /\ UNCHANGED <<total, heard, metrics, task, reader, rated>>
    BY <1>2, <2>1, <2>2 DEF Push, Others
  <2>4. /\ rx' \in Callback
        /\ rx'.at = "count" /\ rx'.sum.low = heard /\ rx'.half = "none"
    BY <1>0, <2>1, <2>3
  <2>5. total.low \in Nat
    BY <1>0 DEF Digit
  <2>6. Counting'
    BY <1>0, <2>3, <2>4 DEF Counting
  <2>. QED BY <1>0, <2>3, <2>4, <2>5, <2>6
<1>3. CASE Count
  <2>1. CASE StoreHalf("low")
    <3>1. /\ total' = [total EXCEPT !.low = rx.sum.low]
          /\ UNCHANGED <<heard, metrics, task, reader, rated>>
          /\ rx.at = "count" /\ rx.half # "low" /\ rx.sum.low = heard
          /\ rx' = IF rx.half = "none" THEN [rx EXCEPT !.half = "low"]
                   ELSE [rx EXCEPT !.at = "try", !.half = "none"]
      BY <1>0, <2>1 DEF StoreHalf, Others, Counting
    <3>2. total' \in [high : {0}, low : Digit] /\ total'.low = heard
      BY <1>0, <3>1
    <3>3. /\ rx' \in Callback
          /\ rx'.sum = rx.sum
          /\ \/ rx'.at = "count"
             \/ rx'.at = "try" /\ rx'.half = "none"
      BY <1>0, <3>1 DEF HalfRead, HalfNames
    <3>4. Counting' /\ total.low <= total'.low
      BY <1>0, <3>1, <3>2, <3>3 DEF Counting, Digit
    <3>. QED BY <1>0, <3>1, <3>2, <3>3, <3>4
  <2>2. CASE StoreHalf("high")
    <3>1. /\ total' = [total EXCEPT !.high = rx.sum.high]
          /\ UNCHANGED <<heard, metrics, task, reader, rated>>
          /\ rx.at = "count" /\ rx.half # "high"
          /\ rx' = IF rx.half = "none" THEN [rx EXCEPT !.half = "high"]
                   ELSE [rx EXCEPT !.at = "try", !.half = "none"]
      BY <2>2 DEF StoreHalf, Others
    <3>2. total' = total /\ total.low \in Nat
      BY <1>0, <3>1 DEF Digit
    <3>3. /\ rx' \in Callback
          /\ rx'.sum = rx.sum
          /\ \/ rx'.at = "count" /\ rx'.half = "high"
             \/ rx'.at = "try" /\ rx'.half = "none" /\ rx.half = "low"
      BY <1>0, <3>1 DEF HalfRead, HalfNames
    <3>4. Counting'
      BY <1>0, <3>1, <3>2, <3>3 DEF Counting
    <3>. QED BY <1>0, <3>1, <3>2, <3>3, <3>4
  <2>. QED BY <1>3, <2>1, <2>2 DEF Count
<1>4. CASE TryLock
  BY <1>0, <1>4 DEF TryLock, Others, Counting, Digit
<1>5. CASE PublishPacket
  BY <1>0, <1>5 DEF PublishPacket, Others, Counting, Digit
<1>. QED BY <1>1, <1>2, <1>3, <1>4, <1>5 DEF RxStep

\* The housekeeping task's step.
LEMMA RatingStep ==
  ASSUME MaxHeard \in Digit, Measured, TaskStep
  PROVE  Measured'
<1>. USE HalfAssumption, HeardAssumption
<1>. USE DEF Measured, counters, PacketMetrics, Callback, Housekeeper, Readers
<1>1. CASE Wake
  BY <1>1 DEF Wake, Typed, Counting, Rating, Reporting, Low
<1>2. CASE ReadTotal
  <2>1. PICK h \in HalfNames \ {task.half} : task' = ReadHalf(task, h, "lock")
    BY <1>2 DEF ReadTotal, HalfNames
  <2>2. task.at = "read" /\ UNCHANGED <<total, heard, metrics, rx, reader, rated>>
    BY <1>2 DEF ReadTotal
  <2>3. total["high"] = 0 /\ total["low"] = total.low
    BY DEF Typed, Low
  <2>4. CASE task.half = "none"
    <3>1. task' = [task EXCEPT !.read[h] = total[h], !.half = h]
      BY <2>1, <2>4 DEF ReadHalf
    <3>2. /\ task'.at = task.at /\ task'.half = h /\ task'.last = task.last
          /\ task'.read = [task.read EXCEPT ![h] = total[h]]
      BY <3>1 DEF Typed
    <3>3. h = "low" => task'.read.low = total.low
      BY <3>2 DEF Typed
    <3>4. task' \in Housekeeper
      BY <2>3, <3>1 DEF Typed, Low, HalfNames, HalfRead
    <3>. QED BY <2>2, <3>2, <3>3, <3>4 DEF Typed, Counting, Rating, Reporting, Low, HalfNames, Digit
  <2>5. CASE task.half # "none"
    <3>1. task' = [task EXCEPT !.read[h] = total[h], !.half = "none", !.at = "lock"]
      BY <2>1, <2>5 DEF ReadHalf
    <3>2. /\ task'.at = "lock" /\ task'.half = "none" /\ task'.last = task.last
          /\ task'.read = [task.read EXCEPT ![h] = total[h]]
      BY <3>1 DEF Typed
    <3>3. IF h = "low" THEN task'.read.low = total.low ELSE task.half = "low" /\ task'.read.low = task.read.low
      BY <2>1, <2>5, <3>2 DEF Typed, HalfNames, HalfRead
    <3>4. task' \in Housekeeper
      BY <2>3, <3>1 DEF Typed, Low, HalfNames, HalfRead
    <3>. QED BY <2>2, <3>2, <3>3, <3>4 DEF Typed, Counting, Rating, Reporting, Low, HalfNames, Digit
  <2>. QED BY <2>4, <2>5
<1>3. CASE TaskLocks
  BY <1>3 DEF TaskLocks, Typed, Counting, Rating, Reporting, Low
<1>4. CASE PublishRate
  <2>. DEFINE n == task.read.low
  <2>1. /\ Value(task.read) = n /\ n \in Digit /\ task.last \in Digit /\ task.at = "publish"
        /\ task.last <= n /\ n <= total.low
    BY <1>4 DEF PublishRate, Value, Typed, Rating, Digit
  <2>2. Delta = n - task.last
    <3>1. n - task.last \in 0 .. Half - 1 /\ Half - 1 < Half * Half
      BY <2>1 DEF Digit
    <3>2. \A x \in Nat, y \in Nat : x < y => x % y = x
      OBVIOUS
    <3>3. n - task.last \in Nat /\ Half * Half \in Nat /\ n - task.last < Half * Half
      BY <2>1, <3>1 DEF Digit
    <3>4. (n - task.last) % (Half * Half) = n - task.last
      BY <3>2, <3>3
    <3>. QED BY <2>1, <3>4 DEF Delta
  <2>3. Halves(0) = [high |-> 0, low |-> 0]
    BY HalvesOfSmall DEF Digit
  <2>4. /\ metrics' = [metrics EXCEPT !.total = n, !.rate = n - task.last]
        /\ rated' = rated + (n - task.last)
        /\ task' = [task EXCEPT !.at = "sleep", !.read = [high |-> 0, low |-> 0], !.last = n]
        /\ UNCHANGED <<total, heard, rx, reader>>
    BY <1>4, <2>1, <2>2, <2>3 DEF PublishRate, NextLast
  <2>. HIDE DEF n
  <2>5. /\ metrics'.total = n /\ metrics'.rate = n - task.last /\ metrics'.packet = metrics.packet
        /\ task'.at = "sleep" /\ task'.last = n /\ task'.half = task.half
    BY <2>1, <2>4 DEF Typed
  <2>7. n - task.last \in Int /\ [high |-> 0, low |-> 0] \in [high : {0}, low : Digit]
    BY <2>1 DEF Digit
  <2>8. /\ metrics' \in PacketMetrics
        /\ task' \in Housekeeper
    <3>. HIDE DEF Digit
    <3>. QED BY <2>1, <2>4, <2>7 DEF Typed
  <2>6. task.half = "none"
    BY <2>1 DEF Rating
  <2>. QED BY <2>1, <2>4, <2>5, <2>6, <2>8 DEF Typed, Counting, Rating, Reporting, Low, Digit
<1>. QED BY <1>1, <1>2, <1>3, <1>4 DEF TaskStep

\* The readers' step.
LEMMA ReportingStep ==
  ASSUME MaxHeard \in Digit, Measured, ReaderStep
  PROVE  Measured'
<1>. USE HalfAssumption, HeardAssumption
<1>. USE DEF Measured, counters, PacketMetrics, Callback, Housekeeper, Readers
<1>1. CASE Ask
  <2>1. Value(total) = total.low /\ total.low \in Digit
    BY DEF Value, Typed, Low, Digit
  <2>2. /\ reader.at = "idle" /\ reader' = [reader EXCEPT !.at = "lock", !.asked = total.low]
        /\ UNCHANGED <<metrics, rx, task, rated, total, heard>>
    BY <1>1, <2>1 DEF Ask
  <2>3. /\ reader'.at = "lock" /\ reader'.asked = total.low /\ reader'.half = reader.half
        /\ reader'.copy = reader.copy /\ reader'.read = reader.read /\ reader' \in Readers
    BY <2>1, <2>2 DEF Typed
  <2>4. reader.half = "none" /\ total.low \in Nat
    BY <2>1, <2>2 DEF Reporting, Digit
  <2>5. Typed' /\ Counting' /\ Rating'
    BY <2>2, <2>3 DEF Typed, Counting, Rating, Low
  <2>6. Reporting'
    BY <2>2, <2>3, <2>4 DEF Reporting
  <2>. QED BY <2>5, <2>6
<1>2. CASE ReaderLocks
  BY <1>2 DEF ReaderLocks, Typed, Counting, Rating, Reporting, Low
<1>3. CASE Copy
  BY <1>3 DEF Copy, Typed, Counting, Rating, Reporting, Low
<1>4. CASE ReadLive
  <2>1. PICK h \in HalfNames \ {reader.half} : reader' = ReadHalf(reader, h, "report")
    BY <1>4 DEF ReadLive, Refreshed, HalfNames
  <2>2. reader.at = "live" /\ UNCHANGED <<total, heard, metrics, rx, task, rated>>
    BY <1>4 DEF ReadLive
  <2>3. total["high"] = 0 /\ total["low"] = total.low
    BY DEF Typed, Low
  <2>4. CASE reader.half = "none"
    <3>1. reader' = [reader EXCEPT !.read[h] = total[h], !.half = h]
      BY <2>1, <2>4 DEF ReadHalf
    <3>2. /\ reader'.at = reader.at /\ reader'.half = h
          /\ reader'.asked = reader.asked /\ reader'.copy = reader.copy
          /\ reader'.read = [reader.read EXCEPT ![h] = total[h]]
      BY <3>1 DEF Typed
    <3>3. h = "low" => reader'.read.low = total.low
      BY <3>2 DEF Typed
    <3>4. reader' \in Readers
      BY <2>3, <3>1 DEF Typed, Low, HalfNames, HalfRead
    <3>. QED BY <2>2, <3>2, <3>3, <3>4 DEF Typed, Counting, Rating, Reporting, Low, HalfNames, Digit
  <2>5. CASE reader.half # "none"
    <3>1. reader' = [reader EXCEPT !.read[h] = total[h], !.half = "none", !.at = "report"]
      BY <2>1, <2>5 DEF ReadHalf
    <3>2. /\ reader'.at = "report" /\ reader'.half = "none"
          /\ reader'.asked = reader.asked /\ reader'.copy = reader.copy
          /\ reader'.read = [reader.read EXCEPT ![h] = total[h]]
      BY <3>1 DEF Typed
    <3>3. IF h = "low" THEN reader'.read.low = total.low
          ELSE reader.half = "low" /\ reader'.read.low = reader.read.low
      BY <2>1, <2>5, <3>2 DEF Typed, HalfNames, HalfRead
    <3>4. reader' \in Readers
      BY <2>3, <3>1 DEF Typed, Low, HalfNames, HalfRead
    <3>. QED BY <2>2, <3>2, <3>3, <3>4 DEF Typed, Counting, Rating, Reporting, Low, HalfNames, Digit
  <2>. QED BY <2>4, <2>5
<1>5. CASE Report
  <2>1. Halves(0) = [high |-> 0, low |-> 0]
    BY HalvesOfSmall DEF Digit
  <2>2. /\ reader' = [at |-> "idle", asked |-> 0, read |-> [high |-> 0, low |-> 0], half |-> "none",
                      copy |-> [packet |-> 0, total |-> 0, rate |-> 0]]
        /\ UNCHANGED <<metrics, rx, task, rated, total, heard>>
    BY <1>5, <2>1 DEF Report, NoReader
  <2>. QED BY <2>2 DEF Typed, Counting, Rating, Reporting, Low, HalfRead, Digit
<1>. QED BY <1>1, <1>2, <1>3, <1>4, <1>5 DEF ReaderStep

\* Every behaviour keeps the invariant, as long as the packets fit the low half.
THEOREM MeasurementInvariant ==
  ASSUME MaxHeard < Half
  PROVE  CsiSpec => [](Measured /\ heard <= MaxHeard)
<1>. USE HalfAssumption, HeardAssumption
<1>. USE DEF PacketMetrics, Callback, Housekeeper, Readers
<1>. DEFINE Inv == Measured /\ heard <= MaxHeard
<1>0. MaxHeard \in Digit /\ 0 \in Digit
  BY DEF Digit
<1>1. CsiInit => Inv
  <2>1. Halves(0) = [high |-> 0, low |-> 0]
    BY <1>0, HalvesOfSmall
  <2>. QED
    BY <1>0, <2>1 DEF CsiInit, NoReader, Measured, Typed, Counting, Rating, Reporting, Low, HalfRead, Digit
<1>2. Inv /\ [CsiNext]_CsiVars => Inv'
  <2>. SUFFICES ASSUME Measured, heard <= MaxHeard, [CsiNext]_CsiVars PROVE Inv'
    OBVIOUS
  <2>1. CASE RxStep
    <3>1. /\ total' \in [high : {0}, low : Digit] /\ heard' \in Digit /\ heard' <= MaxHeard /\ Counting'
          /\ rx' \in Callback
          /\ total.low <= total'.low
          /\ metrics' = metrics \/ metrics' = [metrics EXCEPT !.packet = total.low]
          /\ UNCHANGED <<task, reader, rated>>
      BY <1>0, <2>1, CountingStep
    <3>2. metrics' \in PacketMetrics
          /\ metrics'.packet <= total'.low /\ metrics'.total = metrics.total /\ metrics'.rate = metrics.rate
      BY <3>1 DEF Measured, Typed, Low, Rating, Digit
    <3>. QED BY <3>1, <3>2 DEF Measured, Typed, Rating, Reporting, Low, Digit
  <2>2. CASE TaskStep
    <3>1. heard' = heard
      BY <2>2 DEF TaskStep, Wake, ReadTotal, TaskLocks, PublishRate, counters
    <3>. QED BY <1>0, <2>2, <3>1, RatingStep
  <2>3. CASE ReaderStep
    <3>1. heard' = heard
      BY <2>3 DEF ReaderStep, Ask, ReaderLocks, Copy, ReadLive, Report, counters
    <3>. QED BY <1>0, <2>3, <3>1, ReportingStep
  <2>4. CASE UNCHANGED CsiVars
    BY <2>4 DEF CsiVars, Measured, Typed, Counting, Rating, Reporting, Low
  <2>. QED BY <2>1, <2>2, <2>3, <2>4 DEF CsiNext
<1>. QED BY <1>1, <1>2, PTL DEF CsiSpec

\* Each packet is in exactly one published rate, and none in advance.
THEOREM RatesAlwaysAddUp ==
  ASSUME MaxHeard < Half
  PROVE  CsiSpec => []RatesAddUp
<1>. USE HalfAssumption, HeardAssumption
<1>1. Measured => RatesAddUp
  BY DEF PacketMetrics, Measured, Typed, Counting, Rating, Low, Digit, RatesAddUp
<1>. QED BY <1>1, MeasurementInvariant, PTL

\* "Report the live values": a report is between the totals when it was asked for and
\* when it is given.
THEOREM ReportAlwaysLive ==
  ASSUME MaxHeard < Half
  PROVE  CsiSpec => []ReportIsLive
<1>. USE HalfAssumption, HeardAssumption
<1>1. Measured => ReportIsLive
  <2>. SUFFICES ASSUME Measured, reader.at = "report" PROVE ReportIsLive
    BY DEF ReportIsLive
  <2>1. Value(reader.read) = reader.read.low /\ reader.read.low \in Digit
    BY DEF Readers, Measured, Typed, Value, Digit
  <2>. QED
    BY <2>1 DEF PacketMetrics, Readers, Measured, Typed, Counting, Reporting, Low, Digit, ReportIsLive
<1>. QED BY <1>1, MeasurementInvariant, PTL

=============================================================================
