------------------------------- MODULE Motion -------------------------------
(***************************************************************************)
(* motion.c: the detection state machine.  Once per window the motion task *)
(* turns the newest CSI samples into a movement feature, compares it with  *)
(* an adaptive baseline and moves between Idle, Presence, Motion and High  *)
(* Motion with hysteresis and debounce.  HTTP handlers change the          *)
(* thresholds and request a recalibration while a window is in progress;   *)
(* the display and the web tasks read the published result.                *)
(*                                                                         *)
(* Signal processing is abstracted to what the state machine sees.  A      *)
(* feature is a point of a coarse grid; an above-baseline feature may give *)
(* any raw score and a low-pass filter may answer anything between its     *)
(* memory and its input.  Scores and thresholds are in grid units.         *)
(***************************************************************************)
EXTENDS Integers, Sequences

CONSTANTS
  Feature,        \* window variances, a set of naturals
  ScoreMax,       \* scores are 0 .. ScoreMax
  Config,         \* stored configurations: [threshold: 1..3 -> score, auto: BOOLEAN]
  Hysteresis,     \* NEXUS_THRESHOLD_HYSTERESIS, in score units
  DebounceRise,   \* NEXUS_DEBOUNCE_RISE
  DebounceFall,   \* NEXUS_DEBOUNCE_FALL
  ClockMod,       \* utils_millis() counts modulo this
  HistoryPeriod   \* milliseconds between history points, in clock units

IDLE == 0
PRESENCE == 1
HIGH_MOTION == 3
Level == IDLE .. HIGH_MOTION
Score == 0 .. ScoreMax

ASSUME FeatureAssumption == Feature \subseteq Nat
ASSUME ScoreAssumption == ScoreMax \in Nat \ {0}
ASSUME DebounceAssumption ==
  DebounceRise \in Nat \ {0} /\ DebounceFall \in Nat \ {0} /\ DebounceRise <= DebounceFall
ASSUME HysteresisAssumption == Hysteresis \in Nat
ASSUME ClockAssumption == ClockMod \in Nat \ {0} /\ HistoryPeriod \in 1 .. ClockMod

\* config_validate leaves the thresholds strictly ordered and above zero.
ASSUME ConfigAssumption ==
  /\ Config \subseteq [threshold : [1 .. 3 -> 1 .. ScoreMax], auto : BOOLEAN]
  /\ \A c \in Config : \A i, j \in 1 .. 3 : i < j => c.threshold[i] < c.threshold[j]

VARIABLES
  config,       \* the stored configuration (config.c)
  calibrate,    \* s_force_calibrate
  seeded,       \* s_baseline_seeded
  baseline,     \* s_baseline
  lpf,          \* s_score_lpf
  level,        \* s_level
  rise, fall,   \* s_rise_ctr, s_fall_ctr
  result,       \* s_result
  last_hist,    \* last_hist_ms: when the newest history point was made
  clock,        \* utils_millis()
  pc,           \* where the motion task is in motion_process
  feature,      \* its locals: the window's feature,
  cfg,          \*   the configuration it read,
  prev,         \*   and the level before the state machine ran
  windows,      \* history: readings of the windows since the level last changed
  wanted        \* history: a requested calibration has not reset the engine yet

env    == <<config, calibrate, wanted>>
engine == <<seeded, baseline, lpf, level, rise, fall>>
shown  == <<result, last_hist>>
local  == <<feature, cfg, prev>>
vars   == <<env, engine, shown, clock, pc, local, windows>>

-----------------------------------------------------------------------------
(* Pure parts. *)

\* What an EMA of unknown weight may answer.
Between(a, b) == IF a <= b THEN a .. b ELSE b .. a

\* sp_normalise: nothing at or below the baseline, anything above it.
Normalised(f, base) == IF f <= base THEN {0} ELSE Score

Classify(score, c, hyst) ==
  IF score >= c.threshold[3] - hyst THEN 3
  ELSE IF score >= c.threshold[2] - hyst THEN 2
  ELSE IF score >= c.threshold[1] - hyst THEN 1
  ELSE IDLE

\* The debounced state machine: level and counters in, level and counters out.
RiseConfirmed_Early(n) == n + 1 >= DebounceRise  \* mutant: one window less
RiseConfirmed_Late(n) == n > DebounceRise  \* mutant: one window more
RiseConfirmed(n) == n >= DebounceRise
FallConfirmed_Early(n) == n + 1 >= DebounceFall  \* mutant: one window less
FallConfirmed(n) == n >= DebounceFall
Undecided_Kept(st) == st  \* mutant: the counters survive a quiet window
Undecided(st) == [st EXCEPT !.rise = 0, !.fall = 0]

StepLevel_FallNotCounted(st, up, dn) ==  \* mutant: the fall counter stands still
  IF up > st.level THEN
    IF RiseConfirmed(st.rise + 1)
    THEN [level |-> up, rise |-> 0, fall |-> 0]
    ELSE [st EXCEPT !.rise = @ + 1, !.fall = 0]
  ELSE IF dn < st.level THEN [st EXCEPT !.rise = 0]
  ELSE Undecided(st)

StepLevel(st, up, dn) ==
  IF up > st.level THEN
    IF RiseConfirmed(st.rise + 1)
    THEN [level |-> up, rise |-> 0, fall |-> 0]
    ELSE [st EXCEPT !.rise = @ + 1, !.fall = 0]
  ELSE IF dn < st.level THEN
    IF FallConfirmed(st.fall + 1)
    THEN [level |-> dn, rise |-> 0, fall |-> 0]
    ELSE [st EXCEPT !.fall = @ + 1, !.rise = 0]
  ELSE Undecided(st)

\* Unsigned difference of two clock readings.
Elapsed(now, then) == (now - then) % ClockMod

-----------------------------------------------------------------------------
Init ==
  /\ config \in Config
  /\ calibrate = FALSE
  /\ seeded = FALSE
  /\ baseline = 0
  /\ lpf = 0
  /\ level = IDLE
  /\ rise = 0
  /\ fall = 0
  /\ result = [state |-> IDLE, presence |-> FALSE, score |-> 0, baseline |-> 0,
               last_change |-> 0, state_since |-> 0]
  /\ last_hist = 0
  /\ clock = 0
  /\ pc = "wait"
  /\ feature = 0
  /\ cfg = config
  /\ prev = IDLE
  /\ windows = <<>>
  /\ wanted = FALSE

\* A period has passed and the ring holds half a window: read the window
\* and the configuration.  With fewer samples the task changes nothing.
TakeWindow ==
  /\ pc = "wait"
  /\ feature' \in Feature
  /\ cfg' = config
  /\ pc' = "baseline"
  /\ UNCHANGED <<env, engine, shown, clock, prev, windows>>

\* The flag is volatile: it is tested here and cleared in a later step.
MustCalibrate_SeedOnly == ~seeded  \* mutant: the request is not looked at
MustCalibrate == ~seeded \/ calibrate

Adapts_Always == cfg.auto  \* mutant: the baseline is not frozen
Adapts == cfg.auto /\ level = IDLE

TrackBaseline ==
  /\ pc = "baseline"
  /\ IF MustCalibrate
     THEN pc' = "reset" /\ UNCHANGED baseline
     ELSE /\ pc' = "decide"
          /\ IF Adapts THEN baseline' \in Between(baseline, feature)
                       ELSE UNCHANGED baseline
  /\ UNCHANGED <<env, seeded, lpf, level, rise, fall, shown, clock, local, windows>>

\* The seeding or requested calibration.
Calibrate ==
  /\ pc = "reset"
  /\ baseline' = feature
  /\ seeded' = TRUE
  /\ calibrate' = FALSE
  /\ level' = IDLE
  /\ rise' = 0
  /\ fall' = 0
  /\ lpf' = 0
  /\ pc' = "decide"
  /\ windows' = <<>>
  /\ wanted' = FALSE
  /\ UNCHANGED <<config, shown, clock, local>>

\* What a window says, in the words of the documentation: the highest level
\* whose threshold the score reaches, and the highest it has not dropped out
\* of when every threshold is lowered by the hysteresis.
Reading(score, c) ==
  LET Highest(S) == CHOOSE l \in S : \A m \in S : m <= l IN
  [up |-> Highest({IDLE} \cup {l \in 1 .. 3 : score >= c.threshold[l]}),
   dn |-> Highest({IDLE} \cup {l \in 1 .. 3 : score + Hysteresis >= c.threshold[l]})]

\* The last n elements of s, or all of it.
LastUpTo(s, n) == IF Len(s) <= n THEN s ELSE SubSeq(s, Len(s) - n + 1, Len(s))

Decide ==
  /\ pc = "decide"
  /\ \E raw \in Normalised(feature, baseline) : lpf' \in Between(lpf, raw)
  /\ LET st == StepLevel([level |-> level, rise |-> rise, fall |-> fall],
                         Classify(lpf', cfg, 0), Classify(lpf', cfg, Hysteresis)) IN
     /\ level' = st.level
     /\ rise' = st.rise
     /\ fall' = st.fall
  /\ prev' = level
  /\ windows' = IF level' = level
                THEN LastUpTo(Append(windows, Reading(lpf', cfg)), DebounceFall - 1)
                ELSE <<>>
  /\ pc' = "publish"
  /\ UNCHANGED <<env, seeded, baseline, shown, clock, feature, cfg>>

Changed_Detected == level >= PRESENCE  \* mutant: stamps every detection
Changed == level # prev

\* The result, under its mutex, and about once a second a history point, pushed
\* to a ring of its own (module RingBuffer).
Publish ==
  /\ pc = "publish"
  /\ LET changed == Changed IN
     result' = [state       |-> level,
                presence    |-> level >= PRESENCE,
                score       |-> lpf,
                baseline    |-> baseline,
                last_change |-> IF changed THEN clock ELSE result.last_change,
                state_since |-> IF changed THEN clock ELSE result.state_since]
  /\ last_hist' = IF Elapsed(clock, last_hist) >= HistoryPeriod THEN clock ELSE last_hist
  /\ pc' = "wait"
  /\ feature' = 0 /\ prev' = IDLE   \* locals out of scope
  /\ UNCHANGED <<env, engine, clock, cfg, windows>>

MotionTask == TakeWindow \/ TrackBaseline \/ Calibrate \/ Decide \/ Publish

\* motion_calibrate, from an HTTP handler.
RequestCalibration ==
  /\ calibrate' = TRUE
  /\ wanted' = TRUE
  /\ UNCHANGED <<config, engine, shown, clock, pc, local, windows>>

\* config_set, from an HTTP handler.
SetConfig ==
  /\ config' \in Config
  /\ UNCHANGED <<calibrate, wanted, engine, shown, clock, pc, local, windows>>

\* Time passes between windows.
Tick ==
  /\ pc = "wait"
  /\ clock' = (clock + 1) % ClockMod
  /\ UNCHANGED <<env, engine, shown, pc, local, windows>>

Next == MotionTask \/ RequestCalibration \/ SetConfig \/ Tick

\* The task loop never stops, and the sample ring, once half a window is in
\* it, stays filled: nothing pops or clears it.
Fairness == WF_vars(MotionTask)

Spec == Init /\ [][Next]_vars
FairSpec == Spec /\ Fairness

-----------------------------------------------------------------------------
(* Properties. *)

\* Every variable keeps its type; a debounce counter stays below its limit.
TypeOK ==
  /\ config \in Config /\ cfg \in Config
  /\ calibrate \in BOOLEAN /\ wanted \in BOOLEAN /\ seeded \in BOOLEAN
  /\ baseline \in Nat /\ feature \in Nat
  /\ lpf \in Score
  /\ level \in Level /\ prev \in Level
  /\ rise \in 0 .. DebounceRise - 1
  /\ fall \in 0 .. DebounceFall - 1
  /\ result \in [state : Level, presence : BOOLEAN, score : Score, baseline : Nat,
                 last_change : 0 .. ClockMod - 1, state_since : 0 .. ClockMod - 1]
  /\ clock \in 0 .. ClockMod - 1 /\ last_hist \in 0 .. ClockMod - 1
  /\ pc \in {"wait", "baseline", "reset", "decide", "publish"}
  /\ windows \in Seq([up : Level, dn : Level])
  /\ Len(windows) < DebounceFall

\* The readings of the n windows before this one all satisfy P.
Preceded(n, P(_)) ==
  /\ Len(windows) >= n
  /\ \A i \in Len(windows) - n + 1 .. Len(windows) : P(windows[i])

\* The level rises only when this window and the DebounceRise - 1 before it,
\* all since the level was last entered, read above the level being left.
\* Outside a calibration it falls only when this window and the
\* DebounceFall - 1 before it read below it by more than the hysteresis.
LevelDebounced ==
  [][LET Above(w) == w.up > level
         Below(w) == w.dn < level IN
     /\ level' > level =>
          Preceded(DebounceRise - 1, Above) /\ Above(Reading(lpf', cfg))
     /\ level' < level /\ pc # "reset" =>
          Preceded(DebounceFall - 1, Below) /\ Below(Reading(lpf', cfg))]_vars

\* The counters never run ahead of the evidence: a pending rise or fall has
\* that many consecutive windows behind it.
CountersEarned ==
  LET Above(w) == w.up > level
      Below(w) == w.dn < level IN
  Preceded(rise, Above) /\ Preceded(fall, Below)

\* As long as presence stays reported, the reported baseline does not move:
\* nobody standing still is learned as background (CALIBRATION.md: "The
\* baseline never adapts while motion is asserted"), whatever calibrations
\* and configuration changes arrive during a window.
PresenceNotLearned ==
  [][result.presence /\ result'.presence => result'.baseline = result.baseline]_vars

\* A requested calibration is eventually visible as a reported Idle.
CalibrationShowsIdle == wanted ~> result.state = IDLE

\* CALIBRATION.md, walk test: "Leave again; after the fall-debounce delay the
\* state should return to Idle."  Once the score stays at zero, so it does.
QuietRoomReturnsToIdle == <>[](lpf = 0) => <>[](level = IDLE)

\* The reported time of the last change moves only in a step that changes the
\* reported state: a calibrated window, which compares with the level after
\* the reset, never stamps a change that nobody sees.
ChangeStampsHonest ==
  [][result'.last_change # result.last_change => result'.state # result.state]_vars

\* motion.h on state_since_ms: "uptime the current state began".
StateSinceIsWhenItBegan ==
  [][result'.state # result.state => result'.state_since = clock]_vars

\* ARCHITECTURE.md: "a rising transition needs NEXUS_DEBOUNCE_RISE (3)
\* consecutive qualifying windows", a qualifying window for a state being
\* one whose score reaches that state's threshold.
EntryQualified ==
  [][level' > level =>
       LET Qualifies(w) == w.up >= level' IN Preceded(DebounceRise - 1, Qualifies)]_vars

=============================================================================
