----------------------------- MODULE CronDialog -----------------------------
(***************************************************************************)
(* The dialog of one cron job (CronEntryDialog): presets, the pickers of   *)
(* the five fields, and the check of the schedule, which asks the server   *)
(* 400 ms after the last change and shows the next runs it answers.        *)
(* The component is always mounted; open says whether it is seen.          *)
(***************************************************************************)
EXTENDS Naturals, SequencesExt

CONSTANTS
  Schedules,  \* schedules of five fields
  Presets,    \* the schedules among the presets, specials included
  MaxAsks,    \* bound: questions in flight
  NoSchedule

Specials == {"@daily", "@reboot"}
Exprs    == Schedules \union Specials

VARIABLES
  open,
  expr,       \* the schedule of the entry
  command,    \* whether its command is filled in
  schedMode,  \* "preset" or "custom"
  picker,     \* whether the picker of a field is open
  timer,      \* the schedule that waits 400 ms to be checked, or NoSchedule
  asks,       \* the schedules being checked, oldest first
  nextRuns,   \* the schedule whose next runs, or error, are shown, or NoSchedule
  overtaken   \* a newer answer came before an older one

vars == <<open, expr, command, schedMode, picker, timer, asks, nextRuns, overtaken>>
form == <<open, expr, command, schedMode, picker>>

Blank == CHOOSE e \in Schedules : TRUE

Init ==
  /\ open = FALSE /\ expr = Blank /\ command = FALSE /\ schedMode = "preset" /\ picker = FALSE
  /\ timer = Blank /\ asks = <<>> /\ nextRuns = NoSchedule /\ overtaken = FALSE

-----------------------------------------------------------------------------
\* Mutant: the effect does not depend on entry.special.
Debounce_FieldsOnly(e) == timer' = IF e \in Schedules /\ e # expr THEN e ELSE timer

\* A change of the schedule starts the wait again.
Debounce(e) == timer' = IF e # expr THEN e ELSE timer

SetExpr(e) == expr' = e /\ Debounce(e)

ModeOf(e) == IF e \in Presets THEN "preset" ELSE "custom"

\* "Add cron job" opens it blank, a row opens it with the schedule of the row.
Open(e, filled) ==
  /\ ~open /\ open' = TRUE
  /\ SetExpr(e) /\ command' = filled /\ schedMode' = ModeOf(e)
  /\ nextRuns' = NoSchedule
  /\ picker' = FALSE
  /\ UNCHANGED <<asks, overtaken>>

applyPreset(e) ==
  /\ open
  /\ SetExpr(e) /\ schedMode' = "preset" /\ picker' = FALSE
  /\ UNCHANGED <<open, command, asks, nextRuns, overtaken>>

\* "Custom" keeps the schedule; a special one has no fields to change.
applyCustom ==
  /\ open /\ schedMode = "preset"
  /\ schedMode' = "custom" /\ picker' = FALSE
  /\ UNCHANGED <<open, expr, command, timer, asks, nextRuns, overtaken>>

\* InlineFieldPicker: one click opens it, a click outside closes it.
TogglePicker ==
  /\ open /\ schedMode = "custom" /\ expr \in Schedules
  /\ picker' = ~picker
  /\ UNCHANGED <<open, expr, command, schedMode, timer, asks, nextRuns, overtaken>>

\* A name from the list, or "Set": the field takes the value.
PickField(e) ==
  /\ open /\ picker /\ e \in Schedules
  /\ SetExpr(e) /\ picker' = FALSE
  /\ UNCHANGED <<open, command, schedMode, asks, nextRuns, overtaken>>

TypeCommand ==
  /\ open /\ command' = ~command
  /\ UNCHANGED <<open, expr, schedMode, picker, timer, asks, nextRuns, overtaken>>

\* Save wants a command; a schedule that was found wrong is saved as well.
handleSave ==
  /\ open /\ command /\ open' = FALSE /\ picker' = FALSE
  /\ UNCHANGED <<expr, command, schedMode, timer, asks, nextRuns, overtaken>>

Cancel ==
  /\ open /\ open' = FALSE /\ picker' = FALSE
  /\ UNCHANGED <<expr, command, schedMode, timer, asks, nextRuns, overtaken>>

-----------------------------------------------------------------------------
\* The wait is over.  @reboot has no next run and is not asked about.
doValidate ==
  /\ timer # NoSchedule /\ timer' = NoSchedule
  /\ IF timer = "@reboot"
     THEN nextRuns' = NoSchedule /\ overtaken' = (overtaken \/ asks # <<>>) /\ UNCHANGED asks
     ELSE Len(asks) < MaxAsks /\ asks' = Append(asks, timer) /\ UNCHANGED <<nextRuns, overtaken>>
  /\ UNCHANGED form

\* An answer, or an error, which is shown in its place.
Answer(i) ==
  /\ nextRuns' = asks[i] /\ asks' = RemoveAt(asks, i)
  /\ overtaken' = (overtaken \/ i # 1)
  /\ UNCHANGED <<form, timer>>

Next ==
  \/ \E e \in Exprs, filled \in BOOLEAN : Open(e, filled)
  \/ \E e \in Presets : applyPreset(e)
  \/ \E e \in Exprs : PickField(e)
  \/ applyCustom \/ TogglePicker \/ TypeCommand \/ handleSave \/ Cancel
  \/ doValidate \/ \E i \in DOMAIN asks : Answer(i)

Spec == Init /\ [][Next]_vars

-----------------------------------------------------------------------------
\* Once every check has been answered, in the order asked, the next runs that
\* are shown are those of the schedule in the form: none are left from an
\* earlier schedule or an earlier job.  (doValidate does not compare the answer
\* with the form, so this needs the order.)
RunsOfSchedule ==
  timer = NoSchedule /\ asks = <<>> /\ ~overtaken => nextRuns \in {NoSchedule, expr}

=============================================================================
