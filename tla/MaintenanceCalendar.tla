------------------------- MODULE MaintenanceCalendar -------------------------
(***************************************************************************)
(* uptime_monitor/maintenance.py: when a scheduled downtime window is on,  *)
(* when the last one ended and when the next one starts, computed from a   *)
(* few days around the moment asked about.  Time is in ticks.              *)
(***************************************************************************)
EXTENDS Integers, FiniteSets

CONSTANTS
    DayTicks,    \* ticks of a day
    WeekDays,    \* days of a week
    SearchDays,  \* _SEARCH_DAYS
    LastDay      \* bound on the days looked at

ASSUME CalendarAssumption ==
    /\ DayTicks \in Nat \ {0} /\ WeekDays \in Nat \ {0}
    /\ SearchDays \in Nat /\ SearchDays > WeekDays
    /\ LastDay \in Nat /\ LastDay >= SearchDays

VARIABLES
    windows,  \* the enabled Uptime Maintenance Windows of a site
    moment    \* the time asked about

calendarVars == <<windows, moment>>

Times == 0..(DayTicks - 1)

\* UptimeMaintenanceWindow.validate: an end after the start for a one-time
\* window, at least one day for a weekly one.
Windows ==
    [kind: {"daily"}, days: {0..(WeekDays - 1)}, allDay: {FALSE}, from: Times, to: Times]
    \cup [kind: {"weekly"}, days: SUBSET (0..(WeekDays - 1)) \ {{}}, allDay: BOOLEAN, from: Times, to: Times]
    \cup {w \in [kind: {"once"}, days: {{}}, allDay: {FALSE},
                 from: 0..(LastDay * DayTicks), to: 0..(LastDay * DayTicks)] : w.from < w.to}

DayOf(t) == t \div DayTicks

\* The occurrence that starts on a day; one that ends at or before its start
\* runs into the next day.
OnDay(w, day) ==
    LET midnight == day * DayTicks
        start == IF w.allDay THEN 0 ELSE w.from
        end   == IF w.allDay THEN 0 ELSE w.to
    IN  [from |-> midnight + start,
         to   |-> IF end > start THEN midnight + end ELSE midnight + DayTicks + end]

\* Mutant: the days begin with today.
FromToday(w, start, end) ==
    {o \in {OnDay(w, d) : d \in {d \in DayOf(start)..DayOf(end) : d % WeekDays \in w.days}} :
        o.from < end /\ o.to > start}

\* occurrences: those that overlap [start, end), a day early because last
\* night's window can still be running.
Repeating(w, start, end) ==
    {o \in {OnDay(w, d) : d \in {d \in (DayOf(start) - 1)..DayOf(end) : d % WeekDays \in w.days}} :
        o.from < end /\ o.to > start}

Occurrences(w, start, end) ==
    IF w.kind = "once"
    THEN IF w.from < end /\ w.to > start THEN {[from |-> w.from, to |-> w.to]} ELSE {}
    ELSE Repeating(w, start, end)

\* active_window
ActiveAt(ws, at) ==
    \E w \in ws : \E o \in Occurrences(w, at, at + 1) : o.from <= at /\ at < o.to

\* last_window_end, as the set of the candidates it takes the latest of.
EndsBefore(ws, at) ==
    {o.to : o \in {o \in UNION {Occurrences(w, at - SearchDays * DayTicks, at) : w \in ws} : o.to <= at}}

\* next_window, as the set of the candidates it takes the earliest of.
Horizon(w, at) ==
    LET days == at + SearchDays * DayTicks
    IN  IF w.kind = "once" /\ w.from >= days THEN w.from + 1 ELSE days

StartsAfter(ws, at) ==
    {o.from : o \in {o \in UNION {Occurrences(w, at, Horizon(w, at)) : w \in ws} : o.from > at}}

-----------------------------------------------------------------------------
CalendarInit ==
    /\ \E w \in Windows, v \in Windows : windows \in {{w}, {w, v}}
    /\ moment = SearchDays * DayTicks

CalendarNext ==
    /\ moment < LastDay * DayTicks
    /\ moment' = moment + 1
    /\ UNCHANGED windows

CalendarSpec == CalendarInit /\ [][CalendarNext]_calendarVars

-----------------------------------------------------------------------------
\* Every time a window covers, whatever the day it started on.
Calendar(w) ==
    IF w.kind = "once" THEN {[from |-> w.from, to |-> w.to]}
    ELSE {OnDay(w, d) : d \in {d \in -WeekDays..(LastDay + SearchDays + WeekDays) : d % WeekDays \in w.days}}

WholeCalendar == UNION {Calendar(w) : w \in windows}

\* Looking at a few days is enough: the window that is on, the latest end and
\* the next start are those of the whole calendar, past midnight, on the last
\* day of a week and when a window lasts a full day.  (A one-time window that
\* ended longer ago than the search reaches is forgotten.)
CalendarIsExact ==
    /\ ActiveAt(windows, moment) <=> \E o \in WholeCalendar : o.from <= moment /\ moment < o.to
    /\ EndsBefore(windows, moment) \subseteq {o.to : o \in WholeCalendar}
    /\ \A o \in WholeCalendar :
          o.to <= moment /\ o.to > moment - SearchDays * DayTicks
              => \E e \in EndsBefore(windows, moment) : e >= o.to
    /\ StartsAfter(windows, moment) \subseteq {o.from : o \in WholeCalendar}
    /\ \A o \in WholeCalendar :
          o.from > moment => \E s \in StartsAfter(windows, moment) : s <= o.from
=============================================================================
