------------------------------ MODULE WeekGrid ------------------------------
(***************************************************************************)
(* The hour grid of a week or a day: what lies beside what in a column,    *)
(* which hours the grid spans, which of them are shaded, and what time an  *)
(* empty cell composes at.  Times are minutes of the wall clock.  What the *)
(* page brings changes under a grid that stays mounted.                    *)
(***************************************************************************)
EXTENDS Dates, Sequences, SequencesExt

CONSTANTS
    Stretches,   \* the occurrences there may be: day, start and end
    MaxBlocks,   \* bound: occurrences of a page
    Open,        \* weekly availability: weekdays (0 is Sunday) to windows
    GridWeek,    \* the first day of the week that is looked at
    GridDay      \* the day that is looked at

\* Minutes of the wall clock.
ClockTimes == 0..1439

\* The windows of a day are as the loader joins them.
ASSUME GridAssumption ==
    /\ \A s \in Stretches : s.start \in ClockTimes /\ s.end \in ClockTimes
    /\ \A week \in Open, d \in 0..6 :
         /\ IsFiniteSet(week[d])
         /\ \A w \in week[d] : w.from \in Nat /\ w.to \in Nat /\ w.from < w.to
         /\ \A v, w \in week[d] : v.from = w.from => v = w
    /\ GridWeek \in Int /\ GridDay \in Int

VARIABLES
    blocks,        \* the timed occurrences of the page, in its order
    gridDays,      \* the days that have a column
    availability   \* the hours the page brought

gridVars == <<blocks, gridDays, availability>>

DefaultStart == 8 * 60
DefaultEnd == 20 * 60

-----------------------------------------------------------------------------
(* What a block spans: overnight and empty ones are half an hour.          *)

From(i) == blocks[i].start

To(i) == IF blocks[i].end > blocks[i].start THEN blocks[i].end ELSE blocks[i].start + 30

ByDay(day) == {i \in DOMAIN blocks : blocks[i].day = day}

\* The hours of the grid: whole ones, and one more on either side.
Latest == Max({Max({blocks[i].end, From(i) + 30}) : i \in DOMAIN blocks})

StartMinute ==
    IF blocks = <<>> THEN DefaultStart
    ELSE Max({0, 60 * (Min({From(i) : i \in DOMAIN blocks}) \div 60) - 60})

EndMinute ==
    IF blocks = <<>> THEN DefaultEnd
    ELSE Min({1440, 60 * ((Latest + 59) \div 60) + 60})

Span == Max({60, EndMinute - StartMinute})

-----------------------------------------------------------------------------
(* One day's blocks side by side.                                          *)

StartsBefore(i, j) == From(i) < From(j) \/ (From(i) = From(j) /\ i < j)

InStartOrder(day) ==
    CHOOSE s \in SetToSeqs(ByDay(day)) : \A m, n \in DOMAIN s : m < n => StartsBefore(s[m], s[n])

OpenEnd(group) == Max({To(i) : i \in Range(group)})

\* Mutant: a block that starts when the last one ends joins it.
GroupedTouching(groups, i) ==
    IF groups = <<>> \/ From(i) > OpenEnd(Last(groups)) THEN Append(groups, <<i>>)
    ELSE Append(Front(groups), Append(Last(groups), i))

\* A block that starts at or after the latest end so far closes the cluster.
Grouped(groups, i) ==
    IF groups = <<>> \/ From(i) >= OpenEnd(Last(groups)) THEN Append(groups, <<i>>)
    ELSE Append(Front(groups), Append(Last(groups), i))

Clusters(day) == FoldLeft(Grouped, <<>>, InStartOrder(day))

\* The first lane whose last block has ended, or a lane more.
Seated(seats, i) ==
    LET free == {l \in DOMAIN seats.ends : seats.ends[l] <= From(i)}
        lane == IF free = {} THEN Len(seats.ends) + 1 ELSE Min(free)
    IN  [ends |-> IF free = {} THEN Append(seats.ends, To(i)) ELSE [seats.ends EXCEPT ![lane] = To(i)],
         lanes |-> Append(seats.lanes, lane)]

Lanes(cluster) == FoldLeft(Seated, [ends |-> <<>>, lanes |-> <<>>], cluster)

\* A block is as high as it lasts; that a short one is drawn a fortieth of
\* the grid high is left out.
Layout(day) ==
    LET clusters == Clusters(day) IN
    UNION {LET seats == Lanes(clusters[c])
           IN  {[block |-> clusters[c][n], cluster |-> c, lane |-> seats.lanes[n],
                 lanes |-> Len(seats.ends)] : n \in DOMAIN clusters[c]} :
           c \in DOMAIN clusters}

-----------------------------------------------------------------------------
(* Behind the blocks.                                                      *)

Behind(gaps, w) ==
    [bands |-> gaps.bands \cup {[from |-> gaps.cursor, to |-> w.from]},
     cursor |-> Max({gaps.cursor, w.to})]

FromTheStart(windows) ==
    CHOOSE s \in SetToSeqs(windows) : \A m, n \in DOMAIN s : m < n => s[m].from < s[n].from

\* The gaps between the windows and around them.
Gaps(windows) ==
    LET last == FoldLeft(Behind, [bands |-> {}, cursor |-> 0], FromTheStart(windows))
    IN  last.bands \cup {[from |-> last.cursor, to |-> 1440]}

\* Clipped to the grid.  A day without windows has no hours set, and is not
\* shaded at all.
OutsideHours(day) ==
    LET windows == availability[Weekday(day) % 7]
        clipped == {[from |-> Max({b.from, StartMinute}), to |-> Min({b.to, EndMinute})] :
                      b \in IF windows = {} THEN {} ELSE Gaps(windows)}
    IN  {b \in clipped : b.from < b.to}

HourCells == {StartMinute \div 60 + n : n \in 0..(Span + 59) \div 60 - 1}

\* The lower half of a cell is its half hour.
SlotMinute(lower) == IF lower THEN 30 ELSE 0

ComposedAt(hour, lower) == 60 * (hour % 24) + SlotMinute(lower)

-----------------------------------------------------------------------------
WeekDays == GridWeek..GridWeek + 6

GridInit ==
    /\ blocks = <<>>
    /\ gridDays \in {WeekDays, {GridDay}}
    /\ availability \in Open

\* A page with one occurrence more, and one with one less.
BlockAppears ==
    /\ Len(blocks) < MaxBlocks
    /\ \E s \in {t \in Stretches : t.day \in gridDays} : blocks' = Append(blocks, s)
    /\ UNCHANGED <<gridDays, availability>>

BlockGoes ==
    /\ \E i \in DOMAIN blocks : blocks' = RemoveAt(blocks, i)
    /\ UNCHANGED <<gridDays, availability>>

HoursChange ==
    /\ availability' \in Open
    /\ UNCHANGED <<blocks, gridDays>>

GridNext == BlockAppears \/ BlockGoes \/ HoursChange

-----------------------------------------------------------------------------
(* Properties.                                                             *)

Meet(i, j) == From(i) < To(j) /\ From(j) < To(i)

\* The blocks of the cluster under way when one of them starts.
UnderWay(placed, p) ==
    {q \in placed : q.cluster = p.cluster /\ From(q.block) <= From(p.block)
                      /\ From(p.block) < To(q.block)}

\* No block lies over another, and none is narrower than it must be: blocks
\* that meet share a cluster and are in lanes of their own, and a cluster has
\* as many lanes as it has blocks under way at once.  A block that meets no
\* other has the whole column.
LaidOutSideBySide(placed) ==
    /\ \A p, q \in placed :
         (p # q /\ Meet(p.block, q.block)) => p.cluster = q.cluster /\ p.lane # q.lane
    /\ \A p \in placed :
         LET cluster == {q \in placed : q.cluster = p.cluster} IN
         /\ p.lane <= p.lanes
         /\ p.lanes = Max({Cardinality(UnderWay(placed, q)) : q \in cluster})
         /\ (\A q \in placed : q # p => ~Meet(p.block, q.block)) => p.lanes = 1

HalfHours == {30 * n : n \in 0..47}

\* A minute is shaded when the day has hours and none of them holds it.
Shaded(day, minute) ==
    LET windows == availability[Weekday(day) % 7] IN
    windows # {} /\ \A w \in windows : minute < w.from \/ w.to <= minute

\* A column can be read: its blocks lie side by side and inside the grid, the
\* hours outside the owner's own are shaded and no others, and an empty cell
\* composes at a time it is drawn at.  A block that starts in the last half
\* hour of its day and has no end after it is drawn beyond midnight.
ColumnsCanBeRead ==
    LET start == StartMinute
        end == EndMinute
        composed == {ComposedAt(hour, lower) : hour \in HourCells, lower \in BOOLEAN}
    IN  /\ composed = {m \in HalfHours : start <= m /\ m < end}
        /\ \A i \in DOMAIN blocks : start <= From(i) /\ (To(i) <= end \/ To(i) > 1440)
        /\ \A day \in gridDays :
             LET bands == OutsideHours(day) IN
             /\ LaidOutSideBySide(Layout(day))
             /\ \A m \in composed : Shaded(day, m) <=> \E b \in bands : b.from <= m /\ m < b.to
=============================================================================
