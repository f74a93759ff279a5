---------------------------- MODULE PlaybackList ----------------------------
(***************************************************************************)
(* The list of recorded files (cloud_playback_list.c): a fixed array of    *)
(* entries, linked into one list for each day, newest file first, under    *)
(* one mutex.  The scan of a card that was put in and the recorder each    *)
(* take an entry, fill it and link it in later; the event thread clears    *)
(* the list when the card is pulled out; phones delete files and ask for   *)
(* pages; the recorder deletes the oldest file when the card is full.      *)
(*                                                                         *)
(* An operation under the mutex (which its owner may take again) is one    *)
(* action.  A file is known by its start time; seconds, minutes and hours  *)
(* are as short as the constants say.                                      *)
(***************************************************************************)
EXTENDS Integers, Sequences, FiniteSets, SequencesExt, FiniteSetsExt

CONSTANTS
    NSlots,     \* entries of cloud_playback_list_info (2048): more than the trials
                \* need, since the search for a free one does not end at the array
    PerMinute,  \* seconds of a minute
    PerHour,    \* minutes of an hour
    PerDay,     \* hours of a day
    LastTime,   \* bound: the last second at which a recording may begin
    Trials,     \* bound: what the card holds at the start, and how often it is
                \* moved, files are recorded and deleted and playbacks started
    MaxEvents,  \* bound: events of the card not yet handled
    Kind        \* what caused the recording of each file (KEY_, PIR_, MSG_)

ASSUME Clock == {NSlots, PerMinute, PerHour, PerDay} \subseteq Nat \ {0}
ASSUME Bounds == LastTime \in Nat /\ MaxEvents \in Nat \ {0}

VARIABLES
    card,       \* storage_device_ready
    budget,     \* what is left of the trial's numbers
    files,      \* the finished movies on the card
    last,       \* the start of the newest recording ever made
    events,     \* events of the card that wait for the event thread
    kill,       \* cloud_playback_list_task_kill_flag
    info,       \* cloud_playback_list_info
    day_list,   \* day[..].t_head: the entries of each day
    day_cnt,    \* day[..].day_video_cnt
    total,      \* list_root_info.total_video_cnt
    scan,       \* cloud_playback_list_task
    rec         \* the recorder inside cloud_playback_list_add

listVars == <<budget, card, files, last, events, kill, info, day_list, day_cnt, total,
              scan, rec>>

Times == 0..LastTime
\* Bound: no card has so many files that the array could be full.  The code does not
\* see to it (the array has 2048 entries); what its search finds behind a full array is
\* not modelled.
ASSUME Histories ==
    \A t \in Trials :
        /\ t \in [files : SUBSET Times, moves : Nat, records : Nat, deletes : Nat, plays : Nat]
        /\ Cardinality(t.files) + 2 * t.records < NSlots
Counts == {"moves", "records", "deletes", "plays"}
NoTime == -1            \* an entry that never held a file
Slots == 1..NSlots
Second(t) == t % PerMinute
Minute(t) == (t \div PerMinute) % PerHour
Hour(t) == (t \div (PerMinute * PerHour)) % PerDay
Day(t) == t \div (PerMinute * PerHour * PerDay)
Days == {Day(t) : t \in Times}

Time(s) == info[s].time
Listed == UNION {ToSet(day_list[d]) : d \in Days}
Unused == {s \in Slots : ~info[s].used}
Off == [at |-> "off", left |-> {}, slot |-> 0]

ListInit ==
    /\ \E t \in Trials : /\ files = t.files
                       /\ budget = [x \in Counts |-> t[x]]
    /\ last = Max(files \cup {0})
    /\ \/ card = "in" /\ events = <<"in">>
       \/ card = "out" /\ events = <<>>
    /\ kill = FALSE
    /\ info = [s \in Slots |-> [used |-> FALSE, time |-> NoTime]]
    /\ day_list = [d \in Days |-> <<>>]
    /\ day_cnt = [d \in Days |-> 0]
    /\ total = 0
    /\ scan = Off
    /\ rec = 0
-----------------------------------------------------------------------------
(***************************************************************************)
(* Entries.                                                                *)
(***************************************************************************)
\* find_empty_cloud_playback_list_info, and the file the entry is filled with.
TakeSlot(s, f) == /\ s = Min(Unused)
                  /\ info' = [info EXCEPT ![s] = [used |-> TRUE, time |-> f]]

\* The entries of a list that are in a set, in their order.
Only(list, set) ==
    LET kept[i \in 0..Len(list)] ==
            IF i = 0 THEN <<>>
            ELSE IF list[i] \in set THEN Append(kept[i - 1], list[i]) ELSE kept[i - 1]
    IN  kept[Len(list)]

\* The list of a day with an entry put before the first that is older.
Insert(list, s) ==
    LET older == {i \in DOMAIN list : Time(list[i]) < Time(s)}
    IN  InsertAt(list, IF older = {} THEN Len(list) + 1 ELSE Min(older), s)

info_add(s) ==
    LET d == Day(Time(s))
    IN  /\ day_list' = [day_list EXCEPT ![d] = Insert(@, s)]
        /\ day_cnt' = [day_cnt EXCEPT ![d] = @ + 1]
        /\ total' = total + 1

\* Faulty: the entries stay in use.
UnlinkOnly(gone) ==
    /\ day_list' = [d \in Days |-> Only(day_list[d], Slots \ gone)]
    /\ day_cnt' = [d \in Days |-> day_cnt[d] - Cardinality(gone \cap ToSet(day_list[d]))]
    /\ total' = total - Cardinality(gone)
    /\ UNCHANGED info

\* Faulty: takes one off the total, however many are deleted.
UncountOne(gone) ==
    /\ day_list' = [d \in Days |-> Only(day_list[d], Slots \ gone)]
    /\ day_cnt' = [d \in Days |-> day_cnt[d] - Cardinality(gone \cap ToSet(day_list[d]))]
    /\ total' = total - 1
    /\ info' = [s \in Slots |-> IF s \in gone THEN [info[s] EXCEPT !.used = FALSE] ELSE info[s]]

\* cloud_playback_list_info_del for each of a set of listed entries.  The entry
\* keeps what it holds.
info_del(gone) ==
    /\ day_list' = [d \in Days |-> Only(day_list[d], Slots \ gone)]
    /\ day_cnt' = [d \in Days |-> day_cnt[d] - Cardinality(gone \cap ToSet(day_list[d]))]
    /\ total' = total - Cardinality(gone)
    /\ info' = [s \in Slots |-> IF s \in gone THEN [info[s] EXCEPT !.used = FALSE] ELSE info[s]]
-----------------------------------------------------------------------------
(***************************************************************************)
(* The card and the event thread.                                          *)
(***************************************************************************)
CardMoves ==
    /\ budget.moves > 0 /\ budget' = [budget EXCEPT !.moves = @ - 1]
    /\ Len(events) < MaxEvents
    /\ card' = IF card = "in" THEN "out" ELSE "in"
    /\ events' = Append(events, card')
    /\ UNCHANGED <<files, last, kill, info, day_list, day_cnt, total, scan, rec>>

\* cloud_playback_list_init.
CardIn ==
    /\ events # <<>> /\ Head(events) = "in"
    /\ events' = Tail(events)
    /\ scan' = [Off EXCEPT !.at = "wait"]
    /\ UNCHANGED <<budget, card, files, last, kill, info, day_list, day_cnt, total, rec>>

\* cloud_playback_list_uninit: ask the scan to end ...
CardOut ==
    /\ events # <<>> /\ Head(events) = "out" /\ ~kill
    /\ kill' = TRUE
    /\ UNCHANGED <<budget, card, files, last, events, info, day_list, day_cnt, total, scan, rec>>

\* Faulty: does not wait for the end of the scan.
ClearAtOnce ==
    /\ kill
    /\ kill' = FALSE
    /\ events' = Tail(events)
    /\ info_del(Listed)
    /\ UNCHANGED <<budget, card, files, last, scan, rec>>

\* ... wait for its end, and clear the list.
Clear ==
    /\ kill /\ scan.at = "off"
    /\ kill' = FALSE
    /\ events' = Tail(events)
    /\ info_del(Listed)
    /\ UNCHANGED <<budget, card, files, last, scan, rec>>
-----------------------------------------------------------------------------
(***************************************************************************)
(* cloud_playback_list_task: the files of the card, newest first.          *)
(***************************************************************************)
ScanStarts ==
    /\ scan.at = "wait" /\ card = "in"
    /\ scan' = [Off EXCEPT !.at = "scan", !.left = files]
    /\ UNCHANGED <<budget, card, files, last, events, kill, info, day_list, day_cnt, total, rec>>

ScanEnds ==
    /\ \/ scan.at = "wait" /\ kill
       \/ scan.at = "scan" /\ (kill \/ scan.left = {})
    /\ scan' = Off
    /\ UNCHANGED <<budget, card, files, last, events, kill, info, day_list, day_cnt, total, rec>>

\* A file that cannot be read any more is passed over.
ScanSkips ==
    /\ scan.at = "scan" /\ ~kill /\ scan.left # {}
    /\ card = "out" \/ Max(scan.left) \notin files
    /\ scan' = [scan EXCEPT !.left = @ \ {Max(@)}]
    /\ UNCHANGED <<budget, card, files, last, events, kill, info, day_list, day_cnt, total, rec>>

ScanTakes ==
    /\ scan.at = "scan" /\ ~kill /\ scan.left # {}
    /\ card = "in" /\ Max(scan.left) \in files
    /\ \E s \in Unused : /\ TakeSlot(s, Max(scan.left))
                         /\ scan' = [scan EXCEPT !.at = "add", !.slot = s]
    /\ UNCHANGED <<budget, card, files, last, events, kill, day_list, day_cnt, total, rec>>

ScanAdds ==
    /\ scan.at = "add"
    /\ info_add(scan.slot)
    /\ scan' = [scan EXCEPT !.at = "scan", !.slot = 0, !.left = @ \ {Max(@)}]
    /\ UNCHANGED <<budget, card, files, last, events, kill, info, rec>>
-----------------------------------------------------------------------------
(***************************************************************************)
(* The recorder.                                                           *)
(***************************************************************************)
\* A recording is finished and closed: cloud_playback_list_add up to the entry.
RecorderFinishes(f) ==
    /\ budget.records > 0 /\ budget' = [budget EXCEPT !.records = @ - 1]
    /\ rec = 0 /\ card = "in"
    /\ f > last
    /\ last' = f /\ files' = files \cup {f}
    /\ \E s \in Unused : TakeSlot(s, f) /\ rec' = s
    /\ UNCHANGED <<card, events, kill, day_list, day_cnt, total, scan>>

RecorderAdds ==
    /\ rec # 0
    /\ info_add(rec)
    /\ rec' = 0
    /\ UNCHANGED <<budget, card, files, last, events, kill, info, scan>>

\* The oldest file makes room.  cloud_playback_list_local_remove unlists the
\* files of its day whose names are not its own.
RecorderDeletes ==
    /\ budget.deletes > 0 /\ budget' = [budget EXCEPT !.deletes = @ - 1]
    /\ rec = 0 /\ card = "in" /\ files # {}
    /\ LET f == Min(files)
       IN  /\ info_del({s \in ToSet(day_list[Day(f)]) : Time(s) # f})
           /\ files' = files \ {f}
    /\ UNCHANGED <<card, last, events, kill, scan, rec>>
-----------------------------------------------------------------------------
(***************************************************************************)
(* Requests of a phone.                                                    *)
(***************************************************************************)
\* The entries a request deletes: it walks once through the day
\* of the first file asked for, and looks for the next only behind the last found.
Found(req) ==
    LET day == day_list[Day(req[1])]
        at[k \in 0..Len(req)] ==
            IF k = 0 THEN 0
            ELSE LET next == {i \in DOMAIN day : at[k - 1] < i /\ Time(day[i]) = req[k]}
                 IN  IF next = {} THEN Len(day) + 1 ELSE Min(next)
    IN  {day[i] : i \in DOMAIN day \cap {at[k] : k \in 1..Len(req)}}

cloud_playback_list_remove(req) ==
    /\ budget.deletes > 0 /\ budget' = [budget EXCEPT !.deletes = @ - 1]
    /\ card = "in"
    /\ info_del(Found(req))
    /\ files' = files \ {Time(s) : s \in Found(req)}
    /\ UNCHANGED <<card, last, events, kill, scan, rec>>

\* cloud_playback_list_get: the entries it goes through for a day, the newest first
\* or the oldest (order 2) ...
OfDay(d, oldest) == IF oldest THEN Reverse(day_list[d]) ELSE day_list[d]

\* ... and for day 0, every day: the newest day first or the oldest, but inside a day
\* always the newest file.
OfAllDays(oldest) ==
    LET of[n \in 0..(Day(LastTime) + 1)] ==     \* of the first n days
            IF n = 0 THEN <<>>
            ELSE IF oldest THEN of[n - 1] \o day_list[n - 1] ELSE day_list[n - 1] \o of[n - 1]
    IN  of[Day(LastTime) + 1]

\* Faulty: a page begins one entry late.
LatePage(list, page, size, kinds) ==
    LET behind == SubSeq(list, (page - 1) * size + 2, Len(list))
        wanted == Only(behind, {s \in ToSet(behind) : Kind[Time(s)] \in kinds})
    IN  SubSeq(wanted, 1, Min({size, Len(wanted)}))

\* cloud_playback_list_set_info for each of the entries gone through: page number
\* page.  Until the page begins every entry counts; on the page only those of the
\* kinds asked for.  A request for the times alone (rtype 0) is one for all kinds.
Page(list, page, size, kinds) ==
    LET behind == SubSeq(list, (page - 1) * size + 1, Len(list))
        wanted == Only(behind, {s \in ToSet(behind) : Kind[Time(s)] \in kinds})
    IN  SubSeq(wanted, 1, Min({size, Len(wanted)}))

\* Faulty: the seconds are not looked at.
CoversMinutes(f, t) == Hour(t) = Hour(f) /\ Minute(t) <= Minute(f) + 1

\* Whether a file that began at f is taken for the one that plays at t.
Covers(f, t) ==
    /\ Hour(t) = Hour(f)
    /\ \/ Minute(t) = Minute(f)
       \/ Minute(t) <= Minute(f) + 1 /\ Second(t) < Second(f)

\* cloud_playback_list_get_name_for_start_time: the file a playback begins with.
\* From a list of files it is asked for by its start, else by a time it covers,
\* and the oldest that will do is taken.
NameFor(t, by_file) ==
    LET day == day_list[Day(t)]
        fit == {i \in DOMAIN day : IF by_file THEN Time(day[i]) = t ELSE Covers(Time(day[i]), t)}
    IN  IF fit = {} THEN NoTime ELSE Time(day[Max(fit)])

\* Every step but the requests of a phone.
ListNext ==
    \/ CardMoves \/ CardIn \/ CardOut \/ Clear
    \/ ScanStarts \/ ScanEnds \/ ScanSkips \/ ScanTakes \/ ScanAdds
    \/ \E f \in Times : RecorderFinishes(f)
    \/ RecorderAdds \/ RecorderDeletes
-----------------------------------------------------------------------------
ListTypeOK ==
    /\ budget \in [Counts -> Nat]
    /\ card \in {"in", "out"}
    /\ files \subseteq 0..last /\ last \in Times
    /\ events \in BoundedSeq({"in", "out"}, MaxEvents)
    /\ kill \in BOOLEAN
    /\ info \in [Slots -> [used : BOOLEAN, time : Times \cup {NoTime}]]
    /\ \A d \in Days : day_list[d] \in Seq(Slots)
    /\ day_cnt \in [Days -> 0..NSlots] /\ total \in 0..NSlots
    /\ scan \in [at : {"off", "wait", "scan", "add"}, left : SUBSET Times, slot : 0..NSlots]
    /\ rec \in 0..NSlots

\* No entry is lost and none is in two places: an entry is in use exactly when it
\* is listed, once and under its own day, or in the hands of the scan or of the
\* recorder.  Each takes an entry in one step and lists it in a later one, between
\* which files are deleted and the list is cleared.  The counters a phone is told,
\* of the days and of everything, are kept apart from the lists and agree with them.
SlotsAreKept ==
    /\ \A s \in Slots : info[s].used <=> s \in Listed \cup {scan.slot, rec}
    /\ Listed \cap {scan.slot, rec} = {}
    /\ \A d \in Days : /\ day_cnt[d] = Len(day_list[d])
                       /\ Cardinality(ToSet(day_list[d])) = Len(day_list[d])
                       /\ \A s \in ToSet(day_list[d]) : Day(Time(s)) = d
    /\ total = Cardinality(Listed)

\* After the removal of a card was handled at most one entry is left: the one the
\* recorder had already taken.  (It stays until the next card is pulled out.)
LeftoverIsOne ==
    card = "out" /\ events = <<>> => Cardinality(Listed \cup ({rec} \ {0})) <= 1

Kinds == {Kind[t] : t \in Times}
PageNumbers(count, size) == 1..((count + size - 1) \div size)

\* Asked for without a filter, the pages that a count calls for hold each entry of
\* a list once; none is longer than its size; and whatever is on an earlier page, or
\* earlier on a page, does not come after in the order asked for.
ShownInTurn(list, count, size, order) ==
    /\ UNION {ToSet(Page(list, n, size, Kinds)) : n \in PageNumbers(count, size)} = ToSet(list)
    /\ \A m, n \in PageNumbers(count, size) :
         m <= n => LET p == Page(list, m, size, Kinds)
                       q == Page(list, n, size, Kinds)
                   IN  /\ Len(p) <= size
                       /\ \A i \in DOMAIN p, j \in DOMAIN q :
                            m < n \/ i < j => p[i] # q[j] /\ order[p[i]] <= order[q[j]]

\* With a filter they hold every entry of the kinds asked for, and no other.
ShownSomewhere(list, count, size, kinds) ==
    UNION {ToSet(Page(list, n, size, kinds)) : n \in PageNumbers(count, size)} =
        {s \in ToSet(list) : Kind[Time(s)] \in kinds}

NewestFile == [s \in Slots |-> -Time(s)]
OldestFile == [s \in Slots |-> Time(s)]
OldestDay == [s \in Slots |-> Day(Time(s))]

\* A phone asks for page after page, as many as the count it is told calls for, of a
\* day or of all days, in either order.  It is shown each entry of the list exactly
\* once and in order, however the list came about.  If it filters by kinds it misses
\* none of these, but that is all: a page is then filled with entries from behind its
\* edge, which the next one shows again, although the code says (line 849) that a page
\* has the entries from (page-1) * page_size to page * page_size.
PagesCover(size) ==
    /\ \A d \in Days :
         /\ ShownInTurn(OfDay(d, FALSE), day_cnt[d], size, NewestFile)
         /\ ShownInTurn(OfDay(d, TRUE), day_cnt[d], size, OldestFile)
    /\ ShownInTurn(OfAllDays(FALSE), total, size, NewestFile)
    /\ ShownInTurn(OfAllDays(TRUE), total, size, OldestDay)
    /\ \A kinds \in SUBSET Kinds, oldest \in BOOLEAN :
         /\ \A d \in Days : ShownSomewhere(OfDay(d, oldest), day_cnt[d], size, kinds)
         /\ ShownSomewhere(OfAllDays(oldest), total, size, kinds)

\* The same for the size of a page that is model-checked.
PagesCoverTheDay == PagesCover(2)

\* A playback from a time begins with the recording of that time, when recordings
\* of the hour are a minute long or less and do not overlap.
PlaysTheMinuteAskedFor ==
    \A t \in Times :
        LET hour == {f \in {Time(s) : s \in ToSet(day_list[Day(t)])} : Hour(f) = Hour(t)}
            now == {f \in hour : f <= t /\ t < f + PerMinute}
        IN  (now # {} /\ \A f, g \in hour : f < g => f + PerMinute <= g)
              => NameFor(t, FALSE) \in now
=============================================================================
