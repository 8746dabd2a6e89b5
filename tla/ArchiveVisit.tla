---------------------------- MODULE ArchiveVisit ----------------------------
(***************************************************************************)
(* visit_zip: the members of a ZIP archive are visited in order, those of  *)
(* the archives in it included, and each member of the wanted format is    *)
(* handed on.  Limits guard the number of entries, their declared size and *)
(* the nesting.                                                            *)
(***************************************************************************)
EXTENDS Integers, Sequences, FiniteSets

CONSTANTS
  Archives,         \* archives, nested ones included
  MembersOf,        \* archive -> its members, in order: [kind, size, zip], of kind
                    \* "directory", "file" (of the format), "other" or "zip"
  TopArchives,      \* archives that may be downloaded
  MaxArchiveDepth,  \* max_depth
  MaxEntries,       \* max_entries
  MaxExpanded       \* max_expanded_bytes

\* An archive may hold itself, as a ZIP file can.
ASSUME MembersAssumption ==
  \A a \in Archives :
    MembersOf[a] \in Seq([kind : {"directory", "file", "other"}, size : Nat, zip : STRING] \cup
                         [kind : {"zip"}, size : Nat, zip : Archives])
ASSUME LimitsAssumption ==
  /\ TopArchives \subseteq Archives
  /\ MaxArchiveDepth \in Nat \ {0} /\ MaxEntries \in Nat /\ MaxExpanded \in Nat

VARIABLES
  archive,   \* the archive downloaded
  open,      \* stack of archives being read: [archive, next]
  entries,   \* ArchiveVisitState.entries
  expanded,  \* ArchiveVisitState.expanded
  handed,    \* members handed on: <<archive, index>>
  visit      \* reading, done, refused (over a limit) or failed

archiveVars == <<archive, open, entries, expanded, handed, visit>>

Opened(a) == [archive |-> a, next |-> 1]

ArchiveInit ==
  /\ archive \in TopArchives
  /\ open = <<Opened(archive)>>
  /\ entries = 0 /\ expanded = 0 /\ handed = <<>>
  /\ visit = "reading"

Level == open[Len(open)]
Member == MembersOf[Level.archive][Level.next]
AtMember == visit = "reading" /\ open # <<>> /\ Level.next <= Len(MembersOf[Level.archive])

Advanced == [open EXCEPT ![Len(open)].next = @ + 1]

\* Directories count as entries and nothing else.
Counted == entries' = entries + 1 /\ entries < MaxEntries
Expanded == expanded' = expanded + Member.size /\ expanded + Member.size <= MaxExpanded

SkipDirectory ==
  /\ AtMember /\ Member.kind = "directory" /\ Counted
  /\ open' = Advanced /\ UNCHANGED <<archive, expanded, handed, visit>>

SkipMember ==
  /\ AtMember /\ Member.kind = "other" /\ Counted /\ Expanded
  /\ open' = Advanced /\ UNCHANGED <<archive, handed, visit>>

HandOn ==
  /\ AtMember /\ Member.kind = "file" /\ Counted /\ Expanded
  /\ handed' = Append(handed, <<Level.archive, Level.next>>)
  /\ open' = Advanced /\ UNCHANGED <<archive, visit>>

EnterArchiveAnew ==                                                  \* mutant
  /\ AtMember /\ Member.kind = "zip" /\ Counted /\ Expanded /\ Len(open) < MaxArchiveDepth
  /\ open' = Append(open, Opened(Member.zip))
  /\ UNCHANGED <<archive, handed, visit>>
EnterArchive ==
  /\ AtMember /\ Member.kind = "zip" /\ Counted /\ Expanded /\ Len(open) < MaxArchiveDepth
  /\ open' = Append(Advanced, Opened(Member.zip))
  /\ UNCHANGED <<archive, handed, visit>>

LeaveArchive ==
  /\ visit = "reading" /\ open # <<>> /\ Level.next > Len(MembersOf[Level.archive])
  /\ open' = SubSeq(open, 1, Len(open) - 1)
  /\ visit' = IF Len(open) = 1 THEN "done" ELSE visit
  /\ UNCHANGED <<archive, entries, expanded, handed>>

Unwind(outcome) ==
  /\ visit' = outcome /\ open' = <<>>
  /\ UNCHANGED <<archive, entries, expanded, handed>>

OverLimit ==
  \/ entries >= MaxEntries
  \/ Member.kind # "directory" /\ expanded + Member.size > MaxExpanded
  \/ Member.kind = "zip" /\ Len(open) >= MaxArchiveDepth
Refuse == AtMember /\ OverLimit /\ Unwind("refused")

\* The archive cannot be read, is too large as a file, lies about a size, or a
\* copy cannot be stored.
VisitFails == AtMember /\ ~OverLimit /\ Unwind("failed")

ArchiveNext ==
  SkipDirectory \/ SkipMember \/ HandOn \/ EnterArchive \/ LeaveArchive \/ Refuse \/ VisitFails

ArchiveSpec == ArchiveInit /\ [][ArchiveNext]_archiveVars
-----------------------------------------------------------------------------
(* An archive read in full: the members to hand on, the entries, the bytes *)
(* and the nesting, those of the archives in it included.  What lies too   *)
(* deep is not read, but counted as a level.                               *)
Joined(a, b) ==
  [handed |-> a.handed \o b.handed, entries |-> a.entries + b.entries,
   expanded |-> a.expanded + b.expanded, depth |-> IF a.depth > b.depth THEN a.depth ELSE b.depth]
Unread == [handed |-> <<>>, entries |-> 0, expanded |-> 0, depth |-> 1]

Alone(a, i) ==
  LET m == MembersOf[a][i] IN
  [handed |-> IF m.kind = "file" THEN <<<<a, i>>>> ELSE <<>>, entries |-> 1,
   expanded |-> IF m.kind = "directory" THEN 0 ELSE m.size, depth |-> 1]
InFull(a, i, nested) ==
  LET m == MembersOf[a][i] IN
  IF m.kind = "zip" THEN Joined(Alone(a, i), [nested[m.zip] EXCEPT !.depth = @ + 1]) ELSE Alone(a, i)

\* The first members of an archive, given what there is in the archives nested
\* in it; a whole archive, with so many levels.
ReadUpTo(a, nested) ==
  LET read[i \in 0..Len(MembersOf[a])] ==
        IF i = 0 THEN Unread ELSE Joined(read[i - 1], InFull(a, i, nested))
  IN read
WholeAt ==
  LET whole[levels \in 0..MaxArchiveDepth] ==
        IF levels = 0 THEN [a \in Archives |-> Unread]
        ELSE LET nested == whole[levels - 1] IN
             [a \in Archives |-> ReadUpTo(a, nested)[Len(MembersOf[a])]]
  IN whole
Whole(a) == WholeAt[MaxArchiveDepth][a]

Within(whole) ==
  whole.entries <= MaxEntries /\ whole.expanded <= MaxExpanded /\ whole.depth <= MaxArchiveDepth

(* What was read has been handed on in full, nested archives included, and *)
(* each member once; the limits are those of the whole tree of archives:   *)
(* it is read only if it keeps them and refused only if it does not.       *)
ArchiveIsWhole ==
  /\ visit = "done" => handed = Whole(archive).handed /\ Within(Whole(archive))
  /\ visit = "refused" => ~Within(Whole(archive))
=============================================================================
