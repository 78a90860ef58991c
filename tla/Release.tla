-------------------------------- MODULE Release --------------------------------
(***************************************************************************)
(* The release pipeline (scripts/release.py, run by the jobs of            *)
(* .github/workflows/release.yml): a pushed tag is validated against the   *)
(* source, the candidate is checked and scanned, and its image gets the    *)
(* tag of its version and the convenience tags of the lines it leads.      *)
(* Runs of one tag exclude each other, runs of different tags do not.      *)
(* A convenience tag is a prefix of the version: <<1, 2>> for 1.2, <<>>    *)
(* for latest.  The registry, git and the runners are external.            *)
(***************************************************************************)
EXTENDS Naturals, Sequences, FiniteSets

CONSTANTS
  Version,      \* the versions, <<major, minor, patch>>
  Report,       \* the critical findings of each version's scan
  Exceptions,   \* the documented exceptions, [id, expires]
  MaxDay        \* bound on the days

ASSUME ReleaseAssumption ==
  /\ \A v \in Version : v \in Seq(Nat) /\ Len(v) = 3
  /\ MaxDay \in Nat

VARIABLES
  day, release, registry
  \* release[v]: the run of v's tag: where it is, the tags it has fetched, the tags it has
  \* still to apply, the day of its scan.  registry: the version each tag points to.

releases == <<day, release, registry>>

NoRun == [pc |-> "none", source |-> <<>>, changelog |-> FALSE, seen |-> {}, todo |-> <<>>, day |-> 0]
Moves(v, r) == release' = [release EXCEPT ![v] = r] /\ UNCHANGED <<day, registry>>
GitTags == {v \in Version : release[v].pc # "none"}

\* _vtuple's order
Less(a, b) == \E i \in 1..3 : a[i] < b[i] /\ \A j \in 1..(i - 1) : a[j] = b[j]
InLine(v, p) == SubSeq(v, 1, Len(p)) = p

\* A tag is pushed, on a commit with some version in its source and its changelog.
PushTag(v) ==
  /\ release[v].pc = "none"
  /\ \E s \in Version, c \in BOOLEAN :
       Moves(v, [release[v] EXCEPT !.pc = "tagged", !.source = s, !.changelog = c])

\* check_version: the tag, the source and the changelog agree.
CheckVersion(v) == release[v].source = v /\ release[v].changelog

Validate(v) ==
  /\ release[v].pc = "tagged"
  /\ Moves(v, [release[v] EXCEPT !.pc = IF CheckVersion(v) THEN "valid" ELSE "failed"])

\* The built wheel, archive and compose file are what they should be, or the run stops.
Candidate(v) ==
  /\ release[v].pc = "valid"
  /\ \E pc \in {"candidate", "failed"} : Moves(v, [release[v] EXCEPT !.pc = pc])

\* load_exceptions: one that has expired, or lacks its documentation, is an error.
ExceptionsHold == \A e \in Exceptions : e.expires >= day

\* scan_gate: the critical findings without an exception
Blocking(v) == {f \in Report[v] : \A e \in Exceptions : e.id # f}

Scan(v) ==
  /\ release[v].pc = "candidate"
  /\ Moves(v, [release[v] EXCEPT !.day = day,
                 !.pc = IF ExceptionsHold /\ Blocking(v) = {} THEN "scanned" ELSE "failed"])

\* stable_tags: its own tag, and those of the lines in which no existing tag is higher.
Leads(v, existing, n) == \A o \in existing : InLine(o, SubSeq(v, 1, n)) => ~Less(v, o)
LineTag(v, existing, n) == IF Leads(v, existing, n) THEN <<SubSeq(v, 1, n)>> ELSE <<>>
StableTags(v, existing) ==
  <<v>> \o LineTag(v, existing, 2) \o LineTag(v, existing, 1) \o LineTag(v, existing, 0)

\* The publish job checks out the tags of now; they decide which tags it will move.
Checkout(v) ==
  /\ release[v].pc = "scanned"
  /\ Moves(v, [release[v] EXCEPT !.pc = "tagging", !.seen = GitTags, !.todo = StableTags(v, GitTags)])

\* The registry once tag t points to version v
Pointed(t, v) == [a \in DOMAIN registry \cup {t} |-> IF a = t THEN v ELSE registry[a]]

\* Fault: the image is pushed under all its tags but the last.
ApplyButLast(v) ==
  /\ release[v].pc = "tagging"
  /\ registry' = Pointed(Head(release[v].todo), v)
  /\ release' = [release EXCEPT ![v] =
       [release[v] EXCEPT !.todo = Tail(release[v].todo), !.pc = IF Len(release[v].todo) <= 2 THEN "released" ELSE "tagging"]]
  /\ UNCHANGED day

\* The attested digest gets one tag after the other.
Apply(v) ==
  /\ release[v].pc = "tagging"
  /\ registry' = Pointed(Head(release[v].todo), v)
  /\ release' = [release EXCEPT ![v] =
       [release[v] EXCEPT !.todo = Tail(release[v].todo), !.pc = IF Len(release[v].todo) = 1 THEN "released" ELSE "tagging"]]
  /\ UNCHANGED day

\* A step of the publish job fails; what it has applied stays.
PublishFails(v) ==
  release[v].pc \in {"scanned", "tagging"} /\ Moves(v, [release[v] EXCEPT !.pc = "failed"])

NextDay == day < MaxDay /\ day' = day + 1 /\ UNCHANGED <<release, registry>>
-----------------------------------------------------------------------------
ReleaseInit == day = 0 /\ release = [v \in Version |-> NoRun] /\ registry = [a \in {} |-> <<>>]

ReleaseNext ==
  \/ NextDay
  \/ \E v \in Version :
       PushTag(v) \/ Validate(v) \/ Candidate(v) \/ Scan(v) \/ Checkout(v) \/ Apply(v) \/ PublishFails(v)
-----------------------------------------------------------------------------
\* What a registry tag points to has that version in its source and its changelog, and
\* its critical findings were excepted on the day of its scan.
PublishedIsChecked ==
  \A a \in DOMAIN registry :
    LET r == release[registry[a]] IN
    /\ InLine(r.source, a) /\ r.changelog
    /\ \A f \in Report[registry[a]] : \E e \in Exceptions : e.id = f /\ e.expires >= r.day

\* The tag of each line of a released version points to it, unless a higher version of the
\* line has been tagged, or it was moved by the run of a lower version that had fetched
\* the tags before this one was pushed.
TagIsNewest ==
  \A v \in Version, n \in 0..2 :
    LET a == SubSeq(v, 1, n) IN
    release[v].pc = "released" =>
      \/ \E o \in GitTags : InLine(o, a) /\ Less(v, o)
      \/ /\ a \in DOMAIN registry
         /\ registry[a] = v \/ (Less(registry[a], v) /\ v \notin release[registry[a]].seen)

\* What a registry tag points to passed the checks, and it is the newest of its line.
RegistryIsRight == PublishedIsChecked /\ TagIsNewest
=============================================================================
