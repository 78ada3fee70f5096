------------------------- MODULE ThreadGrouping_proofs -------------------------
(***************************************************************************)
(* Proofs about ThreadGrouping, for any threads, messages and keys, and    *)
(* any bounds.  What the corrections promise is proved for corrections     *)
(* that do not overlap (OneSession): the code checks before it opens the   *)
(* transaction, and two of them can undo each other's checks.              *)
(***************************************************************************)
EXTENDS ThreadGrouping, WellFoundedInduction, TLAPS

USE DEF Recorded, Active

-------------------------------------------------------------------------------
(* Type correctness *)

LEMMA IdleType == Idle \in Delivery /\ NoJob \in Job
BY DEF Idle, Delivery, ThreadOrNone, Life, NoJob, Job

LEMMA ResolutionType ==
  ASSUME TypeOK, NEW m \in Message
  PROVE  Resolution(m) \subseteq Thread
BY MessageAssumption DEF TypeOK, Resolution, ByAlias, ByAnchor

LEMMA IngestType ==
  ASSUME TypeOK, NEW m \in Message, Ingress(m)
  PROVE  TypeOK'
<1>1. CASE IngestResolves(m)
  <2>1. PICK t \in Resolution(m) :
          delivery' = [delivery EXCEPT ![m] = [step |-> "resolved", to |-> t, saw |-> "none"]]
    BY <1>1 DEF IngestResolves
  <2>2. t \in Thread /\ [step |-> "resolved", to |-> t, saw |-> "none"] \in Delivery
    BY ResolutionType DEF Delivery, ThreadOrNone, Life
  <2>. QED BY <1>1, <2>1, <2>2 DEF IngestResolves, TypeOK
<1>2. CASE IngestFinds(m)
  BY <1>2 DEF IngestFinds, TypeOK, Delivery, Life
<1>3. CASE IngestCommits(m)
  BY <1>3, IdleType DEF IngestCommits, RowWritten, AnchorCreated, TypeOK, Idle, Life, ThreadOrNone
<1>4. CASE IngestFails(m)
  BY <1>4, IdleType DEF IngestFails, TypeOK, Idle
<1>. QED BY <1>1, <1>2, <1>3, <1>4 DEF Ingress

LEMMA ReplyType ==
  ASSUME TypeOK, NEW m \in Message, NEW c \in Thread, ReplyAliases(c, m)
  PROVE  TypeOK'
BY MessageAssumption DEF ReplyAliases, TypeOK, ingressVars, ThreadOrNone

\* The fields that the transactions take from a job are what they should be.
JobFieldsOK ==
  \A s \in Session :
    /\ job[s].step # "idle" => job[s].request \in Request
    /\ job[s].step \in {"merging", "aliased"} =>
         job[s].target \in Thread \ job[s].folds
    /\ job[s].step = "moving" =>
         job[s].event \in Message /\ job[s].source \in Thread /\ job[s].target \in Thread
    /\ job[s].step = "undoing" => Recorded(job[s].request)

\* Merges have a source among what they fold, moves an event.
RowsOK ==
  \A r \in Request : Recorded(r) =>
    /\ correction[r].at <= clock
    /\ correction[r].kind = "merge" =>
         correction[r].event = None /\ correction[r].source \in correction[r].folds
    /\ correction[r].kind = "move" =>
         correction[r].event \in Message /\ correction[r].folds = {}
    /\ \A q \in Request : Recorded(q) /\ correction[q].at = correction[r].at => q = r

TypeInv == TypeOK /\ JobFieldsOK /\ RowsOK

\* A correction is recorded under a key that had none.
LEMMA RecordsType ==
  ASSUME TypeInv, NEW r \in Request, ~Recorded(r), NEW row \in Correction, Records(r, row),
         row.at = clock + 1,
         row.kind = "merge" => row.event = None /\ row.source \in row.folds,
         row.kind = "move" => row.event \in Message /\ row.folds = {}
  PROVE  /\ correction' \in [Request -> Correction \cup {None}] /\ clock' \in Nat
         /\ RowsOK'
         /\ Recorded(r)' /\ correction'[r] = row
         /\ \A q \in Request \ {r} : correction'[q] = correction[q]
<1>1. row # None
  BY NoneAssumption
<1>2. correction' = [correction EXCEPT ![r] = row] /\ clock' = clock + 1
  BY DEF Records
<1>3. \A q \in Request : Recorded(q) => correction[q] \in Correction /\ correction[q].at \in Nat
  BY DEF TypeInv, TypeOK, Correction
<1>4. RowsOK'
  BY <1>1, <1>2, <1>3 DEF RowsOK, TypeInv, TypeOK
<1>. QED BY <1>1, <1>2, <1>4 DEF TypeInv, TypeOK

LEMMA MergeType ==
  ASSUME TypeInv, NEW s \in Session,
         MergeChecks(s) \/ MergeAliases(s) \/ MergeCommits(s)
  PROVE  TypeInv'
<1>1. CASE MergeChecks(s)
  <2>1. PICK r \in Request, p \in Thread, folds \in (SUBSET Thread) \ {{}} :
          /\ p \notin folds
          /\ job' = [job EXCEPT ![s] = MergeJob(r, p, folds)]
    BY <1>1 DEF MergeChecks
  <2>. DEFINE work == MergeJob(r, p, folds)
  <2>2. /\ work \in Job /\ work.step = "merging" /\ work.request = r
        /\ work.target = p /\ work.folds = folds
    BY DEF MergeJob, Job, NoJob, ThreadOrNone
  <2>. QED BY <1>1, <2>1, <2>2 DEF MergeChecks, TypeInv, TypeOK, JobFieldsOK, RowsOK, ingressVars
<1>2. CASE MergeAliases(s)
  <2>0. job[s].step = "merging" /\ JobFieldsOK
    BY <1>2 DEF MergeAliases, TypeInv
  <2>1. job[s] \in Job /\ job[s].target \in Thread
    BY <2>0 DEF TypeInv, TypeOK, JobFieldsOK
  <2>. QED
    BY <1>2, <2>1
    DEF MergeAliases, TypeInv, TypeOK, JobFieldsOK, RowsOK, Job, ThreadOrNone, ingressVars
<1>3. CASE MergeCommits(s)
  <2>1. job[s] \in Job /\ job[s].target \in Thread /\ job[s].request \in Request
    BY <1>3 DEF MergeCommits, TypeInv, TypeOK, JobFieldsOK
  <2>2. PICK source \in job[s].folds :
          Records(job[s].request,
                  [kind |-> "merge", folds |-> job[s].folds, source |-> source,
                   target |-> job[s].target, event |-> None, undone |-> FALSE,
                   at |-> clock + 1])
    BY <1>3 DEF MergeCommits
  <2>. DEFINE row == [kind |-> "merge", folds |-> job[s].folds, source |-> source,
                      target |-> job[s].target, event |-> None, undone |-> FALSE,
                      at |-> clock + 1]
  <2>3. row \in Correction
    BY <2>1 DEF Correction, Job, TypeInv, TypeOK
  <2>4. /\ correction' \in [Request -> Correction \cup {None}] /\ clock' \in Nat /\ RowsOK'
        /\ \A q \in Request : Recorded(q) => Recorded(q)'
    BY <1>3, <2>1, <2>2, <2>3, RecordsType DEF MergeCommits
  <2>5. job' = [job EXCEPT ![s] = NoJob] /\ job' \in [Session -> Job]
    BY <1>3, IdleType DEF MergeCommits, TypeInv, TypeOK
  <2>6. JobFieldsOK'
    BY <2>4, <2>5 DEF JobFieldsOK, NoJob, TypeInv, TypeOK
  <2>7. life' \in [Thread -> Life] /\ into' \in [Thread -> ThreadOrNone]
    BY <1>3, <2>1 DEF MergeCommits, TypeInv, TypeOK, Life, ThreadOrNone
  <2>. QED BY <1>3, <2>4, <2>5, <2>6, <2>7 DEF MergeCommits, TypeInv, TypeOK, ingressVars
<1>. QED BY <1>1, <1>2, <1>3

LEMMA MoveType ==
  ASSUME TypeInv, NEW s \in Session, MoveChecks(s) \/ MoveCommits(s)
  PROVE  TypeInv'
<1>1. CASE MoveChecks(s)
  <2>1. PICK r \in Request, m \in Message, c \in Thread :
          /\ filed[m] \notin {None, c}
          /\ job' = [job EXCEPT ![s] = MoveJob(r, m, filed[m], c)]
    BY <1>1 DEF MoveChecks
  <2>. DEFINE work == MoveJob(r, m, filed[m], c)
  <2>2. /\ work \in Job /\ work.step = "moving" /\ work.request = r /\ work.event = m
        /\ work.source \in Thread /\ work.target = c
    BY <2>1 DEF MoveJob, Job, NoJob, ThreadOrNone, TypeInv, TypeOK
  <2>. QED BY <1>1, <2>1, <2>2 DEF MoveChecks, TypeInv, TypeOK, JobFieldsOK, RowsOK, ingressVars
<1>2. CASE MoveCommits(s)
  <2>1. /\ job[s].request \in Request /\ job[s].event \in Message
        /\ job[s].source \in Thread /\ job[s].target \in Thread
    BY <1>2 DEF MoveCommits, TypeInv, JobFieldsOK
  <2>. DEFINE row == [kind |-> "move", folds |-> {}, source |-> job[s].source,
                      target |-> job[s].target, event |-> job[s].event, undone |-> FALSE,
                      at |-> clock + 1]
  <2>2. row \in Correction /\ Records(job[s].request, row)
    BY <1>2, <2>1 DEF MoveCommits, Correction, TypeInv, TypeOK
  <2>3. /\ correction' \in [Request -> Correction \cup {None}] /\ clock' \in Nat /\ RowsOK'
        /\ \A q \in Request : Recorded(q) => Recorded(q)'
    BY <1>2, <2>1, <2>2, RecordsType DEF MoveCommits
  <2>4. job' = [job EXCEPT ![s] = NoJob] /\ job' \in [Session -> Job]
    BY <1>2, IdleType DEF MoveCommits, TypeInv, TypeOK
  <2>5. JobFieldsOK'
    BY <2>3, <2>4 DEF JobFieldsOK, NoJob, TypeInv, TypeOK
  <2>6. filed' \in [Message -> ThreadOrNone]
    BY <1>2, <2>1 DEF MoveCommits, TypeInv, TypeOK, ThreadOrNone
  <2>. QED BY <1>2, <2>3, <2>4, <2>5, <2>6 DEF MoveCommits, TypeInv, TypeOK
<1>. QED BY <1>1, <1>2

\* An undo stamps one row and leaves the rest of it and all others alone.
LEMMA StampType ==
  ASSUME TypeInv, NEW s \in Session, UndoCommits(s)
  PROVE  /\ job[s].request \in Request /\ correction[job[s].request] \in Correction
         /\ correction' \in [Request -> Correction \cup {None}]
         /\ \A q \in Request :
              /\ Recorded(q)' <=> Recorded(q)
              /\ Recorded(q) => /\ correction'[q].kind = correction[q].kind
                                /\ correction'[q].folds = correction[q].folds
                                /\ correction'[q].source = correction[q].source
                                /\ correction'[q].target = correction[q].target
                                /\ correction'[q].event = correction[q].event
                                /\ correction'[q].at = correction[q].at
         /\ \A q \in Request \ {job[s].request} : correction'[q] = correction[q]
         /\ correction'[job[s].request].undone
<1>. DEFINE r == job[s].request
            row == [correction[r] EXCEPT !.undone = TRUE]
<1>1. r \in Request /\ Recorded(r) /\ correction[r] \in Correction
  BY DEF UndoCommits, TypeInv, TypeOK, JobFieldsOK
<1>2. row \in Correction /\ row # None
  BY <1>1, NoneAssumption DEF Correction
<1>3. correction' = [correction EXCEPT ![r] = row]
  BY DEF UndoCommits
<1>4. /\ row.kind = correction[r].kind /\ row.folds = correction[r].folds
      /\ row.source = correction[r].source /\ row.target = correction[r].target
      /\ row.event = correction[r].event /\ row.at = correction[r].at /\ row.undone
  BY <1>1 DEF Correction
<1>. HIDE DEF row
<1>. QED BY <1>1, <1>2, <1>3, <1>4 DEF TypeInv, TypeOK

LEMMA UndoType ==
  ASSUME TypeInv, NEW s \in Session, UndoChecks(s) \/ UndoCommits(s)
  PROVE  TypeInv'
<1>1. CASE UndoChecks(s)
  <2>1. PICK r \in Request :
          /\ Active(r)
          /\ job' = [job EXCEPT ![s] = UndoJob(r)]
    BY <1>1 DEF UndoChecks
  <2>. DEFINE work == UndoJob(r)
  <2>2. work \in Job /\ work.step = "undoing" /\ work.request = r
    BY DEF UndoJob, Job, NoJob, ThreadOrNone
  <2>. QED BY <1>1, <2>1, <2>2 DEF UndoChecks, TypeInv, TypeOK, JobFieldsOK, RowsOK, ingressVars
<1>2. CASE UndoCommits(s)
  <2>. DEFINE y == correction[job[s].request]
  <2>1. y \in Correction /\ y.source \in Thread /\ y.event \in Message \cup {None}
    BY <1>2, StampType DEF Correction
  <2>2. y.kind = "move" => y.event \in Message
    BY <1>2, StampType DEF TypeInv, RowsOK, JobFieldsOK, UndoCommits
  <2>3. /\ life' \in [Thread -> Life] /\ into' \in [Thread -> ThreadOrNone]
        /\ alias' \in [Thread -> ThreadOrNone] /\ filed' \in [Message -> ThreadOrNone]
    <3>1. CASE y.kind = "merge"
      BY <1>2, <2>1, <3>1 DEF UndoCommits, Unmerge, TypeInv, TypeOK, Life, ThreadOrNone
    <3>2. CASE y.kind # "merge"
      <4>1. Unmove(y)
        BY <1>2, <3>2 DEF UndoCommits
      <4>. QED BY <2>1, <2>2, <3>2, <4>1 DEF Unmove, TypeInv, TypeOK, ThreadOrNone, Correction
    <3>. QED BY <3>1, <3>2
  <2>4. job' = [job EXCEPT ![s] = NoJob] /\ job' \in [Session -> Job]
    BY <1>2, IdleType DEF UndoCommits, TypeInv, TypeOK
  <2>5. JobFieldsOK'
    BY <1>2, <2>4, StampType DEF JobFieldsOK, NoJob, TypeInv, TypeOK
  <2>6. clock' = clock
    BY <1>2 DEF UndoCommits
  <2>7. RowsOK'
    BY <1>2, <2>6, StampType DEF RowsOK, TypeInv
  <2>. QED BY <1>2, <2>3, <2>4, <2>5, <2>7, StampType DEF UndoCommits, TypeInv, TypeOK
<1>. QED BY <1>1, <1>2

LEMMA SessionEndsType ==
  ASSUME TypeInv, NEW s \in Session, SessionEnds(s)
  PROVE  TypeInv'
BY IdleType DEF SessionEnds, TypeInv, TypeOK, JobFieldsOK, RowsOK, NoJob, ingressVars

\* Rows of corrections and jobs are left alone by ingress and replies.
LEMMA OthersType ==
  ASSUME TypeInv, TypeOK', UNCHANGED <<correction, clock, job>>
  PROVE  TypeInv'
BY DEF TypeInv, JobFieldsOK, RowsOK

LEMMA InitType == Init => TypeInv
BY IdleType, NoneAssumption
   DEF Init, TypeInv, TypeOK, JobFieldsOK, RowsOK, NoJob, Life, ThreadOrNone, Idle

LEMMA NextType == TypeInv /\ [Next]_vars => TypeInv'
<1>. SUFFICES ASSUME TypeInv, [Next]_vars PROVE TypeInv'
  OBVIOUS
<1>1. ASSUME NEW m \in Message, Ingress(m) PROVE TypeInv'
  BY <1>1, IngestType, OthersType
     DEF Ingress, IngestResolves, IngestFinds, IngestCommits, IngestFails, TypeInv
<1>2. ASSUME NEW m \in Message, NEW c \in Thread, ReplyAliases(c, m) PROVE TypeInv'
  BY <1>2, ReplyType, OthersType DEF ReplyAliases, TypeInv
<1>3. ASSUME NEW s \in Session, Corrects(s) PROVE TypeInv'
  BY <1>3, MergeType, MoveType, UndoType, SessionEndsType DEF Corrects
<1>4. CASE UNCHANGED vars
  BY <1>4 DEF vars, TypeInv, TypeOK, JobFieldsOK, RowsOK
<1>. QED BY <1>1, <1>2, <1>3, <1>4 DEF Next

\* Whatever interleaves, the rows keep their shape and a transaction writes to
\* a thread it has resolved.
THEOREM TypeCorrect == Spec => []TypeOK
<1>1. TypeInv => TypeOK
  BY DEF TypeInv
<1>. QED BY <1>1, InitType, NextType, PTL DEF Spec

-------------------------------------------------------------------------------
(* Merges *)

\* Corrections are made one at a time.
OneSession == \A s, o \in Session : s = o

\* Between its checks and its commit the primary of a merge stays live, and
\* after phase 1 its secondaries stay aliased to it.
MergeUnderway ==
  \A s \in Session :
    /\ job[s].step \in {"merging", "aliased"} => life[job[s].target] = "live"
    /\ job[s].step = "merging" => \A t \in job[s].folds : life[t] = "live"
    /\ job[s].step = "aliased" => \A t \in job[s].folds : alias[t] = job[s].target

Folding(t) == { r \in Request : Recorded(r) /\ t \in correction[r].folds }

MergedIsRecorded == \A t \in Thread : life[t] = "merged" => Folding(t) # {}

\* Where a merged conversation leads to another, the other one was merged
\* later: it had to be live when the first was merged into it.
MergesAscend ==
  \A t \in Thread : life[t] = "merged" /\ life[into[t]] = "merged" =>
    \A r \in Folding(t) : \E q \in Folding(into[t]) :
      correction[r].at < correction[q].at

MergeInv ==
  TypeInv /\ MergeUnderway /\ MergedIsRouted /\ MergedIsRecorded /\ MergesAscend

\* Steps that archive nothing and take no alias of an archived conversation away.
LEMMA MergesKept ==
  ASSUME MergeInv, UNCHANGED <<into, correction>>,
         \A t \in Thread : life'[t] = "merged" => life[t] = "merged",
         \A t \in Thread : life'[t] = "merged" => alias'[t] = alias[t]
  PROVE  MergedIsRouted' /\ MergedIsRecorded' /\ MergesAscend'
<1>1. MergedIsRouted' /\ MergedIsRecorded'
  BY DEF MergeInv, MergedIsRouted, MergedIsRecorded, Folding
<1>2. \A t \in Thread : Folding(t)' = Folding(t)
  BY DEF Folding
<1>3. \A t \in Thread : life[t] = "merged" => into[t] \in Thread
  BY DEF MergeInv, MergedIsRouted, TypeInv, TypeOK, ThreadOrNone
<1>4. MergesAscend'
  BY <1>2, <1>3 DEF MergeInv, MergesAscend
<1>. QED BY <1>1, <1>4

LEMMA IngestMerges ==
  ASSUME MergeInv, NEW m \in Message, Ingress(m)
  PROVE  MergeInv'
<1>1. TypeInv' /\ UNCHANGED <<into, alias, correction, clock, job>>
  <2>1. UNCHANGED <<alias, correction, clock, job>>
    BY DEF Ingress, IngestResolves, IngestFinds, IngestCommits, IngestFails
  <2>2. into' = into
    BY DEF Ingress, IngestResolves, IngestFinds, IngestCommits, IngestFails, RowWritten
  <2>. QED BY <2>1, <2>2, IngestType, OthersType DEF MergeInv, TypeInv
<1>2. \A t \in Thread : life'[t] = life[t] \/ life'[t] = "live"
  <2>1. life' = life \/ life' = [life EXCEPT ![delivery[m].to] = "live"]
    BY DEF Ingress, IngestResolves, IngestFinds, IngestCommits, IngestFails, RowWritten
  <2>. QED BY <2>1 DEF MergeInv, TypeInv, TypeOK
<1>3. MergeUnderway'
  <2>1. \A s \in Session : job[s].folds \in SUBSET Thread
    BY DEF MergeInv, TypeInv, TypeOK, Job
  <2>2. \A s \in Session : job[s].step \in {"merging", "aliased"} => job[s].target \in Thread
    BY DEF MergeInv, TypeInv, JobFieldsOK
  <2>. QED BY <1>1, <1>2, <2>1, <2>2 DEF MergeUnderway, MergeInv
<1>. QED BY <1>1, <1>2, <1>3, MergesKept DEF MergeInv

LEMMA ReplyMerges ==
  ASSUME MergeInv, NEW m \in Message, NEW c \in Thread, ReplyAliases(c, m)
  PROVE  MergeInv'
<1>1. /\ TypeInv' /\ UNCHANGED <<life, into, correction, clock, job>>
      /\ alias[ThreadOf[m]] = None /\ alias' = [alias EXCEPT ![ThreadOf[m]] = c]
  BY ReplyType, OthersType DEF ReplyAliases, MergeInv, TypeInv
<1>2. \A t \in Thread : alias[t] # None => alias'[t] = alias[t]
  BY <1>1 DEF MergeInv, TypeInv, TypeOK
<1>3. MergeUnderway'
  <2>1. ASSUME NEW s \in Session, job[s].step = "aliased", NEW t \in job[s].folds
        PROVE  alias'[t] = job[s].target
    <3>1. t \in Thread /\ job[s].target \in Thread
      BY <2>1 DEF MergeInv, TypeInv, TypeOK, JobFieldsOK, Job
    <3>2. alias[t] = job[s].target /\ alias[t] # None
      BY <2>1, <3>1, NoneAssumption DEF MergeInv, MergeUnderway
    <3>. QED BY <1>2, <3>1, <3>2
  <2>. QED BY <1>1, <2>1 DEF MergeUnderway, MergeInv
<1>4. \A t \in Thread : life[t] = "merged" => alias'[t] = alias[t]
  BY <1>2 DEF MergeInv, MergedIsRouted
<1>. QED BY <1>1, <1>3, <1>4, MergesKept DEF MergeInv

\* With one session nothing else is under way when a job changes.
LEMMA MergeStepMerges ==
  ASSUME MergeInv, OneSession, NEW s \in Session,
         MergeChecks(s) \/ MergeAliases(s)
  PROVE  MergeInv'
<1>0. TypeInv'
  BY MergeType DEF MergeInv
<1>1. CASE MergeChecks(s)
  <2>1. PICK r \in Request, p \in Thread, folds \in (SUBSET Thread) \ {{}} :
          /\ \A t \in folds \cup {p} : life[t] = "live"
          /\ job' = [job EXCEPT ![s] = MergeJob(r, p, folds)]
    BY <1>1 DEF MergeChecks
  <2>2. job'[s].step = "merging" /\ job'[s].target = p /\ job'[s].folds = folds
    BY <2>1 DEF MergeJob, NoJob, MergeInv, TypeInv, TypeOK
  <2>3. UNCHANGED <<life, into, alias, correction>>
    BY <1>1 DEF MergeChecks
  <2>4. MergeUnderway'
    BY <2>1, <2>2, <2>3 DEF MergeUnderway, OneSession
  <2>. QED BY <1>0, <2>3, <2>4, MergesKept DEF MergeInv
<1>2. CASE MergeAliases(s)
  <2>1. /\ UNCHANGED <<life, into, correction>> /\ job[s].step = "merging"
        /\ job' = [job EXCEPT ![s].step = "aliased"]
        /\ alias' = [t \in Thread |-> IF t \in job[s].folds THEN job[s].target ELSE alias[t]]
    BY <1>2 DEF MergeAliases
  <2>2. /\ job[s] \in Job /\ job'[s].step = "aliased"
        /\ job'[s].target = job[s].target /\ job'[s].folds = job[s].folds
    BY <2>1 DEF MergeInv, TypeInv, TypeOK, Job
  <2>3. MergeUnderway'
    <3>1. life[job[s].target] = "live"
      BY <2>1 DEF MergeInv, MergeUnderway
    <3>2. \A t \in job[s].folds : alias'[t] = job[s].target
      BY <2>1, <2>2 DEF Job
    <3>. QED BY <2>1, <2>2, <3>1, <3>2 DEF MergeUnderway, OneSession
  <2>4. \A t \in job[s].folds : life[t] = "live"
    BY <2>1 DEF MergeInv, MergeUnderway
  <2>. QED BY <1>0, <2>1, <2>2, <2>3, <2>4, MergesKept DEF MergeInv
<1>. QED BY <1>1, <1>2

\* A job that is not a merge leaves nothing under way.
LEMMA NothingUnderway ==
  ASSUME OneSession, NEW s \in Session, job'[s].step \notin {"merging", "aliased"}
  PROVE  MergeUnderway'
BY DEF OneSession, MergeUnderway

LEMMA MergeCommitMerges ==
  ASSUME MergeInv, OneSession, NEW s \in Session, MergeCommits(s)
  PROVE  MergeInv'
<1>0. /\ job[s].request \in Request /\ job[s].target \in Thread /\ job[s].folds \in SUBSET Thread
      /\ job[s].target \notin job[s].folds
  BY DEF MergeCommits, MergeInv, TypeInv, TypeOK, JobFieldsOK, Job
<1>1. PICK r0 \in Request, p \in Thread, folds \in SUBSET Thread :
        /\ r0 = job[s].request /\ p = job[s].target /\ folds = job[s].folds
        /\ p \notin folds /\ ~Recorded(r0) /\ job[s].step = "aliased"
  BY <1>0 DEF MergeCommits
<1>2. life[p] = "live" /\ \A t \in folds : alias[t] = p
  BY <1>1 DEF MergeInv, MergeUnderway
<1>3. /\ \A t \in Thread : life'[t] = IF t \in folds THEN "merged" ELSE life[t]
      /\ \A t \in Thread : into'[t] = IF t \in folds THEN p ELSE into[t]
      /\ alias' = alias
  BY <1>1 DEF MergeCommits
<1>4. PICK source \in folds :
        Records(r0, [kind |-> "merge", folds |-> folds, source |-> source, target |-> p,
                     event |-> None, undone |-> FALSE, at |-> clock + 1])
  BY <1>1 DEF MergeCommits
<1>5. /\ Recorded(r0)' /\ correction'[r0].folds = folds /\ correction'[r0].at = clock + 1
      /\ \A q \in Request \ {r0} : correction'[q] = correction[q]
  <2>. DEFINE row == [kind |-> "merge", folds |-> folds, source |-> source, target |-> p,
                      event |-> None, undone |-> FALSE, at |-> clock + 1]
  <2>1. row \in Correction /\ Records(r0, row)
    BY <1>1, <1>4 DEF Correction, MergeInv, TypeInv, TypeOK
  <2>2. /\ row.at = clock + 1 /\ row.kind = "merge" /\ row.event = None
        /\ row.source \in row.folds /\ row.folds = folds
    OBVIOUS
  <2>. HIDE DEF row
  <2>. QED BY <1>1, <2>1, <2>2, RecordsType DEF MergeInv
<1>6. /\ \A t \in folds : r0 \in Folding(t)'
      /\ \A t \in Thread : Folding(t) \subseteq Folding(t)'
      /\ \A t \in Thread \ folds : Folding(t)' = Folding(t)
  <2>1. \A t \in folds : r0 \in Folding(t)'
    BY <1>1, <1>5 DEF Folding
  <2>2. \A t \in Thread, q \in Request \ {r0} : q \in Folding(t)' <=> q \in Folding(t)
    BY <1>5 DEF Folding
  <2>3. \A t \in Thread : r0 \notin Folding(t) /\ (r0 \in Folding(t)' => t \in folds)
    BY <1>1, <1>5 DEF Folding
  <2>4. \A t \in Thread : Folding(t) \subseteq Request /\ Folding(t)' \subseteq Request
    BY DEF Folding
  <2>. QED BY <2>1, <2>2, <2>3, <2>4
<1>7. MergedIsRouted'
  <2>1. p # None
    BY <1>1, NoneAssumption
  <2>. QED BY <1>2, <1>3, <2>1 DEF MergedIsRouted, MergeInv
<1>8. MergedIsRecorded'
  BY <1>3, <1>6 DEF MergedIsRecorded, MergeInv
<1>9. MergesAscend'
  <2>1. SUFFICES ASSUME NEW t \in Thread, life'[t] = "merged", life'[into'[t]] = "merged",
                        NEW r \in Folding(t)'
                 PROVE  \E q \in Folding(into[t])' : correction'[r].at < correction'[q].at
    BY DEF MergesAscend
  <2>2. t \notin folds
    BY <1>1, <1>2, <1>3, <2>1
  <2>3. life[t] = "merged" /\ into'[t] = into[t] /\ into[t] \in Thread
    BY <1>3, <2>1, <2>2 DEF MergeInv, MergedIsRouted, TypeInv, TypeOK, ThreadOrNone
  <2>4. r \in Folding(t) /\ r # r0 /\ correction'[r] = correction[r]
    BY <1>1, <1>5, <1>6, <2>1, <2>2 DEF Folding
  <2>5. CASE into[t] \in folds
    <3>1. correction[r].at \in Nat /\ correction[r].at <= clock /\ clock \in Nat
      BY <2>4 DEF Folding, MergeInv, TypeInv, TypeOK, RowsOK, Correction
    <3>2. r0 \in Folding(into[t])'
      <4>1. r0 \in Request /\ Recorded(r0)' /\ into'[t] \in correction'[r0].folds
        BY <1>1, <1>5, <2>3, <2>5
      <4>. QED BY <4>1 DEF Folding
    <3>3. correction'[r].at < correction'[r0].at
      BY <1>5, <2>4, <3>1
    <3>. QED BY <3>2, <3>3
  <2>6. CASE into[t] \notin folds
    <3>1. life[into[t]] = "merged"
      BY <1>3, <2>1, <2>3, <2>6
    <3>2. PICK q \in Folding(into[t]) : correction[r].at < correction[q].at
      BY <2>1, <2>3, <2>4, <3>1 DEF MergeInv, MergesAscend
    <3>3. q \in Request /\ q # r0 /\ correction'[q] = correction[q]
      BY <1>1, <1>5, <3>2 DEF Folding
    <3>4. q \in Folding(into[t])'
      BY <2>3, <3>2, <3>3 DEF Folding
    <3>. QED BY <2>4, <3>2, <3>3, <3>4
  <2>. QED BY <2>5, <2>6
<1>10. TypeInv' /\ job'[s] = NoJob
  BY MergeType DEF MergeCommits, MergeInv, TypeInv, TypeOK
<1>. QED BY <1>7, <1>8, <1>9, <1>10, NothingUnderway DEF MergeInv, NoJob

LEMMA MoveMerges ==
  ASSUME MergeInv, OneSession, NEW s \in Session, MoveChecks(s) \/ MoveCommits(s)
  PROVE  MergeInv'
<1>1. TypeInv' /\ UNCHANGED <<life, into, alias>>
  BY MoveType DEF MergeInv, MoveChecks, MoveCommits
<1>2. MergeUnderway'
  <2>1. CASE MoveChecks(s)
    <3>1. PICK r \in Request, m \in Message, c \in Thread :
            job' = [job EXCEPT ![s] = MoveJob(r, m, filed[m], c)]
      BY <2>1 DEF MoveChecks
    <3>2. job'[s].step = "moving"
      BY <3>1 DEF MoveJob, NoJob, MergeInv, TypeInv, TypeOK
    <3>. QED BY <3>2, NothingUnderway
  <2>2. CASE MoveCommits(s)
    <3>1. job'[s].step = "idle"
      BY <2>2 DEF MoveCommits, NoJob, MergeInv, TypeInv, TypeOK
    <3>. QED BY <3>1, NothingUnderway
  <2>. QED BY <2>1, <2>2
<1>3. CASE MoveChecks(s)
  BY <1>1, <1>2, <1>3, MergesKept DEF MoveChecks, MergeInv
<1>4. CASE MoveCommits(s)
  <2>1. \A q \in Request : Recorded(q) => correction'[q] = correction[q]
    BY <1>4 DEF MoveCommits, Records, MergeInv, TypeInv, TypeOK
  <2>2. \A q \in Request : Recorded(q)' /\ ~Recorded(q) => correction'[q].folds = {}
    BY <1>4 DEF MoveCommits, Records, MergeInv, TypeInv, TypeOK
  <2>3. \A t \in Thread : Folding(t)' = Folding(t)
    BY <2>1, <2>2 DEF Folding
  <2>4. \A t \in Thread : \A q \in Folding(t) : correction'[q] = correction[q]
    BY <2>1 DEF Folding
  <2>5. MergedIsRouted' /\ MergedIsRecorded'
    BY <1>1, <2>3 DEF MergeInv, MergedIsRouted, MergedIsRecorded
  <2>6. MergesAscend'
    <3>1. \A t \in Thread : life[t] = "merged" => into[t] \in Thread
      BY DEF MergeInv, MergedIsRouted, TypeInv, TypeOK, ThreadOrNone
    <3>. QED BY <1>1, <2>3, <2>4, <3>1 DEF MergeInv, MergesAscend
  <2>. QED BY <1>1, <1>2, <2>5, <2>6 DEF MergeInv
<1>. QED BY <1>3, <1>4

LEMMA UndoMerges ==
  ASSUME MergeInv, OneSession, NEW s \in Session, UndoChecks(s) \/ UndoCommits(s)
  PROVE  MergeInv'
<1>1. TypeInv'
  BY UndoType DEF MergeInv
<1>2. CASE UndoChecks(s)
  <2>1. UNCHANGED <<life, into, alias, correction>>
    BY <1>2 DEF UndoChecks
  <2>2. job'[s].step = "undoing"
    BY <1>2 DEF UndoChecks, UndoJob, NoJob, MergeInv, TypeInv, TypeOK
  <2>. QED BY <1>1, <2>1, <2>2, NothingUnderway, MergesKept DEF MergeInv
<1>3. CASE UndoCommits(s)
  <2>. DEFINE y == correction[job[s].request]
  <2>1. job'[s].step = "idle"
    BY <1>3 DEF UndoCommits, NoJob, MergeInv, TypeInv, TypeOK
  <2>2. /\ \A t \in Thread : life'[t] = "merged" => life[t] = "merged" /\ into'[t] = into[t]
                                                 /\ alias'[t] = alias[t]
    <3>1. CASE y.kind = "merge"
      BY <1>3, <3>1 DEF UndoCommits, Unmerge, MergeInv, TypeInv, TypeOK
    <3>2. CASE y.kind # "merge"
      BY <1>3, <3>2 DEF UndoCommits, Unmove
    <3>. QED BY <3>1, <3>2
  <2>3. \A q \in Request : /\ Recorded(q)' <=> Recorded(q)
                           /\ Recorded(q) => /\ correction'[q].folds = correction[q].folds
                                             /\ correction'[q].at = correction[q].at
    BY <1>3, StampType DEF MergeInv
  <2>4. /\ \A t \in Thread : Folding(t)' = Folding(t)
        /\ \A t \in Thread : \A q \in Folding(t) : correction'[q].at = correction[q].at
    BY <2>3 DEF Folding
  <2>5. MergedIsRouted' /\ MergedIsRecorded'
    BY <2>2, <2>4 DEF MergeInv, MergedIsRouted, MergedIsRecorded
  <2>6. MergesAscend'
    <3>1. \A t \in Thread : life[t] = "merged" => into[t] \in Thread
      BY DEF MergeInv, MergedIsRouted, TypeInv, TypeOK, ThreadOrNone
    <3>. QED BY <2>2, <2>4, <3>1 DEF MergeInv, MergesAscend
  <2>. QED BY <1>1, <2>1, <2>5, <2>6, NothingUnderway DEF MergeInv
<1>. QED BY <1>2, <1>3

LEMMA EndMerges ==
  ASSUME MergeInv, OneSession, NEW s \in Session, SessionEnds(s)
  PROVE  MergeInv'
<1>1. TypeInv' /\ UNCHANGED <<life, into, alias, correction>>
  BY SessionEndsType DEF SessionEnds, MergeInv
<1>2. job'[s].step = "idle"
  BY DEF SessionEnds, NoJob, MergeInv, TypeInv, TypeOK
<1>. QED BY <1>1, <1>2, NothingUnderway, MergesKept DEF MergeInv

LEMMA NextMerges == OneSession /\ MergeInv /\ [Next]_vars => MergeInv'
<1>. SUFFICES ASSUME OneSession, MergeInv, [Next]_vars PROVE MergeInv'
  OBVIOUS
<1>1. ASSUME NEW m \in Message, Ingress(m) PROVE MergeInv'
  BY <1>1, IngestMerges
<1>2. ASSUME NEW m \in Message, NEW c \in Thread, ReplyAliases(c, m) PROVE MergeInv'
  BY <1>2, ReplyMerges
<1>3. ASSUME NEW s \in Session, Corrects(s) PROVE MergeInv'
  BY <1>3, MergeStepMerges, MergeCommitMerges, MoveMerges, UndoMerges, EndMerges DEF Corrects
<1>4. CASE UNCHANGED vars
  <2>1. TypeInv'
    BY NextType DEF MergeInv
  <2>2. MergeUnderway'
    BY <1>4 DEF vars, MergeInv, MergeUnderway
  <2>. QED BY <1>4, <2>1, <2>2, MergesKept DEF vars, MergeInv
<1>. QED BY <1>1, <1>2, <1>3, <1>4 DEF Next

LEMMA InitMerges == Init => MergeInv
BY InitType
   DEF Init, MergeInv, MergeUnderway, MergedIsRouted, MergedIsRecorded, MergesAscend, NoJob

LEMMA MergeInvariant == ASSUME OneSession PROVE Spec => []MergeInv
<1>1. MergeInv /\ [Next]_vars => MergeInv'
  BY NextMerges
<1>. QED BY <1>1, InitMerges, PTL DEF Spec

\* As long as corrections do not overlap, the thread of a merged conversation
\* leads where the conversation went, whatever deliveries, replies, crashes and
\* undos come in between.
THEOREM MergedStaysRouted == ASSUME OneSession PROVE Spec => []MergedIsRouted
<1>1. MergeInv => MergedIsRouted
  BY DEF MergeInv
<1>. QED BY <1>1, MergeInvariant, PTL

\* The least-number principle for a set.
LEMMA LeastOf ==
  ASSUME NEW T \in SUBSET Nat, T # {}
  PROVE  \E x \in T : \A y \in T : x <= y
<1>. DEFINE R == OpToRel(<, Nat)
<1>1. IsWellFoundedOn(R, Nat)
  BY NatLessThanWellFounded
<1>2. \E x \in T : \A y \in T : ~(<<y, x>> \in R)
  <2>. HIDE DEF R
  <2>. QED BY <1>1, WFMin
<1>3. \A x, y \in Nat : <<y, x>> \in R <=> y < x
  BY DEF OpToRel
<1>. HIDE DEF R
<1>4. T \subseteq Nat
  OBVIOUS
<1>5. PICK x \in T : \A y \in T : ~(<<y, x>> \in R)
  BY <1>2
<1>6. \A y \in T : ~(y < x)
  BY <1>3, <1>4, <1>5
<1>7. \A y \in T : x <= y
  BY <1>4, <1>6
<1>. QED BY <1>7

\* In a ring of merged conversations the one merged last would lead to one
\* merged later still.
LEMMA NoRing == MergeInv => MergesEndLive
<1>. SUFFICES ASSUME MergeInv, NEW ring \in (SUBSET Thread) \ {{}},
                     \A t \in ring : life[t] = "merged" /\ into[t] \in ring
              PROVE  FALSE
  BY DEF MergesEndLive
<1>. DEFINE Ages == { n \in Nat : \E t \in ring : \E q \in Folding(t) : n = clock - correction[q].at }
<1>1. ASSUME NEW t \in ring, NEW q \in Folding(t)
      PROVE  clock - correction[q].at \in Ages /\ correction[q].at \in Nat /\ clock \in Nat
  <2>1. /\ correction[q].at \in Nat /\ correction[q].at <= clock /\ clock \in Nat
    BY DEF Folding, MergeInv, TypeInv, TypeOK, RowsOK, Correction
  <2>2. clock - correction[q].at \in Nat
    BY <2>1
  <2>. QED BY <2>1, <2>2
<1>2. Ages # {}
  <2>1. PICK t \in ring : t \in Thread
    OBVIOUS
  <2>2. PICK q \in Folding(t) : TRUE
    BY <2>1 DEF MergeInv, MergedIsRecorded
  <2>. QED BY <1>1, <2>1, <2>2
<1>3. PICK n \in Ages : \A k \in Ages : n <= k
  <2>. Ages \in SUBSET Nat
    OBVIOUS
  <2>. HIDE DEF Ages
  <2>. QED BY <1>2, LeastOf
<1>4. PICK t \in ring : \E q \in Folding(t) : n = clock - correction[q].at
  BY <1>3
<1>5. PICK q \in Folding(t) : n = clock - correction[q].at
  BY <1>4
<1>6. PICK later \in Folding(into[t]) : correction[q].at < correction[later].at
  BY <1>5 DEF MergeInv, MergesAscend
<1>7. clock - correction[later].at \in Ages /\ correction[later].at \in Nat
  BY <1>1, <1>5, <1>6
<1>8. correction[q].at \in Nat /\ clock \in Nat
  BY <1>1, <1>5
<1>. QED BY <1>3, <1>5, <1>6, <1>7, <1>8

\* As long as corrections do not overlap, every merged conversation leads to a
\* live one, however many merges there have been and whichever were undone.
THEOREM MergesAlwaysEndLive == ASSUME OneSession PROVE Spec => []MergesEndLive
BY NoRing, MergeInvariant, PTL

-------------------------------------------------------------------------------
(* Moves *)

\* A message that was moved has a conversation, and its standing moves form a
\* chain that starts where its first move ever started.
MoveChain(m) ==
  /\ Moves(m) # {} => filed[m] # None
  /\ \A r \in Request : IsLast(r, Standing(m)) => filed[m] = correction[r].target
  /\ \A r \in Request :
       Standing(m) = {} /\ IsFirst(r, Moves(m)) => filed[m] = correction[r].source
  /\ \A r, q \in Standing(m) :
       /\ correction[q].at < correction[r].at
       /\ \A p \in Standing(m) : p = r \/ correction[p].at <= correction[q].at
                                       \/ correction[r].at < correction[p].at
       => correction[r].source = correction[q].target
  /\ \A r, f \in Request :
       IsFirst(r, Standing(m)) /\ IsFirst(f, Moves(m)) =>
         correction[r].source = correction[f].source

\* What a move or an undo has checked still holds when it commits.
MoveUnderway ==
  \A s \in Session :
    /\ job[s].step = "moving" => filed[job[s].event] = job[s].source
    /\ job[s].step = "undoing" =>
         Active(job[s].request) /\ Dependents(job[s].request) = {}

\* A message is delivered once.
Undelivered == \A m \in Message : delivery[m].step # "idle" => filed[m] = None

MoveInv == TypeInv /\ Undelivered /\ MoveUnderway /\ \A m \in Message : MoveChain(m)

LEMMA MoveInvFiled == MoveInv => FiledWhereMoved
BY DEF MoveInv, MoveChain, FiledWhereMoved

\* A message whose moves are not touched.
LEMMA ChainKept ==
  ASSUME NEW m \in Message, MoveChain(m), Moves(m)' = Moves(m), Standing(m)' = Standing(m),
         filed'[m] = filed[m] \/ Moves(m) = {},
         \A q \in Moves(m) : /\ correction'[q].at = correction[q].at
                            /\ correction'[q].source = correction[q].source
                            /\ correction'[q].target = correction[q].target
  PROVE  MoveChain(m)'
BY DEF MoveChain, Standing, IsLast, IsFirst

\* The same when no row of a correction changes.
LEMMA ChainsKept ==
  ASSUME MoveInv, correction' = correction,
         \A m \in Message : filed'[m] = filed[m] \/ filed[m] = None
  PROVE  \A m \in Message : MoveChain(m)'
<1>. SUFFICES ASSUME NEW m \in Message PROVE MoveChain(m)'
  OBVIOUS
<1>1. Moves(m)' = Moves(m) /\ Standing(m)' = Standing(m)
  BY DEF Moves, Standing
<1>2. filed'[m] = filed[m] \/ Moves(m) = {}
  BY DEF MoveInv, MoveChain
<1>. QED BY <1>1, <1>2, ChainKept DEF MoveInv

LEMMA IngestMoves ==
  ASSUME MoveInv, NEW m \in Message, Ingress(m)
  PROVE  MoveInv'
<1>1. TypeInv' /\ UNCHANGED <<correction, clock, job>>
  <2>1. UNCHANGED <<correction, clock, job>>
    BY DEF Ingress, IngestResolves, IngestFinds, IngestCommits, IngestFails
  <2>. QED BY <2>1, IngestType, OthersType DEF MoveInv, TypeInv
<1>2. filed' = filed \/ (filed[m] = None /\ filed' = [filed EXCEPT ![m] = delivery[m].to])
  BY DEF Ingress, IngestResolves, IngestFinds, IngestCommits, IngestFails, MoveInv, Undelivered
<1>3. \A n \in Message : filed'[n] = filed[n] \/ filed[n] = None
  BY <1>2 DEF MoveInv, TypeInv, TypeOK
<1>4. MoveUnderway'
  <2>1. \A s \in Session : job[s].step = "moving" =>
          job[s].event \in Message /\ filed[job[s].event] # None
    BY NoneAssumption DEF MoveInv, MoveUnderway, TypeInv, JobFieldsOK
  <2>2. \A r \in Request : Dependents(r)' = Dependents(r)
    BY <1>1 DEF Dependents
  <2>. QED BY <1>1, <1>3, <2>1, <2>2 DEF MoveUnderway, MoveInv, TypeInv, JobFieldsOK
<1>5. Undelivered'
  BY IdleType
     DEF Ingress, IngestResolves, IngestFinds, IngestCommits, IngestFails,
         MoveInv, Undelivered, TypeInv, TypeOK, Idle
<1>. QED BY <1>1, <1>3, <1>4, <1>5, ChainsKept DEF MoveInv

\* Steps that file nothing and record nothing, and leave at most one new job.
LEMMA JobMoves ==
  ASSUME MoveInv, TypeInv', OneSession, UNCHANGED <<filed, delivery, correction>>,
         NEW s \in Session,
         job'[s].step = "moving" => filed[job'[s].event] = job'[s].source,
         job'[s].step = "undoing" =>
           /\ job'[s].request \in Request
           /\ Active(job'[s].request) /\ Dependents(job'[s].request) = {}
  PROVE  MoveInv'
<1>1. \A r \in Request : Dependents(r)' = Dependents(r)
  BY DEF Dependents
<1>2. MoveUnderway'
  BY <1>1 DEF MoveUnderway, OneSession
<1>3. Undelivered'
  BY DEF MoveInv, Undelivered
<1>. QED BY <1>2, <1>3, ChainsKept DEF MoveInv

LEMMA ReplyMoves ==
  ASSUME MoveInv, NEW m \in Message, NEW c \in Thread, ReplyAliases(c, m)
  PROVE  MoveInv'
<1>1. TypeInv' /\ UNCHANGED <<filed, delivery, correction, clock, job>>
  BY ReplyType, OthersType DEF ReplyAliases, MoveInv, TypeInv, ingressVars
<1>2. \A r \in Request : Dependents(r)' = Dependents(r)
  BY <1>1 DEF Dependents
<1>3. MoveUnderway' /\ Undelivered'
  BY <1>1, <1>2 DEF MoveUnderway, MoveInv, TypeInv, JobFieldsOK, Undelivered
<1>. QED BY <1>1, <1>3, ChainsKept DEF MoveInv

LEMMA CheckMoves ==
  ASSUME MoveInv, OneSession, NEW s \in Session,
         \/ MergeChecks(s) \/ MergeAliases(s) \/ MoveChecks(s) \/ UndoChecks(s) \/ SessionEnds(s)
  PROVE  MoveInv'
<1>1. /\ TypeInv' /\ UNCHANGED <<filed, delivery, correction>>
      /\ job' \in [Session -> Job] /\ job \in [Session -> Job]
  BY MergeType, MoveType, UndoType, SessionEndsType
     DEF MoveInv, MergeChecks, MergeAliases, MoveChecks, UndoChecks, SessionEnds, ingressVars,
         TypeInv, TypeOK
<1>2. CASE MergeChecks(s) \/ MergeAliases(s) \/ SessionEnds(s)
  <2>1. job'[s].step \notin {"moving", "undoing"}
    <3>1. CASE MergeChecks(s)
      <4>1. PICK r \in Request, p \in Thread, folds \in (SUBSET Thread) \ {{}} :
              job' = [job EXCEPT ![s] = MergeJob(r, p, folds)]
        BY <3>1 DEF MergeChecks
      <4>. QED BY <1>1, <4>1 DEF MergeJob, NoJob
    <3>2. CASE MergeAliases(s)
      BY <1>1, <3>2 DEF MergeAliases, Job
    <3>3. CASE SessionEnds(s)
      BY <1>1, <3>3 DEF SessionEnds, NoJob
    <3>. QED BY <1>2, <3>1, <3>2, <3>3
  <2>. QED BY <1>1, <2>1, JobMoves
<1>3. CASE MoveChecks(s)
  <2>1. PICK r \in Request, m \in Message, c \in Thread :
          job' = [job EXCEPT ![s] = MoveJob(r, m, filed[m], c)]
    BY <1>3 DEF MoveChecks
  <2>2. /\ job'[s].step = "moving" /\ job'[s].event = m /\ job'[s].source = filed[m]
    BY <1>1, <2>1 DEF MoveJob, NoJob
  <2>. QED BY <1>1, <2>2, JobMoves
<1>4. CASE UndoChecks(s)
  <2>1. PICK r \in Request :
          Active(r) /\ Dependents(r) = {} /\ job' = [job EXCEPT ![s] = UndoJob(r)]
    BY <1>4 DEF UndoChecks
  <2>2. job'[s].step = "undoing" /\ job'[s].request = r
    BY <1>1, <2>1 DEF UndoJob, NoJob
  <2>. QED BY <1>1, <2>1, <2>2, JobMoves
<1>. QED BY <1>2, <1>3, <1>4

LEMMA MergeCommitMoves ==
  ASSUME MoveInv, OneSession, NEW s \in Session, MergeCommits(s)
  PROVE  MoveInv'
<1>1. TypeInv' /\ UNCHANGED <<filed, delivery>> /\ job'[s] = NoJob
  BY MergeType DEF MoveInv, MergeCommits, ingressVars, TypeInv, TypeOK
<1>2. MoveUnderway' /\ Undelivered'
  BY <1>1 DEF MoveUnderway, OneSession, NoJob, Undelivered, MoveInv
<1>3. \A q \in Request : Recorded(q) => correction'[q] = correction[q]
  BY DEF MergeCommits, Records, MoveInv, TypeInv, TypeOK
<1>4. \A q \in Request : Recorded(q)' /\ ~Recorded(q) => correction'[q].event = None
  BY DEF MergeCommits, Records, MoveInv, TypeInv, TypeOK
<1>5. \A m \in Message : Moves(m)' = Moves(m) /\ Standing(m)' = Standing(m)
  BY <1>3, <1>4, NoneAssumption DEF Moves, Standing
<1>6. \A m \in Message : \A q \in Moves(m) : correction'[q] = correction[q]
  BY <1>3 DEF Moves
<1>. QED BY <1>1, <1>2, <1>5, <1>6, ChainKept DEF MoveInv

\* A move adds the last row of its message's chain.
LEMMA MoveCommitMoves ==
  ASSUME MoveInv, OneSession, NEW s \in Session, MoveCommits(s)
  PROVE  MoveInv'
<1>1. PICK r \in Request, m \in Message, from \in Thread, to \in Thread :
        /\ r = job[s].request /\ m = job[s].event
        /\ from = job[s].source /\ to = job[s].target
  BY DEF MoveCommits, MoveInv, TypeInv, JobFieldsOK
<1>2. /\ TypeInv' /\ UNCHANGED delivery /\ job'[s] = NoJob
      /\ filed[m] = from /\ from # None /\ ~Recorded(r)
  BY <1>1, MoveType, NoneAssumption
     DEF MoveCommits, MoveInv, MoveUnderway, TypeInv, TypeOK
<1>3. /\ filed'[m] = to
      /\ \A n \in Message : n # m => filed'[n] = filed[n]
  BY <1>1 DEF MoveCommits, MoveInv, TypeInv, TypeOK
<1>4. /\ \A q \in Request : q # r => correction'[q] = correction[q]
      /\ correction'[r] = [kind |-> "move", folds |-> {}, source |-> from, target |-> to,
                           event |-> m, undone |-> FALSE, at |-> clock + 1]
  BY <1>1 DEF MoveCommits, Records, MoveInv, TypeInv, TypeOK
<1>5. correction'[r] # None
  <2>1. correction'[r] \in Correction
    BY <1>4 DEF Correction, MoveInv, TypeInv, TypeOK
  <2>. QED BY <2>1, NoneAssumption
<1>6. MoveUnderway' /\ Undelivered'
  <2>1. Undelivered'
    BY <1>1, <1>2, <1>3 DEF Undelivered, MoveInv
  <2>. QED BY <1>2, <2>1 DEF MoveUnderway, OneSession, NoJob
<1>7. ASSUME NEW n \in Message, n # m PROVE MoveChain(n)'
  <2>1. Moves(n)' = Moves(n) /\ Standing(n)' = Standing(n)
    BY <1>2, <1>4, <1>7 DEF Moves, Standing, Active, Recorded
  <2>2. \A q \in Moves(n) : correction'[q] = correction[q]
    BY <1>2, <1>4 DEF Moves
  <2>. QED BY <1>3, <1>7, <2>1, <2>2, ChainKept DEF MoveInv
<1>8. MoveChain(m)'
  <2>1. Moves(m)' = Moves(m) \cup {r} /\ Standing(m)' = Standing(m) \cup {r}
    BY <1>2, <1>4, <1>5 DEF Moves, Standing, Active, Recorded
  <2>2. r \notin Moves(m) /\ Standing(m) \subseteq Moves(m) /\ Moves(m) \subseteq Request
    BY <1>2 DEF Moves, Standing
  <2>3. \A q \in Moves(m) : /\ correction'[q] = correction[q]
                             /\ correction[q].at \in Nat
                             /\ correction[q].at < clock + 1 /\ clock \in Nat
    BY <1>4, <2>2 DEF Moves, MoveInv, TypeInv, TypeOK, RowsOK, Correction
  <2>4. filed'[m] # None
    BY <1>3, NoneAssumption
  <2>5. \A q \in Request : IsLast(q, Standing(m))' => filed'[m] = correction'[q].target
    BY <1>3, <1>4, <2>1, <2>2, <2>3 DEF IsLast
  <2>6. Standing(m)' # {}
    BY <2>1
  <2>7. ASSUME NEW p \in Standing(m)', NEW q \in Standing(m)',
               correction'[q].at < correction'[p].at,
               \A o \in Standing(m)' : o = p \/ correction'[o].at <= correction'[q].at
                                          \/ correction'[p].at < correction'[o].at
        PROVE  correction'[p].source = correction'[q].target
    <3>1. q \in Standing(m)
      <4>1. p = r \/ correction'[p].at < clock + 1
        BY <2>1, <2>2, <2>3
      <4>2. correction'[r].at = clock + 1 /\ clock \in Nat
        BY <1>4 DEF MoveInv, TypeInv, TypeOK
      <4>3. p \in Moves(m) => correction'[p].at \in Nat
        BY <2>3
      <4>4. q # r
        BY <2>1, <2>2, <2>7, <4>1, <4>2, <4>3
      <4>. QED BY <2>1, <4>4
    <3>2. CASE p = r
      <4>1. IsLast(q, Standing(m))
        BY <1>4, <2>1, <2>2, <2>3, <2>7, <3>1, <3>2 DEF IsLast
      <4>. QED BY <1>2, <1>4, <2>2, <2>3, <3>1, <3>2, <4>1 DEF MoveInv, MoveChain
    <3>3. CASE p # r
      <4>1. p \in Standing(m)
        BY <2>1, <3>3
      <4>2. /\ correction'[p] = correction[p]
            /\ \A o \in Standing(m) : o \in Standing(m)' /\ correction'[o] = correction[o]
        BY <2>1, <2>2, <2>3, <4>1
      <4>. QED BY <2>7, <3>1, <4>1, <4>2 DEF MoveInv, MoveChain
    <3>. QED BY <3>2, <3>3
  <2>8. ASSUME NEW p \in Request, NEW f \in Request,
               IsFirst(p, Standing(m))', IsFirst(f, Moves(m))'
        PROVE  correction'[p].source = correction'[f].source
    <3>1. CASE Moves(m) = {}
      <4>1. p = r /\ f = r
        BY <2>1, <2>2, <2>8, <3>1 DEF IsFirst
      <4>. QED BY <4>1
    <3>2. CASE Moves(m) # {}
      <4>1. IsFirst(f, Moves(m)) /\ f \in Moves(m)
        BY <1>4, <2>1, <2>3, <2>8, <3>2 DEF IsFirst
      <4>2. CASE Standing(m) = {}
        <5>1. p = r
          BY <2>1, <2>8, <4>2 DEF IsFirst
        <5>. QED BY <1>2, <1>4, <2>3, <4>1, <4>2, <5>1 DEF MoveInv, MoveChain
      <4>3. CASE Standing(m) # {}
        <5>1. IsFirst(p, Standing(m)) /\ p \in Standing(m)
          BY <1>4, <2>1, <2>2, <2>3, <2>8, <4>3 DEF IsFirst
        <5>. QED BY <2>2, <2>3, <4>1, <5>1 DEF MoveInv, MoveChain
      <4>. QED BY <4>2, <4>3
    <3>. QED BY <3>1, <3>2
  <2>. QED BY <2>4, <2>5, <2>6, <2>7, <2>8 DEF MoveChain
<1>. QED BY <1>2, <1>6, <1>7, <1>8 DEF MoveInv

\* An undo takes the last row of its message's chain away.
LEMMA UndoCommitMoves ==
  ASSUME MoveInv, OneSession, NEW s \in Session, UndoCommits(s)
  PROVE  MoveInv'
<1>1. PICK r \in Request : r = job[s].request
  BY StampType DEF MoveInv
<1>2. PICK y \in Correction : y = correction[r]
  BY <1>1, StampType DEF MoveInv
<1>3. /\ TypeInv' /\ UNCHANGED delivery /\ job'[s] = NoJob
      /\ Active(r) /\ Dependents(r) = {}
  BY <1>1, UndoType DEF UndoCommits, MoveInv, MoveUnderway, TypeInv, TypeOK
<1>4. \A q \in Request :
        /\ Recorded(q)' <=> Recorded(q)
        /\ Active(q)' <=> Active(q) /\ q # r
        /\ Recorded(q) => /\ correction'[q].source = correction[q].source
                          /\ correction'[q].target = correction[q].target
                          /\ correction'[q].event = correction[q].event
                          /\ correction'[q].at = correction[q].at
  <2>1. correction'[r].undone = TRUE
    BY <1>1, <1>2 DEF UndoCommits, MoveInv, TypeInv, TypeOK, Correction
  <2>. QED BY <1>1, <2>1, StampType DEF MoveInv, Active
<1>5. MoveUnderway'
  BY <1>3 DEF MoveUnderway, OneSession, NoJob
<1>6. CASE y.kind = "merge"
  <2>1. UNCHANGED filed /\ y.event = None
    BY <1>1, <1>2, <1>3, <1>6 DEF UndoCommits, Unmerge, MoveInv, TypeInv, RowsOK, Active
  <2>2. \A m \in Message : r \notin Moves(m)
    BY <1>2, <2>1, NoneAssumption DEF Moves
  <2>3. \A m \in Message : Moves(m)' = Moves(m) /\ Standing(m)' = Standing(m)
    BY <1>4, <2>2 DEF Moves, Standing
  <2>4. \A m \in Message : \A q \in Moves(m) : Recorded(q) /\ q \in Request
    BY DEF Moves
  <2>5. \A m \in Message : MoveChain(m)'
    BY <1>4, <2>1, <2>3, <2>4, ChainKept DEF MoveInv
  <2>6. Undelivered'
    BY <1>3, <2>1 DEF Undelivered, MoveInv
  <2>. QED BY <1>3, <1>5, <2>5, <2>6 DEF MoveInv
<1>7. CASE y.kind = "move"
  <2>1. PICK m \in Message : y.event = m
    BY <1>2, <1>3, <1>7 DEF MoveInv, TypeInv, RowsOK, Active
  <2>2. /\ filed'[m] = y.source /\ y.source # None
        /\ \A n \in Message : n # m => filed'[n] = filed[n]
    <3>1. filed' = [filed EXCEPT ![m] = y.source]
      BY <1>1, <1>2, <1>7, <2>1 DEF UndoCommits, Unmove
    <3>. QED BY <1>2, <3>1, NoneAssumption DEF Correction, MoveInv, TypeInv, TypeOK
  <2>3. r \in Standing(m) /\ r \in Moves(m) /\ Recorded(r)
    BY <1>2, <1>3, <2>1 DEF Standing, Moves, Active
  <2>4. filed[m] # None
    BY <2>3 DEF MoveInv, MoveChain
  <2>5. Undelivered'
    BY <1>3, <2>2, <2>4 DEF Undelivered, MoveInv
  <2>6. ASSUME NEW n \in Message, n # m PROVE MoveChain(n)'
    <3>1. Moves(n)' = Moves(n) /\ Standing(n)' = Standing(n)
      BY <1>2, <1>4, <2>1, <2>6 DEF Moves, Standing
    <3>2. \A q \in Moves(n) : Recorded(q) /\ q \in Request
      BY DEF Moves
    <3>. QED BY <1>4, <2>2, <2>6, <3>1, <3>2, ChainKept DEF MoveInv
  <2>7. MoveChain(m)'
    <3>1. Moves(m)' = Moves(m) /\ Standing(m)' = Standing(m) \ {r}
      BY <1>4 DEF Moves, Standing
    <3>2. \A q \in Moves(m) : /\ q \in Request /\ Recorded(q) /\ correction[q].at \in Nat
                               /\ correction[q].event = m
      BY DEF Moves, MoveInv, TypeInv, TypeOK, Recorded, Correction
    <3>3. Standing(m) \subseteq Moves(m) /\ \A q \in Standing(m) : Active(q)
      BY DEF Standing
    <3>4. \A q \in Moves(m) : /\ correction'[q].source = correction[q].source
                               /\ correction'[q].target = correction[q].target
                               /\ correction'[q].at = correction[q].at
      BY <1>4, <3>2
    <3>5. \A p, q \in Moves(m) : correction[p].at = correction[q].at => p = q
      BY <3>2 DEF MoveInv, TypeInv, RowsOK
    <3>6. \A q \in Standing(m) : correction[q].at <= correction[r].at
      BY <1>2, <1>3, <2>1, <2>3, <3>2, <3>3, NoneAssumption DEF Dependents
    <3>7. \A q \in Standing(m) : q # r => correction[q].at < correction[r].at
      BY <2>3, <3>2, <3>3, <3>5, <3>6
    <3>8. ASSUME NEW q \in Request, IsLast(q, Standing(m))'
          PROVE  filed'[m] = correction'[q].target
      <4>1. q \in Standing(m) /\ q # r
        BY <3>1, <3>8 DEF IsLast
      <4>2. \A o \in Standing(m) : o = r \/ correction[o].at <= correction[q].at
        BY <3>1, <3>3, <3>4, <3>8, <4>1 DEF IsLast
      <4>3. correction[r].source = correction[q].target
        BY <2>3, <3>7, <4>1, <4>2 DEF MoveInv, MoveChain
      <4>. QED BY <1>2, <2>2, <3>3, <3>4, <4>1, <4>3
    <3>9. ASSUME NEW f \in Request, Standing(m)' = {}, IsFirst(f, Moves(m))'
          PROVE  filed'[m] = correction'[f].source
      <4>1. IsFirst(r, Standing(m))
        BY <2>3, <3>1, <3>2, <3>3, <3>9 DEF IsFirst
      <4>2. IsFirst(f, Moves(m)) /\ f \in Moves(m)
        BY <3>1, <3>4, <3>9 DEF IsFirst
      <4>. QED BY <1>2, <2>2, <3>4, <4>1, <4>2 DEF MoveInv, MoveChain
    <3>10. ASSUME NEW p \in Standing(m)', NEW q \in Standing(m)',
                  correction'[q].at < correction'[p].at,
                  \A o \in Standing(m)' : o = p \/ correction'[o].at <= correction'[q].at
                                             \/ correction'[p].at < correction'[o].at
           PROVE  correction'[p].source = correction'[q].target
      <4>1. p \in Standing(m) /\ q \in Standing(m) /\ p # r
        BY <3>1
      <4>2. \A o \in Standing(m) : o = p \/ correction[o].at <= correction[q].at
                                      \/ correction[p].at < correction[o].at
        BY <3>1, <3>3, <3>4, <3>7, <3>10, <4>1
      <4>. QED BY <3>3, <3>4, <3>10, <4>1, <4>2 DEF MoveInv, MoveChain
    <3>11. ASSUME NEW p \in Request, NEW f \in Request,
                  IsFirst(p, Standing(m))', IsFirst(f, Moves(m))'
           PROVE  correction'[p].source = correction'[f].source
      <4>1. IsFirst(f, Moves(m)) /\ f \in Moves(m)
        BY <3>1, <3>4, <3>11 DEF IsFirst
      <4>2. IsFirst(p, Standing(m)) /\ p \in Standing(m)
        BY <3>1, <3>3, <3>4, <3>6, <3>11 DEF IsFirst
      <4>. QED BY <3>3, <3>4, <4>1, <4>2 DEF MoveInv, MoveChain
    <3>. QED BY <2>2, <3>8, <3>9, <3>10, <3>11 DEF MoveChain
  <2>. QED BY <1>3, <1>5, <2>5, <2>6, <2>7 DEF MoveInv
<1>. QED BY <1>6, <1>7 DEF Correction

LEMMA NextMoves == OneSession /\ MoveInv /\ [Next]_vars => MoveInv'
<1>. SUFFICES ASSUME OneSession, MoveInv, [Next]_vars PROVE MoveInv'
  OBVIOUS
<1>1. ASSUME NEW m \in Message, Ingress(m) PROVE MoveInv'
  BY <1>1, IngestMoves
<1>2. ASSUME NEW m \in Message, NEW c \in Thread, ReplyAliases(c, m) PROVE MoveInv'
  BY <1>2, ReplyMoves
<1>3. ASSUME NEW s \in Session, Corrects(s) PROVE MoveInv'
  BY <1>3, CheckMoves, MergeCommitMoves, MoveCommitMoves, UndoCommitMoves DEF Corrects
<1>4. CASE UNCHANGED vars
  <2>1. TypeInv'
    BY NextType DEF MoveInv
  <2>2. \A r \in Request : Dependents(r)' = Dependents(r)
    BY <1>4 DEF vars, Dependents
  <2>3. MoveUnderway' /\ Undelivered'
    BY <1>4, <2>2
       DEF vars, ingressVars, MoveInv, MoveUnderway, Undelivered, TypeInv, JobFieldsOK
  <2>. QED BY <1>4, <2>1, <2>3, ChainsKept DEF vars, ingressVars, MoveInv
<1>. QED BY <1>1, <1>2, <1>3, <1>4 DEF Next

LEMMA InitMoves == Init => MoveInv
<1>. SUFFICES ASSUME Init PROVE MoveInv
  OBVIOUS
<1>1. \A m \in Message : Moves(m) = {} /\ Standing(m) = {}
  BY DEF Init, Moves, Standing, Recorded
<1>2. \A m \in Message : MoveChain(m)
  BY <1>1 DEF MoveChain, IsLast, IsFirst
<1>3. MoveUnderway /\ Undelivered
  BY DEF Init, MoveUnderway, NoJob, Undelivered, Idle
<1>. QED BY <1>2, <1>3, InitType DEF MoveInv

\* As long as corrections do not overlap, a message is in the conversation the
\* last move still standing put it in, whichever moves were undone and in which
\* order, and back where it was delivered when none is left.
THEOREM MovesAreFollowed == ASSUME OneSession PROVE Spec => []FiledWhereMoved
<1>1. MoveInv /\ [Next]_vars => MoveInv'
  BY NextMoves
<1>2. Spec => []MoveInv
  BY <1>1, InitMoves, PTL DEF Spec
<1>. QED BY <1>2, MoveInvFiled, PTL
===============================================================================
