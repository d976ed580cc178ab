--------------------------- MODULE ReadSideProofs ---------------------------
(***************************************************************************)
(* The readers of the ledger, for any number of records, viewers and rows, *)
(* any amounts, page sizes and failures.                                   *)
(***************************************************************************)
EXTENDS ReadSide, FiniteSetTheorems, WellFoundedInduction, TLAPS

-----------------------------------------------------------------------------
(***************************************************************************)
(* The audit.  A state moves only together with its trail, so an inquiry   *)
(* that finds a trail as long as it was has seen the state the trail ends  *)
(* with.                                                                   *)
(***************************************************************************)
LedgerStates == RestStates \union {"SCORING"}
Edges == [from : LedgerStates, to : LedgerStates]

\* A state and the trail that explains it.
Explained(current, entries) ==
  /\ entries = <<>> => current = "NEW"
  /\ entries # <<>> => entries[Len(entries)].to = current
  /\ ~ImpossibleTransition(entries)

LedgerInv ==
  /\ state \in [Records -> RestStates]
  /\ trail \in [Records -> Seq(Edges)]
  /\ \A r \in Records : Explained(state[r], trail[r])

\* What an inquiry has seen of a record is how it is, unless its trail has grown.
InquiryInv ==
  \A r \in DOMAIN inquiry.seen :
     /\ r \in Records /\ inquiry.length[r] \in Nat
     /\ inquiry.length[r] <= Len(trail[r])
     /\ inquiry.length[r] = Len(trail[r]) => inquiry.seen[r] = state[r]

AuditInv ==
  /\ view = "audit" => LedgerInv /\ InquiryInv
  /\ AlarmsOnlyOnMovers

\* How a step of the ledger shows.
Grown ==
  \A r \in Records :
     /\ Len(trail'[r]) \in Nat /\ Len(trail[r]) <= Len(trail'[r])
     /\ Len(trail'[r]) = Len(trail[r]) => state'[r] = state[r]

-----------------------------------------------------------------------------
\* One more edge.
LEMMA OneEdge ==
  ASSUME NEW p \in Seq(Edges), NEW current, Explained(current, p),
         NEW to \in LedgerStates, current \in LedgerStates,
         <<current, to>> \in AllowedTransitions
  PROVE  /\ Append(p, [from |-> current, to |-> to]) \in Seq(Edges)
         /\ Len(Append(p, [from |-> current, to |-> to])) = Len(p) + 1
         /\ Explained(to, Append(p, [from |-> current, to |-> to]))
<1>1. PICK e : e = [from |-> current, to |-> to]
  OBVIOUS
<1>2. PICK q : q = Append(p, e)
  OBVIOUS
<1>3. e \in Edges /\ e.from = current /\ e.to = to
  BY <1>1 DEF Edges
<1>4. q \in Seq(Edges) /\ Len(q) = Len(p) + 1 /\ Len(p) \in Nat
  BY <1>2, <1>3
<1>5. \A i \in 1..Len(p) : q[i] = p[i]
  BY <1>2, <1>4
<1>6. q[Len(q)] = e /\ q # <<>>
  BY <1>2, <1>4
<1>7. ASSUME NEW i \in 1..Len(q)
      PROVE  /\ i > 1 => q[i].from = q[i - 1].to
             /\ <<q[i].from, q[i].to>> \in AllowedTransitions
  <2>1. CASE i \in 1..Len(p)
    <3>1. /\ i > 1 => p[i].from = p[i - 1].to
          /\ <<p[i].from, p[i].to>> \in AllowedTransitions
      BY <2>1 DEF Explained, ImpossibleTransition
    <3>2. q[i] = p[i] /\ (i > 1 => i - 1 \in 1..Len(p) /\ q[i - 1] = p[i - 1])
      BY <1>4, <1>5, <2>1
    <3> QED BY <3>1, <3>2
  <2>2. CASE i = Len(q)
    <3>1. q[i] = e
      BY <1>6, <2>2
    <3>2. i > 1 => i - 1 = Len(p) /\ i - 1 \in 1..Len(p) /\ p # <<>>
      BY <1>4, <2>2
    <3>3. i > 1 => q[i - 1] = p[Len(p)] /\ p[Len(p)].to = current
      BY <1>5, <3>2 DEF Explained
    <3> QED BY <1>3, <3>1, <3>3
  <2> QED BY <1>4, <2>1, <2>2
<1>8. ~ImpossibleTransition(q)
  BY <1>7 DEF ImpossibleTransition
<1>9. Explained(to, q)
  BY <1>3, <1>6, <1>8 DEF Explained
<1> QED BY <1>1, <1>2, <1>4, <1>9

\* The edges of one transaction.
LEMMA PathExplains ==
  ASSUME NEW p \in Seq(Edges), NEW from \in RestStates, NEW to \in RestStates,
         NEW scored \in BOOLEAN, Explained(from, p),
         scored => /\ <<from, "SCORING">> \in AllowedTransitions
                   /\ <<"SCORING", to>> \in AllowedTransitions,
         ~scored => <<from, to>> \in AllowedTransitions
  PROVE  /\ p \o Path(from, to, scored) \in Seq(Edges)
         /\ Len(p \o Path(from, to, scored)) > Len(p)
         /\ Explained(to, p \o Path(from, to, scored))
<1>1. from \in LedgerStates /\ to \in LedgerStates /\ "SCORING" \in LedgerStates
  BY DEF LedgerStates
<1>2. CASE ~scored
  <2>1. p \o Path(from, to, scored) = Append(p, [from |-> from, to |-> to])
    BY <1>2 DEF Path
  <2> QED BY <1>1, <1>2, <2>1, OneEdge
<1>3. CASE scored
  <2>1. PICK q : q = Append(p, [from |-> from, to |-> "SCORING"])
    OBVIOUS
  <2>2. q \in Seq(Edges) /\ Len(q) = Len(p) + 1 /\ Explained("SCORING", q)
    BY <1>1, <1>3, <2>1, OneEdge
  <2>3. PICK o : o = Append(q, [from |-> "SCORING", to |-> to])
    OBVIOUS
  <2>4. o \in Seq(Edges) /\ Len(o) = Len(q) + 1 /\ Explained(to, o)
    BY <1>1, <1>3, <2>2, <2>3, OneEdge
  <2>5. p \o Path(from, to, scored) = o
    BY <1>1, <1>3, <2>1, <2>3 DEF Path, Edges
  <2> QED BY <2>2, <2>4, <2>5
<1> QED BY <1>2, <1>3

\* A transaction moves one record and its trail.
LEMMA CommitExplains ==
  ASSUME LedgerInv, NEW r \in Records, NEW s \in RestStates, NEW scored \in BOOLEAN,
         state' = [state EXCEPT ![r] = s], Commit(r, scored),
         scored => /\ <<state[r], "SCORING">> \in AllowedTransitions
                   /\ <<"SCORING", s>> \in AllowedTransitions,
         ~scored => <<state[r], s>> \in AllowedTransitions
  PROVE  LedgerInv' /\ Grown
<1>1. PICK o : o = trail[r] \o Path(state[r], s, scored)
  OBVIOUS
<1>2. o \in Seq(Edges) /\ Len(o) > Len(trail[r]) /\ Explained(s, o)
  BY <1>1, PathExplains DEF LedgerInv
<1>3. trail' = [trail EXCEPT ![r] = o]
  BY <1>1 DEF Commit, LedgerInv
<1>4. state' \in [Records -> RestStates] /\ trail' \in [Records -> Seq(Edges)]
  BY <1>2, <1>3 DEF LedgerInv
<1>5. \A q \in Records : (q = r /\ state'[q] = s /\ trail'[q] = o)
                         \/ (q # r /\ state'[q] = state[q] /\ trail'[q] = trail[q])
  BY <1>3 DEF LedgerInv
<1>6. \A q \in Records : Explained(state'[q], trail'[q])
  BY <1>2, <1>5 DEF LedgerInv
<1>7. Grown
  BY <1>2, <1>4, <1>5 DEF Grown, LedgerInv
<1> QED BY <1>4, <1>6, <1>7 DEF LedgerInv

-----------------------------------------------------------------------------
LEMMA IntakeExplains ==
  ASSUME LedgerInv, NEW r \in Records, RecordIntake(r) PROVE LedgerInv' /\ Grown
<1>1. PICK s \in Routed : state' = [state EXCEPT ![r] = s]
  BY DEF RecordIntake, Intake
<1>2. state[r] = "NEW" /\ state'[r] = s /\ s \in RestStates
  BY <1>1 DEF RecordIntake, Intake, LedgerInv, Routed, RestStates, Terminal
<1>3. PICK scored \in BOOLEAN : (scored \/ s = "ESCALATED") /\ Commit(r, scored)
  BY <1>2 DEF RecordIntake
<1>4. /\ <<"NEW", "SCORING">> \in AllowedTransitions /\ <<"SCORING", s>> \in AllowedTransitions
      /\ <<"NEW", "ESCALATED">> \in AllowedTransitions
  BY <1>1 DEF AllowedTransitions, Routed
<1> QED BY <1>1, <1>2, <1>3, <1>4, CommitExplains

LEMMA ClaimExplains ==
  ASSUME LedgerInv, NEW r \in Records, RecordClaim(r) PROVE LedgerInv' /\ Grown
<1>1. PICK s : s = IF state[r] = "RETRY_SCHEDULED" THEN "RETRYING" ELSE "NUDGED"
  OBVIOUS
<1>2. state[r] \in Waiting /\ s \in RestStates
  BY <1>1 DEF RecordClaim, Claim, RestStates, Claimed
<1>3. state' = [state EXCEPT ![r] = s]
  BY <1>1 DEF RecordClaim, Claim, LedgerInv
<1>4. <<state[r], s>> \in AllowedTransitions
  BY <1>1, <1>2 DEF AllowedTransitions, Waiting
<1>5. Commit(r, FALSE)
  BY DEF RecordClaim
<1> QED BY <1>2, <1>3, <1>4, <1>5, CommitExplains

LEMMA AnswerExplains ==
  ASSUME LedgerInv, NEW r \in Records, RecordAnswer(r) PROVE LedgerInv' /\ Grown
<1>1. PICK s \in Routed \union {"RECOVERED"} : state' = [state EXCEPT ![r] = s]
  BY DEF RecordAnswer, Answer
<1>2. state[r] = "NUDGED" /\ state'[r] = s /\ s \in RestStates
  BY <1>1 DEF RecordAnswer, Answer, LedgerInv, Routed, RestStates, Terminal
<1>3. PICK scored \in BOOLEAN : scored = (s # "RECOVERED")
  OBVIOUS
<1>4. Commit(r, scored)
  BY <1>2, <1>3 DEF RecordAnswer
<1>5. /\ <<"NUDGED", "RECOVERED">> \in AllowedTransitions
      /\ <<"NUDGED", "SCORING">> \in AllowedTransitions
      /\ s # "RECOVERED" => <<"SCORING", s>> \in AllowedTransitions
  BY <1>1 DEF AllowedTransitions, Routed
<1> QED BY <1>1, <1>2, <1>3, <1>4, <1>5, CommitExplains

LEMMA AccountExplains ==
  ASSUME LedgerInv, NEW r \in Records, RecordAccount(r) PROVE LedgerInv' /\ Grown
<1>1. state[r] \in {"RETRYING", "NUDGED"}
  BY DEF RecordAccount, Account, Claimed
<1>2. PICK s : s = state'[r]
  OBVIOUS
<1>3. state' = [state EXCEPT ![r] = s] /\ s \in RestStates
  <2>1. CASE UNCHANGED state
    BY <1>2, <2>1 DEF LedgerInv
  <2>2. CASE \E q \in Routed \union {"RECOVERED"} : state' = [state EXCEPT ![r] = q]
    BY <1>2, <2>2 DEF LedgerInv, Routed, RestStates, Terminal
  <2> QED BY <2>1, <2>2 DEF RecordAccount, Account
<1>4. CASE LastOutcome(r) = "SUCCESS"
  <2>1. s = "RECOVERED" /\ Commit(r, FALSE)
    BY <1>2, <1>4 DEF RecordAccount, Decide
  <2>2. <<state[r], s>> \in AllowedTransitions
    BY <1>1, <2>1 DEF AllowedTransitions
  <2> QED BY <1>3, <2>1, <2>2, CommitExplains
<1>5. CASE LastOutcome(r) = "FAILURE"
  <2>1. s \in Routed /\ Commit(r, TRUE)
    BY <1>2, <1>5 DEF RecordAccount, Decide
  <2>2. <<state[r], "SCORING">> \in AllowedTransitions /\ <<"SCORING", s>> \in AllowedTransitions
    BY <1>1, <2>1 DEF AllowedTransitions, Routed
  <2> QED BY <1>3, <2>1, <2>2, CommitExplains
<1>6. CASE LastOutcome(r) = "PENDING"
  <2>1. s = (IF state[r] = "NUDGED" THEN "NUDGED" ELSE "ESCALATED") /\ Commit(r, FALSE)
    BY <1>2, <1>6 DEF RecordAccount, Decide
  <2>2. <<state[r], s>> \in AllowedTransitions
    BY <1>1, <2>1 DEF AllowedTransitions
  <2> QED BY <1>3, <2>1, <2>2, CommitExplains
<1> QED BY <1>4, <1>5, <1>6 DEF RecordAccount, Outcomes

LEMMA SameLedger ==
  ASSUME LedgerInv, UNCHANGED <<state, trail>> PROVE LedgerInv' /\ Grown
BY DEF LedgerInv, Grown

LEMMA LedgerExplains == LedgerInv /\ LedgerNext => LedgerInv' /\ Grown
<1> SUFFICES ASSUME LedgerInv, NEW r \in Records, LedgerStep(r) PROVE LedgerInv' /\ Grown
  BY DEF LedgerNext
<1>1. CASE Transact(r)
  BY <1>1, IntakeExplains, ClaimExplains, AnswerExplains, AccountExplains DEF Transact
<1>2. CASE ClaimAttempt(r) \/ RecordOutcome(r)
  BY <1>2, SameLedger DEF ClaimAttempt, RecordOutcome, lifecycleVars
<1> QED BY <1>1, <1>2 DEF LedgerStep

-----------------------------------------------------------------------------
\* What was seen stays true, or shows in the trail.
LEMMA StillSeen ==
  ASSUME LedgerInv, InquiryInv, Grown, UNCHANGED inquiry
  PROVE  InquiryInv'
<1> SUFFICES ASSUME NEW r \in DOMAIN inquiry.seen
             PROVE  /\ r \in Records /\ inquiry.length[r] \in Nat
                    /\ inquiry.length[r] <= Len(trail'[r])
                    /\ inquiry.length[r] = Len(trail'[r]) => inquiry.seen[r] = state'[r]
  BY DEF InquiryInv
<1>1. /\ r \in Records /\ inquiry.length[r] \in Nat
      /\ inquiry.length[r] <= Len(trail[r])
      /\ inquiry.length[r] = Len(trail[r]) => inquiry.seen[r] = state[r]
  BY DEF InquiryInv
<1>2. Len(trail[r]) \in Nat
  BY <1>1 DEF LedgerInv
<1>3. /\ Len(trail'[r]) \in Nat /\ Len(trail[r]) <= Len(trail'[r])
      /\ Len(trail'[r]) = Len(trail[r]) => state'[r] = state[r]
  BY <1>1 DEF Grown
<1> QED BY <1>1, <1>2, <1>3

LEMMA ReadStatesSees ==
  ASSUME LedgerInv, NEW by, NEW scope \in SUBSET Records, ReadStates(by, scope)
  PROVE  LedgerInv' /\ InquiryInv' /\ AlarmsOnlyOnMovers'
<1>1. UNCHANGED <<state, trail>> /\ verdict' = NoVerdict
  BY DEF ReadStates, ledgerVars
<1>2. PICK n : n = [r \in scope |-> Len(trail[r])]
  OBVIOUS
<1>3. PICK f : f = Restrict(state, scope)
  OBVIOUS
<1>4. inquiry' = [by |-> by, seen |-> f, length |-> n]
  BY <1>2, <1>3 DEF ReadStates, CurrentStates
<1>5. DOMAIN f = scope /\ \A r \in scope : f[r] = state[r] /\ n[r] = Len(trail[r])
  BY <1>2, <1>3 DEF Restrict
<1>6. ASSUME NEW r \in scope PROVE Len(trail[r]) \in Nat
  <2>1. trail[r] \in Seq(Edges)
    BY DEF LedgerInv
  <2> QED BY <2>1
<1>7. inquiry'.seen = f /\ inquiry'.length = n
  BY <1>4
<1>8. InquiryInv'
  BY <1>1, <1>5, <1>6, <1>7 DEF InquiryInv
<1> QED BY <1>1, <1>8, SameLedger DEF AlarmsOnlyOnMovers, NoVerdict

\* Whoever has not moved is judged on a state and the trail that explains it.
LEMMA StillIsSound ==
  ASSUME LedgerInv, InquiryInv, NEW r \in DOMAIN inquiry.seen
  PROVE  /\ Judge(inquiry.seen[r], trail[r]) # "impossible"
         /\ Judge(inquiry.seen[r], trail[r]) = "incomplete" => inquiry.length[r] # Len(trail[r])
<1>1. r \in Records /\ Explained(state[r], trail[r])
  BY DEF LedgerInv, InquiryInv
<1>2. ~ImpossibleTransition(trail[r])
  BY <1>1 DEF Explained
<1>3. inquiry.length[r] = Len(trail[r]) => inquiry.seen[r] = state[r]
  BY DEF InquiryInv
<1>4. state[r] # "NEW" => ~IncompleteTrail(state[r], trail[r])
  BY <1>1 DEF Explained, IncompleteTrail
<1>5. /\ Judge(inquiry.seen[r], trail[r]) = "impossible" => ImpossibleTransition(trail[r])
      /\ Judge(inquiry.seen[r], trail[r]) = "incomplete" =>
           inquiry.seen[r] # "NEW" /\ IncompleteTrail(inquiry.seen[r], trail[r])
  BY DEF Judge
<1> QED BY <1>2, <1>3, <1>4, <1>5

LEMMA ReadTrailsSound ==
  ASSUME LedgerInv, InquiryInv, ReadTrails
  PROVE  LedgerInv' /\ InquiryInv' /\ AlarmsOnlyOnMovers'
<1>1. UNCHANGED <<state, trail>> /\ inquiry' = NoInquiry
  BY DEF ReadTrails, ledgerVars
<1>2. InquiryInv'
  BY <1>1 DEF InquiryInv, NoInquiry
<1>3. verdict'.impossible = {r \in DOMAIN inquiry.seen : Judge(inquiry.seen[r], trail[r]) = "impossible"}
  BY DEF ReadTrails, EntriesOf
<1>4. verdict'.incomplete = {r \in DOMAIN inquiry.seen : Judge(inquiry.seen[r], trail[r]) = "incomplete"}
  BY DEF ReadTrails, EntriesOf
<1>5. verdict'.moved = {r \in {q \in DOMAIN inquiry.seen : Judge(inquiry.seen[q], trail[q]) = "incomplete"} :
                          inquiry.length[r] # Len(trail[r])}
  BY DEF ReadTrails, EntriesOf
<1>6. AlarmsOnlyOnMovers'
  BY <1>3, <1>4, <1>5, StillIsSound DEF AlarmsOnlyOnMovers
<1> QED BY <1>1, <1>2, <1>6, SameLedger

-----------------------------------------------------------------------------
LEMMA AuditStarts == ReadInit => AuditInv
<1> SUFFICES ASSUME ReadInit PROVE AuditInv
  OBVIOUS
<1>1. LedgerInv
  <2>1. state = [r \in Records |-> "NEW"] /\ trail = [r \in Records |-> <<>>]
    BY DEF ReadInit, LedgerInit, Init
  <2>2. "NEW" \in RestStates /\ <<>> \in Seq(Edges)
    BY DEF RestStates
  <2>3. Explained("NEW", <<>>)
    BY DEF Explained, ImpossibleTransition
  <2> QED BY <2>1, <2>2, <2>3 DEF LedgerInv
<1>2. InquiryInv
  BY DEF ReadInit, AuditInit, InquiryInv, NoInquiry
<1>3. AlarmsOnlyOnMovers
  BY DEF ReadInit, AuditInit, AlarmsOnlyOnMovers, NoVerdict
<1> QED BY <1>1, <1>2, <1>3 DEF AuditInv

LEMMA AuditStep == AuditInv /\ [ReadNext]_readVars => AuditInv'
<1> SUFFICES ASSUME AuditInv, [ReadNext]_readVars PROVE AuditInv'
  OBVIOUS
<1>1. CASE Audits
  <2>1. LedgerInv /\ InquiryInv /\ AlarmsOnlyOnMovers /\ view' = "audit"
    BY <1>1 DEF Audits, AuditInv
  <2>2. CASE LedgerNext /\ UNCHANGED auditVars
    <3>1. LedgerInv' /\ Grown
      BY <2>1, <2>2, LedgerExplains
    <3>2. InquiryInv'
      BY <2>1, <2>2, <3>1, StillSeen DEF auditVars
    <3> QED BY <2>1, <2>2, <3>1, <3>2 DEF AuditInv, AlarmsOnlyOnMovers, auditVars
  <2>3. CASE WatcherStarts \/ CallerStarts
    <3>1. PICK by \in {"watcher", "caller"} : \E scope \in SUBSET Records : ReadStates(by, scope)
      BY <2>3 DEF WatcherStarts, CallerStarts
    <3>2. PICK scope \in SUBSET Records : ReadStates(by, scope)
      BY <3>1
    <3> QED BY <2>1, <3>2, ReadStatesSees DEF AuditInv
  <2>4. CASE ReadTrails
    BY <2>1, <2>4, ReadTrailsSound DEF AuditInv
  <2>5. CASE ScanFails
    <3>1. UNCHANGED <<state, trail, verdict>> /\ inquiry' = NoInquiry
      BY <2>5 DEF ScanFails, ledgerVars
    <3>2. InquiryInv'
      BY <3>1 DEF InquiryInv, NoInquiry
    <3>3. AlarmsOnlyOnMovers'
      BY <2>1, <3>1 DEF AlarmsOnlyOnMovers
    <3> QED BY <2>1, <3>1, <3>2, <3>3, SameLedger DEF AuditInv
  <2> QED BY <1>1, <2>2, <2>3, <2>4, <2>5 DEF Audits, AuditNext
<1>2. CASE Reports \/ Compares \/ Lists \/ Watches
  <2>1. view' # "audit" /\ UNCHANGED verdict
    BY <1>2 DEF Reports, Compares, Lists, Watches, auditVars
  <2> QED BY <2>1 DEF AuditInv, AlarmsOnlyOnMovers
<1>3. CASE UNCHANGED readVars
  <2>1. UNCHANGED <<state, trail, inquiry, verdict, view>>
    BY <1>3 DEF readVars, ledgerVars, auditVars
  <2>2. AlarmsOnlyOnMovers'
    BY <2>1 DEF AuditInv, AlarmsOnlyOnMovers
  <2>3. view = "audit" => LedgerInv' /\ InquiryInv'
    BY <2>1, SameLedger DEF AuditInv, InquiryInv
  <2> QED BY <2>1, <2>2, <2>3 DEF AuditInv
<1> QED BY <1>1, <1>2, <1>3 DEF ReadNext

\* For any number of records and any history of theirs: the Audit service, which
\* reads state and trail in two statements, complains only of records that moved
\* in between.
THEOREM AlarmsAreOfMovers == ReadSpec => []AlarmsOnlyOnMovers
<1>1. AuditInv => AlarmsOnlyOnMovers
  BY DEF AuditInv
<1> QED BY <1>1, AuditStarts, AuditStep, PTL DEF ReadSpec

-----------------------------------------------------------------------------
(***************************************************************************)
(* The pages.  A row that was there at the beginning is listed, on the     *)
(* page at hand, or behind it; rows that are added only push it further    *)
(* back.                                                                   *)
(***************************************************************************)
Behind(s, n) == {s[j] : j \in {k \in DOMAIN s : n < k}}

\* The fields a walk has.
Walking == {"next", "asked", "offset", "page", "present", "listed"} \subseteq DOMAIN walk

WalkInv ==
  /\ Walking
  /\ listing \in Seq(Rows)
  /\ walk.next \in {"start", "page", "count", "done"}
  /\ walk.offset \in Nat
  /\ walk.page \in Seq(Rows) /\ Len(walk.page) <= PageSize(walk.asked)
  /\ PageSize(walk.asked) \in Nat
  /\ walk.next = "page" => walk.present \subseteq walk.listed \union Behind(listing, walk.offset)
  /\ walk.next = "count" =>
       walk.present \subseteq
         walk.listed \union Range(walk.page)
           \union Behind(listing, walk.offset + PageSize(walk.asked))
  /\ WalkMissesNobody

LEMMA SizesArePositive ==
  ASSUME ReportAssumption, NEW asked \in Int
  PROVE  PageSize(asked) \in Nat
BY DEF PageSize, ReportAssumption

\* Where an insertion leaves what was there.
LEMMA Inserted ==
  ASSUME NEW s \in Seq(Rows), NEW i \in 1..(Len(s) + 1), NEW e \in Rows
  PROVE  /\ InsertAt(s, i, e) \in Seq(Rows)
         /\ Len(InsertAt(s, i, e)) = Len(s) + 1
         /\ \A j \in 1..Len(s) :
              InsertAt(s, i, e)[j] = s[j] \/ InsertAt(s, i, e)[j + 1] = s[j]
<1>1. PICK a : a = SubSeq(s, 1, i - 1)
  OBVIOUS
<1>2. PICK b : b = SubSeq(s, i, Len(s))
  OBVIOUS
<1>3. Len(s) \in Nat /\ i \in Nat
  OBVIOUS
<1>4. /\ a \in Seq(Rows) /\ Len(a) = i - 1
      /\ \A j \in 1..(i - 1) : a[j] = s[j]
  BY <1>1, <1>3
<1>5. /\ b \in Seq(Rows) /\ Len(b) = Len(s) - i + 1
      /\ \A j \in 1..(Len(s) - i + 1) : b[j] = s[i + j - 1]
  BY <1>2, <1>3
<1>6. PICK o : o = (a \o <<e>>) \o b
  OBVIOUS
<1>7. InsertAt(s, i, e) = o
  BY <1>1, <1>2, <1>6 DEF InsertAt
<1>8. a \o <<e>> \in Seq(Rows) /\ Len(a \o <<e>>) = i
      /\ \A j \in 1..(i - 1) : (a \o <<e>>)[j] = a[j]
  BY <1>3, <1>4
<1>9. o \in Seq(Rows) /\ Len(o) = Len(s) + 1
      /\ (\A j \in 1..(i - 1) : o[j] = a[j])
      /\ (\A j \in 1..(Len(s) - i + 1) : o[i + j] = b[j])
  BY <1>3, <1>4, <1>5, <1>6, <1>8
<1>10. ASSUME NEW j \in 1..Len(s) PROVE o[j] = s[j] \/ o[j + 1] = s[j]
  <2>1. CASE j < i
    BY <1>3, <1>4, <1>9, <2>1
  <2>2. CASE j >= i
    <3>1. PICK k : k = j - i + 1
      OBVIOUS
    <3>2. k \in 1..(Len(s) - i + 1) /\ i + k = j + 1 /\ i + k - 1 = j
      BY <1>3, <2>2, <3>1
    <3>3. o[i + k] = b[k] /\ b[k] = s[i + k - 1]
      BY <1>5, <1>9, <3>2
    <3> QED BY <3>2, <3>3
  <2> QED BY <1>3, <2>1, <2>2
<1> QED BY <1>7, <1>9, <1>10

\* Rows in front push those behind further back.
LEMMA BehindStays ==
  ASSUME NEW s \in Seq(Rows), NEW i \in 1..(Len(s) + 1), NEW e \in Rows, NEW n \in Nat
  PROVE  Behind(s, n) \subseteq Behind(InsertAt(s, i, e), n)
<1>1. PICK o : o = InsertAt(s, i, e)
  OBVIOUS
<1>2. o \in Seq(Rows) /\ Len(o) = Len(s) + 1
      /\ \A j \in 1..Len(s) : o[j] = s[j] \/ o[j + 1] = s[j]
  BY <1>1, Inserted
<1>3. DOMAIN o = 1..(Len(s) + 1) /\ DOMAIN s = 1..Len(s) /\ Len(s) \in Nat
  BY <1>2
<1>4. ASSUME NEW j \in DOMAIN s, n < j PROVE s[j] \in Behind(o, n)
  <2>1. j \in DOMAIN o /\ j + 1 \in DOMAIN o /\ n < j + 1
    BY <1>3, <1>4
  <2> QED BY <1>2, <1>3, <1>4, <2>1 DEF Behind
<1> QED BY <1>1, <1>4 DEF Behind

LEMMA AddRowKeeps == ASSUME WalkInv, AddRow PROVE WalkInv'
<1>1. PICK e \in Rows, i \in 1..(Len(listing) + 1) : listing' = InsertAt(listing, i, e)
  BY DEF AddRow
<1>2. UNCHANGED walk
  BY DEF AddRow
<1>3. listing' \in Seq(Rows)
  BY <1>1, Inserted DEF WalkInv
<1>4. \A n \in Nat : Behind(listing, n) \subseteq Behind(listing', n)
  BY <1>1, BehindStays DEF WalkInv
<1>5. walk.offset \in Nat /\ walk.offset + PageSize(walk.asked) \in Nat
  BY DEF WalkInv
<1>6. walk.next = "page" => walk.present \subseteq walk.listed \union Behind(listing', walk.offset)
  BY <1>4, <1>5 DEF WalkInv
<1>7. walk.next = "count" =>
        walk.present \subseteq walk.listed \union Range(walk.page)
           \union Behind(listing', walk.offset + PageSize(walk.asked))
  BY <1>4, <1>5 DEF WalkInv
<1> QED BY <1>2, <1>3, <1>6, <1>7 DEF WalkInv, WalkMissesNobody, Walking

LEMMA StartWalkKeeps == ASSUME ReportAssumption, WalkInv, StartWalk PROVE WalkInv'
<1>1. PICK asked \in AskedSizes :
        walk' = [NoWalk EXCEPT !.next = "page", !.asked = asked, !.present = Range(listing)]
  BY DEF StartWalk
<1>2. asked \in Int /\ PageSize(asked) \in Nat
  BY SizesArePositive DEF ReportAssumption
<1>3. /\ walk'.next = "page" /\ walk'.asked = asked /\ walk'.present = Range(listing)
      /\ walk'.offset = 0 /\ walk'.page = <<>> /\ walk'.listed = {} /\ Walking'
  BY <1>1 DEF NoWalk, Walking
<1>4. listing' = listing /\ listing \in Seq(Rows)
  BY DEF StartWalk, WalkInv
<1>5. Range(listing) \subseteq Behind(listing, 0)
  BY <1>4 DEF Range, Behind
<1>6. <<>> \in Seq(Rows) /\ Len(<<>>) = 0 /\ 0 \in Nat
  OBVIOUS
<1> QED BY <1>2, <1>3, <1>4, <1>5, <1>6 DEF WalkInv, WalkMissesNobody

\* A page takes what follows the offset, as far as it reaches.
LEMMA PageTakes ==
  ASSUME NEW s \in Seq(Rows), NEW n \in Nat, NEW k \in Nat,
         NEW p, p = SubSeq(s, n + 1, IF n + k < Len(s) THEN n + k ELSE Len(s))
  PROVE  /\ p \in Seq(Rows) /\ Len(p) <= k
         /\ Behind(s, n) \subseteq Range(p) \union Behind(s, n + k)
<1>1. PICK m : m = IF n + k < Len(s) THEN n + k ELSE Len(s)
  OBVIOUS
<1>2. m \in Nat /\ m <= n + k /\ m <= Len(s) /\ Len(s) \in Nat
  BY <1>1
<1>3. p = SubSeq(s, n + 1, m)
  BY <1>1
<1>4. CASE m <= n
  <2>1. p = <<>>
    BY <1>2, <1>3, <1>4
  <2>2. \A j \in 1..Len(s) : n < j => n + k < j
    BY <1>1, <1>2, <1>4
  <2> QED BY <2>1, <2>2 DEF Behind, Range
<1>5. CASE n < m
  <2>1. p \in Seq(Rows) /\ Len(p) = m - n /\ \A j \in 1..(m - n) : p[j] = s[n + j]
    BY <1>2, <1>3, <1>5
  <2>2. ASSUME NEW j \in 1..Len(s), n < j, ~(n + k < j) PROVE s[j] \in Range(p)
    <3>1. PICK i : i = j - n
      OBVIOUS
    <3>2. i \in 1..(m - n) /\ n + i = j
      BY <1>1, <1>2, <1>5, <2>2, <3>1
    <3>3. p[i] = s[j] /\ i \in DOMAIN p
      BY <2>1, <3>2
    <3> QED BY <3>3 DEF Range
  <2> QED BY <1>2, <2>1, <2>2 DEF Behind
<1> QED BY <1>2, <1>4, <1>5

LEMMA ReadPageKeeps == ASSUME WalkInv, ReadPage PROVE WalkInv'
<1>1. PICK p : p = SubSeq(listing, walk.offset + 1,
                     IF walk.offset + PageSize(walk.asked) < Len(listing)
                     THEN walk.offset + PageSize(walk.asked) ELSE Len(listing))
  OBVIOUS
<1>2. /\ p \in Seq(Rows) /\ Len(p) <= PageSize(walk.asked)
      /\ Behind(listing, walk.offset)
           \subseteq Range(p) \union Behind(listing, walk.offset + PageSize(walk.asked))
  BY <1>1, PageTakes DEF WalkInv
<1>3. walk' = [walk EXCEPT !.next = "count", !.page = p] /\ listing' = listing /\ walk.next = "page"
  BY <1>1 DEF ReadPage
<1>4. /\ walk'.next = "count" /\ walk'.page = p /\ walk'.asked = walk.asked
      /\ walk'.offset = walk.offset /\ walk'.present = walk.present /\ walk'.listed = walk.listed
      /\ Walking'
  BY <1>3 DEF WalkInv, Walking
<1>5. walk.present \subseteq walk.listed \union Behind(listing, walk.offset)
  BY <1>3 DEF WalkInv
<1> QED BY <1>2, <1>3, <1>4, <1>5 DEF WalkInv, WalkMissesNobody

LEMMA CountRowsKeeps == ASSUME WalkInv, CountRows PROVE WalkInv'
<1>1. PICK more \in BOOLEAN : more <=> walk.offset + Len(walk.page) < Len(listing)
  <2>1. CASE walk.offset + Len(walk.page) < Len(listing)
    BY <2>1
  <2>2. CASE ~(walk.offset + Len(walk.page) < Len(listing))
    BY <2>2
  <2> QED BY <2>1, <2>2
<1>2. PICK n : n = IF more THEN walk.offset + PageSize(walk.asked) ELSE 0
  OBVIOUS
<1>3. /\ walk' = [walk EXCEPT !.next = IF more THEN "page" ELSE "done", !.offset = n,
                    !.page = <<>>, !.listed = @ \union Range(walk.page)]
      /\ listing' = listing /\ walk.next = "count"
  BY <1>1, <1>2 DEF CountRows, NextOffset
<1>4. /\ walk'.next = (IF more THEN "page" ELSE "done") /\ walk'.page = <<>>
      /\ walk'.asked = walk.asked /\ walk'.offset = n /\ walk'.present = walk.present
      /\ walk'.listed = walk.listed \union Range(walk.page) /\ Walking'
  BY <1>3 DEF WalkInv, Walking
<1>5. walk.present \subseteq walk.listed \union Range(walk.page)
           \union Behind(listing, walk.offset + PageSize(walk.asked))
  BY <1>3 DEF WalkInv
<1>6. ~more => Behind(listing, walk.offset + PageSize(walk.asked)) = {}
  <2>1. ~more => Len(listing) <= walk.offset + PageSize(walk.asked)
    <3>1. /\ Len(walk.page) \in Nat /\ Len(listing) \in Nat /\ walk.offset \in Nat
          /\ PageSize(walk.asked) \in Nat /\ Len(walk.page) <= PageSize(walk.asked)
      BY DEF WalkInv
    <3> QED BY <1>1, <3>1
  <2>2. DOMAIN listing = 1..Len(listing) /\ Len(listing) \in Nat
        /\ walk.offset + PageSize(walk.asked) \in Nat
    BY DEF WalkInv
  <2> QED BY <2>1, <2>2 DEF Behind
<1>7. n \in Nat /\ <<>> \in Seq(Rows) /\ Len(<<>>) <= PageSize(walk.asked)
  BY <1>2 DEF WalkInv
<1> QED BY <1>2, <1>3, <1>4, <1>5, <1>6, <1>7 DEF WalkInv, WalkMissesNobody

LEMMA WalkStarts == ReportAssumption /\ ReadInit => WalkInv
<1> SUFFICES ASSUME ReportAssumption, ReadInit PROVE WalkInv
  OBVIOUS
<1>1. listing = <<>> /\ walk = NoWalk
  BY DEF ReadInit, ReportInit
<1>2. PageSize(0) \in Nat
  BY SizesArePositive
<1> QED BY <1>1, <1>2 DEF NoWalk, WalkInv, Walking, WalkMissesNobody

LEMMA WalkStep == ReportAssumption /\ WalkInv /\ [ReadNext]_readVars => WalkInv'
<1> SUFFICES ASSUME ReportAssumption, WalkInv, [ReadNext]_readVars PROVE WalkInv'
  OBVIOUS
<1>1. CASE PageNext
  BY <1>1, AddRowKeeps, StartWalkKeeps, ReadPageKeeps, CountRowsKeeps DEF PageNext
<1>2. ASSUME UNCHANGED <<listing, walk>> PROVE WalkInv'
  BY <1>2 DEF WalkInv, Walking, WalkMissesNobody
<1>3. CASE Audits \/ Watches \/ UNCHANGED readVars
  BY <1>2, <1>3 DEF Audits, Watches, readVars, reportVars
<1>4. CASE Compares \/ Reports
  BY <1>2, <1>4 DEF Compares, Reports, reportVars, ReadBaseline, EndReport, ReportNext, ReadTotals,
                   ReadHeadline, ReadSpend, ReadRootCauses, ReadInterventions, ReadAccuracy
<1> QED BY <1>1, <1>3, <1>4 DEF ReadNext, Lists

\* For any number of rows, page sizes asked for and rows added in between, before
\* or behind the page: whoever turns the pages of listRecords to the end misses
\* none of the rows there were when he began.
THEOREM PagesMissNobody == ReadSpec => []WalkMissesNobody
<1>1. WalkInv => WalkMissesNobody
  BY DEF WalkInv
<1>2. ReadInit => WalkInv
  BY WalkStarts, ReportAssumption
<1>3. WalkInv /\ [ReadNext]_readVars => WalkInv'
  BY WalkStep, ReportAssumption
<1> QED BY <1>1, <1>2, <1>3, PTL DEF ReadSpec

-----------------------------------------------------------------------------
(***************************************************************************)
(* The live view.  A channel holds positions of the topic that come after  *)
(* what its stream has shown, in their order.                              *)
(***************************************************************************)
Ordered(last, s) ==
  /\ \A i \in 1..Len(s) : last < s[i]
  /\ \A i, j \in 1..Len(s) : i < j => s[i] < s[j]

\* A viewer x of a process that has handled n messages.
InStep(x, n) ==
  /\ {"pc", "registered", "closed", "channel", "last", "total"} \subseteq DOMAIN x
  /\ x.channel \in Seq(Nat) /\ x.last \in Nat
  /\ Ordered(x.last, x.channel)
  /\ x.last <= n /\ \A i \in 1..Len(x.channel) : x.channel[i] <= n
  /\ ~x.closed

StreamInv ==
  /\ position \in Nat /\ committed \in Nat
  /\ DOMAIN viewer = Viewers
  /\ \A v \in Viewers : InStep(viewer[v], position)

LEMMA AwayIsInStep == ASSUME NEW n \in Nat PROVE InStep(Away, n)
<1>1. Away.channel = <<>> /\ Away.last = 0 /\ Away.closed = FALSE
  BY DEF Away
<1> QED BY <1>1 DEF InStep, Ordered, Away

\* The process goes on.
LEMMA OneMoreHandled ==
  ASSUME NEW x, NEW n \in Nat, InStep(x, n)
  PROVE  /\ InStep(x, n + 1)
         /\ InStep([x EXCEPT !.channel = Append(@, n + 1)], n + 1)
<1>1. PICK q : q = Append(x.channel, n + 1)
  OBVIOUS
<1>2. PICK y : y = [x EXCEPT !.channel = q]
  OBVIOUS
<1>3. /\ x.channel \in Seq(Nat) /\ Len(x.channel) \in Nat /\ x.last \in Nat /\ x.last <= n
      /\ \A i \in 1..Len(x.channel) : x.channel[i] \in Nat /\ x.channel[i] <= n
  BY DEF InStep
<1>4. /\ q \in Seq(Nat) /\ Len(q) = Len(x.channel) + 1 /\ q[Len(x.channel) + 1] = n + 1
      /\ \A i \in 1..Len(x.channel) : q[i] = x.channel[i]
  BY <1>1, <1>3
<1>5. /\ y.channel = q /\ y.last = x.last /\ y.closed = x.closed
      /\ {"pc", "registered", "closed", "channel", "last", "total"} \subseteq DOMAIN y
  BY <1>2 DEF InStep
<1>6. ASSUME NEW i \in 1..Len(q)
      PROVE  \/ /\ i \in 1..Len(x.channel) /\ q[i] = x.channel[i]
                /\ x.channel[i] \in Nat /\ x.channel[i] <= n
             \/ i = Len(x.channel) + 1 /\ q[i] = n + 1
  <2>1. i \in 1..Len(x.channel) \/ i = Len(x.channel) + 1
    BY <1>3, <1>4
  <2> QED BY <1>3, <1>4, <2>1
<1>7. Ordered(x.last, q)
  <2>1. /\ \A i \in 1..Len(x.channel) : x.last < x.channel[i]
        /\ \A i, j \in 1..Len(x.channel) : i < j => x.channel[i] < x.channel[j]
    BY DEF InStep, Ordered
  <2>2. ASSUME NEW i \in 1..Len(q) PROVE x.last < q[i]
    <3>1. CASE i \in 1..Len(x.channel) /\ q[i] = x.channel[i]
      BY <2>1, <3>1
    <3>2. CASE q[i] = n + 1
      BY <1>3, <3>2
    <3> QED BY <1>6, <3>1, <3>2
  <2>3. ASSUME NEW i \in 1..Len(q), NEW j \in 1..Len(q), i < j PROVE q[i] < q[j]
    <3>1. i # Len(x.channel) + 1
      BY <1>3, <1>4, <2>3
    <3>2. i \in 1..Len(x.channel) /\ q[i] = x.channel[i] /\ q[i] \in Nat /\ q[i] <= n
      BY <1>6, <3>1
    <3>3. CASE j \in 1..Len(x.channel) /\ q[j] = x.channel[j]
      BY <2>1, <2>3, <3>2, <3>3
    <3>4. CASE q[j] = n + 1
      BY <3>2, <3>4
    <3> QED BY <1>6, <3>3, <3>4
  <2> QED BY <2>2, <2>3 DEF Ordered
<1>10. \A i \in 1..Len(q) : q[i] <= n + 1
  BY <1>6
<1>8. InStep(y, n + 1)
  BY <1>3, <1>4, <1>5, <1>7, <1>10 DEF InStep
<1>9. InStep(x, n + 1)
  BY <1>3 DEF InStep
<1> QED BY <1>1, <1>2, <1>8, <1>9

\* The next update is sent.
LEMMA OneMoreShown ==
  ASSUME NEW x, NEW n \in Nat, InStep(x, n), x.channel # <<>>, NEW y, NEW total,
         y = [x EXCEPT !.channel = Tail(x.channel), !.last = Head(x.channel), !.total = total]
  PROVE  InStep(y, n)
<1>1. PICK q : q = Tail(x.channel)
  OBVIOUS
<1>2. PICK h : h = Head(x.channel)
  OBVIOUS
<1>3. x.channel \in Seq(Nat) /\ Len(x.channel) \in Nat /\ Len(x.channel) >= 1
  BY DEF InStep
<1>4. /\ q \in Seq(Nat) /\ Len(q) = Len(x.channel) - 1 /\ h = x.channel[1]
      /\ \A i \in 1..Len(q) : q[i] = x.channel[i + 1]
  BY <1>1, <1>2, <1>3
<1>5. /\ y.channel = q /\ y.last = h /\ y.closed = x.closed
      /\ {"pc", "registered", "closed", "channel", "last", "total"} \subseteq DOMAIN y
  BY <1>1, <1>2 DEF InStep
<1>6. \A i \in 1..Len(q) : 1 \in 1..Len(x.channel) /\ i + 1 \in 1..Len(x.channel) /\ 1 < i + 1
  BY <1>3, <1>4
<1>7. \A i, j \in 1..Len(x.channel) : i < j => x.channel[i] < x.channel[j]
  BY DEF InStep, Ordered
<1>8. Ordered(h, q)
  <2>1. \A i \in 1..Len(q) : h < q[i]
    BY <1>4, <1>6, <1>7
  <2>2. ASSUME NEW i \in 1..Len(q), NEW j \in 1..Len(q), i < j PROVE q[i] < q[j]
    <3>1. i + 1 < j + 1
      BY <2>2
    <3> QED BY <1>4, <1>6, <1>7, <3>1
  <2> QED BY <2>1, <2>2 DEF Ordered
<1>9. h \in Nat /\ h <= n /\ \A i \in 1..Len(q) : q[i] <= n
  <2>1. \A i \in 1..Len(x.channel) : x.channel[i] \in Nat /\ x.channel[i] <= n
    BY DEF InStep
  <2>2. 1 \in 1..Len(x.channel)
    BY <1>3
  <2> QED BY <1>4, <1>6, <2>1, <2>2
<1> QED BY <1>4, <1>5, <1>8, <1>9 DEF InStep

\* Where one viewer changes, and the process handles nothing.
LEMMA OneViewerChanges ==
  ASSUME StreamInv, NEW v \in Viewers, NEW x, InStep(x, position),
         viewer' = [viewer EXCEPT ![v] = x], UNCHANGED <<position, committed>>
  PROVE  StreamInv'
BY DEF StreamInv

LEMMA ViewersKeep ==
  ASSUME StreamInv, NEW v \in Viewers, Subscribe(v) \/ Relay(v) \/ Unsubscribe(v)
  PROVE  StreamInv'
<1>1. UNCHANGED <<position, committed>> /\ position \in Nat /\ InStep(viewer[v], position)
  BY DEF Subscribe, Relay, Unsubscribe, RestUnchanged, StreamInv
<1>2. CASE Subscribe(v)
  <2>1. PICK x : x = [Away EXCEPT !.pc = "watching", !.registered = TRUE]
    OBVIOUS
  <2>2. /\ x.channel = Away.channel /\ x.last = Away.last /\ x.closed = Away.closed
        /\ {"pc", "registered", "closed", "channel", "last", "total"} \subseteq DOMAIN x
    BY <2>1 DEF Away
  <2>3. InStep(x, position)
    BY <1>1, <2>2, AwayIsInStep DEF InStep
  <2>4. viewer' = [viewer EXCEPT ![v] = x]
    BY <1>2, <2>1 DEF Subscribe, Set
  <2> QED BY <1>1, <2>3, <2>4, OneViewerChanges
<1>3. CASE Relay(v)
  <2>1. PICK total : total = viewer[v].total + topic[Head(viewer[v].channel)].delta
    OBVIOUS
  <2>2. PICK x : x = [viewer[v] EXCEPT !.channel = Tail(viewer[v].channel),
                        !.last = Head(viewer[v].channel), !.total = total]
    OBVIOUS
  <2>3. viewer[v].channel # <<>> /\ viewer' = [viewer EXCEPT ![v] = x]
    BY <1>3, <2>1, <2>2 DEF Relay, Set
  <2>4. InStep(x, position)
    BY <1>1, <2>2, <2>3, OneMoreShown
  <2> QED BY <1>1, <2>3, <2>4, OneViewerChanges
<1>4. CASE Unsubscribe(v)
  <2>1. CASE Set(v, Away)
    BY <1>1, <2>1, AwayIsInStep, OneViewerChanges DEF Set
  <2>2. CASE Set(v, [viewer[v] EXCEPT !.pc = "leaving", !.registered = FALSE])
    <3>1. PICK x : x = [viewer[v] EXCEPT !.pc = "leaving", !.registered = FALSE]
      OBVIOUS
    <3>2. /\ x.channel = viewer[v].channel /\ x.last = viewer[v].last
          /\ x.closed = viewer[v].closed
          /\ {"pc", "registered", "closed", "channel", "last", "total"} \subseteq DOMAIN x
      BY <1>1, <3>1 DEF InStep
    <3>3. InStep(x, position)
      BY <1>1, <3>2 DEF InStep
    <3> QED BY <1>1, <2>2, <3>1, <3>3, OneViewerChanges DEF Set
  <2> QED BY <1>4, <2>1, <2>2 DEF Unsubscribe
<1> QED BY <1>2, <1>3, <1>4

LEMMA HandleKeeps == ASSUME StreamInv, Handle PROVE StreamInv'
<1>1. position' = position + 1 /\ position \in Nat /\ UNCHANGED committed /\ committed \in Nat
  BY DEF Handle, StreamInv
<1>2. DOMAIN viewer' = Viewers
  BY DEF Handle, HubPublish
<1>3. ASSUME NEW v \in Viewers PROVE InStep(viewer'[v], position + 1)
  <2>1. \/ viewer'[v] = viewer[v]
        \/ viewer'[v] = [viewer[v] EXCEPT !.channel = Append(@, position + 1)]
    BY DEF Handle, HubPublish
  <2>2. InStep(viewer[v], position)
    BY DEF StreamInv
  <2>3. InStep(viewer[v], position + 1)
        /\ InStep([viewer[v] EXCEPT !.channel = Append(@, position + 1)], position + 1)
    BY <1>1, <2>2, OneMoreHandled
  <2> QED BY <2>1, <2>3
<1> QED BY <1>1, <1>2, <1>3 DEF StreamInv

LEMMA StreamStep == StreamInv /\ [ReadNext]_readVars => StreamInv'
<1> SUFFICES ASSUME StreamInv, [ReadNext]_readVars PROVE StreamInv'
  OBVIOUS
<1>1. ASSUME UNCHANGED <<position, committed, viewer>> PROVE StreamInv'
  BY <1>1 DEF StreamInv
<1>2. CASE Audits \/ Reports \/ Compares \/ Lists \/ UNCHANGED readVars
  BY <1>1, <1>2 DEF Audits, Reports, Compares, Lists, readVars, liveVars
<1>3. CASE LedgerMoves \/ PublishEvent
  BY <1>1, <1>3 DEF LedgerMoves, PublishEvent
<1>4. CASE CommitOffset
  BY <1>4 DEF CommitOffset, StreamInv
<1>5. CASE RestartReporting
  <2>1. position' = committed /\ UNCHANGED committed /\ viewer' = [v \in Viewers |-> Away]
    BY <1>5 DEF RestartReporting
  <2> QED BY <2>1, AwayIsInStep DEF StreamInv
<1> QED BY <1>2, <1>3, <1>4, <1>5, HandleKeeps, ViewersKeep DEF ReadNext, Watches, LiveNext

LEMMA OrderShows == StreamInv => SafeSends /\ InTopicOrder
<1> SUFFICES ASSUME StreamInv, NEW v \in Viewers
             PROVE  /\ ~viewer[v].closed
                    /\ Increasing(<<viewer[v].last>> \o viewer[v].channel)
  BY DEF SafeSends, InTopicOrder
<1>1. InStep(viewer[v], position)
  BY DEF StreamInv
<1>2. PICK q : q = <<viewer[v].last>> \o viewer[v].channel
  OBVIOUS
<1>3. PICK c : c = viewer[v].channel
  OBVIOUS
<1>4. c \in Seq(Nat) /\ Len(c) \in Nat /\ viewer[v].last \in Nat /\ Ordered(viewer[v].last, c)
  BY <1>1, <1>3 DEF InStep
<1>5. /\ DOMAIN q = 1..(Len(c) + 1) /\ q[1] = viewer[v].last
      /\ \A i \in 1..Len(c) : q[i + 1] = c[i]
  BY <1>2, <1>3, <1>4
<1>6. ASSUME NEW i \in DOMAIN q, NEW j \in DOMAIN q, i < j PROVE q[i] < q[j]
  <2>1. PICK l : l = j - 1
    OBVIOUS
  <2>2. l \in 1..Len(c) /\ j = l + 1 /\ q[j] = c[l]
    BY <1>4, <1>5, <1>6, <2>1
  <2>3. CASE i = 1
    BY <1>4, <1>5, <2>2, <2>3 DEF Ordered
  <2>4. CASE i # 1
    <3>1. PICK k : k = i - 1
      OBVIOUS
    <3>2. k \in 1..Len(c) /\ i = k + 1 /\ q[i] = c[k] /\ k < l
      BY <1>4, <1>5, <1>6, <2>2, <2>4, <3>1
    <3> QED BY <1>4, <2>2, <3>2 DEF Ordered
  <2> QED BY <2>3, <2>4
<1>7. Increasing(q)
  BY <1>6 DEF Increasing
<1> QED BY <1>1, <1>2, <1>7 DEF InStep

-----------------------------------------------------------------------------
(***************************************************************************)
(* Sums.  What SumFunctionOnSet adds up does not depend on the order: by   *)
(* induction over the size of finite sets, written without operators as    *)
(* parameters, with a set for the property and Gather for the induction.   *)
(***************************************************************************)
LEMMA Least ==
  ASSUME NEW T \in SUBSET Nat, T # {}
  PROVE  \E x \in T : \A y \in T : x <= y
<1>1. PICK R : R = OpToRel(<, Nat)
  OBVIOUS
<1>2. IsWellFoundedOn(R, Nat)
  BY <1>1, NatLessThanWellFounded
<1>3. IsWellFoundedOn(R, T)
  BY <1>2, IsWellFoundedOnSubset
<1>4. PICK x \in T : \A y \in T : ~ (<<y, x>> \in R)
  BY <1>3, WFMin
<1>5. \A y, z \in Nat : y < z => <<y, z>> \in R
  BY <1>1 DEF OpToRel
<1>6. \A y \in T : ~(y < x)
  BY <1>4, <1>5
<1>7. \A y \in T : x <= y
  BY <1>6
<1> QED BY <1>7

\* Induction over the numbers, for a set of them.
LEMMA Climb ==
  ASSUME NEW T, 0 \in T, \A n \in Nat : n \in T => n + 1 \in T
  PROVE  Nat \subseteq T
<1> SUFFICES ASSUME ~(Nat \subseteq T) PROVE FALSE
  OBVIOUS
<1>1. PICK n \in Nat \ T : \A m \in Nat \ T : n <= m
  <2>1. Nat \ T \in SUBSET Nat /\ Nat \ T # {}
    OBVIOUS
  <2> QED BY <2>1, Least
<1>2. n # 0 /\ n - 1 \in Nat /\ n - 1 < n
  BY <1>1
<1>3. n - 1 \in T
  BY <1>1, <1>2
<1>4. (n - 1) + 1 \in T
  BY <1>2, <1>3
<1> QED BY <1>1, <1>4

\* Induction over the subsets of a finite set, for a set of them.
LEMMA Gather ==
  ASSUME NEW S, IsFiniteSet(S), NEW T, {} \in T,
         \A s \in SUBSET S : \A x \in S \ s : s \in T => s \union {x} \in T
  PROVE  SUBSET S \subseteq T
<1>1. PICK N : N = {n \in Nat : \A s \in SUBSET S : Cardinality(s) = n => s \in T}
  OBVIOUS
<1>2. \A s \in SUBSET S : IsFiniteSet(s) /\ Cardinality(s) \in Nat
  BY FS_Subset, FS_CardinalityType
<1>3. 0 \in N
  BY <1>1, <1>2, FS_EmptySet
<1>4. ASSUME NEW n \in Nat, n \in N PROVE n + 1 \in N
  <2>1. ASSUME NEW s \in SUBSET S, Cardinality(s) = n + 1 PROVE s \in T
    <3>1. s # {}
      <4>1. n + 1 # 0
        OBVIOUS
      <4> QED BY <2>1, <4>1, FS_EmptySet
    <3>2. PICK x \in s : TRUE
      BY <3>1
    <3>3. PICK t : t = s \ {x}
      OBVIOUS
    <3>4. t \in SUBSET S /\ x \in S \ t /\ s = t \union {x}
      BY <3>2, <3>3
    <3>5. Cardinality(t) = n
      <4>1. IsFiniteSet(s)
        BY <1>2
      <4>2. Cardinality(t) = Cardinality(s) - 1
        BY <3>2, <3>3, <4>1, FS_RemoveElement
      <4> QED BY <2>1, <4>2
    <3>6. t \in T
      BY <1>1, <1>4, <3>4, <3>5
    <3> QED BY <3>4, <3>6
  <2> QED BY <1>1, <2>1
<1>5. Nat \subseteq N
  BY <1>3, <1>4, Climb
<1> QED BY <1>1, <1>2, <1>5

-----------------------------------------------------------------------------
\* Which element a sum over s takes first, and what a sum by elements is.
FirstOf(s) == CHOOSE x \in s : TRUE
Adds(f, S, g) == g = [s \in SUBSET S |-> IF s = {} THEN 0 ELSE f[FirstOf(s)] + g[s \ {FirstOf(s)}]]
SumBy(f, S) == CHOOSE g : Adds(f, S, g)

LEMMA SumIs == ASSUME NEW f, NEW S PROVE SumFunctionOnSet(f, S) = SumBy(f, S)[S]
BY DEF SumBy, FirstOf, Adds, SumFunctionOnSet, FoldFunctionOnSet, MapThenFoldSet

LEMMA FirstIn == ASSUME NEW s, s # {} PROVE FirstOf(s) \in s
BY DEF FirstOf

\* There is such a function, built up by the size of the sets.
LEMMA SumExists ==
  ASSUME NEW S, IsFiniteSet(S), NEW f
  PROVE  Adds(f, S, SumBy(f, S))
<1> DEFINE Small(n) == {s \in SUBSET S : Cardinality(s) <= n}
           Partly(n, g) ==
             g = [s \in Small(n) |-> IF s = {} THEN 0 ELSE f[FirstOf(s)] + g[s \ {FirstOf(s)}]]
<1>1. \A s \in SUBSET S : IsFiniteSet(s) /\ Cardinality(s) \in Nat
  BY FS_Subset, FS_CardinalityType
<1>2. ASSUME NEW s \in SUBSET S, s # {}
      PROVE  s \ {FirstOf(s)} \in SUBSET S /\ Cardinality(s \ {FirstOf(s)}) = Cardinality(s) - 1
  BY <1>1, <1>2, FirstIn, FS_RemoveElement
<1>3. PICK N : N = {n \in Nat : \E g : Partly(n, g)}
  OBVIOUS
<1>4. 0 \in N
  <2>1. \A s \in Small(0) : s = {}
    BY <1>1, FS_EmptySet
  <2>2. PICK g : g = [s \in Small(0) |-> 0]
    OBVIOUS
  <2>3. Partly(0, g)
    BY <2>1, <2>2
  <2> QED BY <1>3, <2>3
<1>5. ASSUME NEW n \in Nat, n \in N PROVE n + 1 \in N
  <2>1. PICK g : Partly(n, g)
    BY <1>3, <1>5
  <2>2. PICK h : h = [s \in Small(n + 1) |-> IF s = {} THEN 0 ELSE f[FirstOf(s)] + g[s \ {FirstOf(s)}]]
    OBVIOUS
  <2>3. ASSUME NEW s \in Small(n) PROVE s \in Small(n + 1) /\ h[s] = g[s]
    <3>1. s \in Small(n + 1)
      BY <1>1
    <3>2. h[s] = IF s = {} THEN 0 ELSE f[FirstOf(s)] + g[s \ {FirstOf(s)}]
      BY <2>2, <3>1
    <3>3. g[s] = IF s = {} THEN 0 ELSE f[FirstOf(s)] + g[s \ {FirstOf(s)}]
      BY <2>1
    <3> QED BY <3>1, <3>2, <3>3
  <2>4. ASSUME NEW s \in Small(n + 1), s # {} PROVE s \ {FirstOf(s)} \in Small(n)
    BY <1>1, <1>2, <2>4
  <2>5. \A s \in Small(n + 1) : s # {} => g[s \ {FirstOf(s)}] = h[s \ {FirstOf(s)}]
    BY <2>3, <2>4
  <2>6. Partly(n + 1, h)
    BY <2>2, <2>5
  <2>7. n + 1 \in Nat
    OBVIOUS
  <2> HIDE DEF Partly
  <2> QED BY <1>3, <2>6, <2>7
<1>6. Cardinality(S) \in N
  BY <1>1, <1>4, <1>5, Climb
<1>7. Small(Cardinality(S)) = SUBSET S
  BY FS_Subset
<1>8. \E g : Adds(f, S, g)
  BY <1>3, <1>6, <1>7 DEF Adds
<1> QED BY <1>8 DEF SumBy

LEMMA SumAt ==
  ASSUME NEW S, IsFiniteSet(S), NEW f, NEW s \in SUBSET S
  PROVE  SumBy(f, S)[s] = IF s = {} THEN 0 ELSE f[FirstOf(s)] + SumBy(f, S)[s \ {FirstOf(s)}]
<1>1. PICK g : g = SumBy(f, S)
  OBVIOUS
<1>2. Adds(f, S, g)
  BY <1>1, SumExists
<1>3. g[s] = IF s = {} THEN 0 ELSE f[FirstOf(s)] + g[s \ {FirstOf(s)}]
  BY <1>2 DEF Adds
<1> QED BY <1>1, <1>3

\* A sum over part of a set does not depend on the rest of it.
LEMMA SumOfPart ==
  ASSUME NEW S, IsFiniteSet(S), NEW T \in SUBSET S, NEW f
  PROVE  SumFunctionOnSet(f, T) = SumBy(f, S)[T]
<1>1. \A s \in SUBSET S : IsFiniteSet(s) /\ Cardinality(s) \in Nat
  BY FS_Subset, FS_CardinalityType
<1>2. PICK g : g = SumBy(f, S)
  OBVIOUS
<1>3. PICK h : h = SumBy(f, T)
  OBVIOUS
<1>4. \A s \in SUBSET S : g[s] = IF s = {} THEN 0 ELSE f[FirstOf(s)] + g[s \ {FirstOf(s)}]
  BY <1>2, SumAt
<1>5. \A s \in SUBSET T : h[s] = IF s = {} THEN 0 ELSE f[FirstOf(s)] + h[s \ {FirstOf(s)}]
  <2>1. IsFiniteSet(T)
    BY <1>1
  <2> QED BY <1>3, <2>1, SumAt
<1>6. PICK N : N = {n \in Nat : \A s \in SUBSET T : Cardinality(s) = n => g[s] = h[s]}
  OBVIOUS
<1>7. 0 \in N
  BY <1>1, <1>4, <1>5, <1>6, FS_EmptySet
<1>8. ASSUME NEW n \in Nat, n \in N PROVE n + 1 \in N
  <2>1. ASSUME NEW s \in SUBSET T, Cardinality(s) = n + 1 PROVE g[s] = h[s]
    <3>1. s # {}
      <4>1. n + 1 # 0
        OBVIOUS
      <4> QED BY <2>1, <4>1, FS_EmptySet
    <3>2. FirstOf(s) \in s /\ s \ {FirstOf(s)} \in SUBSET T
      BY <3>1, FirstIn
    <3>3. Cardinality(s \ {FirstOf(s)}) = n
      <4>1. IsFiniteSet(s)
        BY <1>1
      <4>2. Cardinality(s \ {FirstOf(s)}) = Cardinality(s) - 1
        BY <3>2, <4>1, FS_RemoveElement
      <4> QED BY <2>1, <4>2
    <3>4. g[s \ {FirstOf(s)}] = h[s \ {FirstOf(s)}]
      BY <1>6, <1>8, <3>2, <3>3
    <3>5. g[s] = f[FirstOf(s)] + g[s \ {FirstOf(s)}] /\ h[s] = f[FirstOf(s)] + h[s \ {FirstOf(s)}]
      BY <1>4, <1>5, <3>1
    <3> QED BY <3>4, <3>5
  <2>2. n + 1 \in Nat
    OBVIOUS
  <2> QED BY <1>6, <2>1, <2>2
<1>9. Cardinality(T) \in N
  BY <1>1, <1>7, <1>8, Climb
<1>10. g[T] = h[T]
  BY <1>6, <1>9
<1> QED BY <1>2, <1>3, <1>10, SumIs

LEMMA SumFirst ==
  ASSUME NEW S, IsFiniteSet(S), NEW f
  PROVE  /\ SumFunctionOnSet(f, {}) = 0
         /\ S # {} => SumFunctionOnSet(f, S) = f[FirstOf(S)] + SumFunctionOnSet(f, S \ {FirstOf(S)})
<1>1. PICK g : g = SumBy(f, S)
  OBVIOUS
<1>2. \A s \in SUBSET S : g[s] = IF s = {} THEN 0 ELSE f[FirstOf(s)] + g[s \ {FirstOf(s)}]
  BY <1>1, SumAt
<1>3. \A s \in SUBSET S : SumFunctionOnSet(f, s) = g[s]
  BY <1>1, SumOfPart
<1>4. {} \in SUBSET S /\ S \in SUBSET S /\ S \ {FirstOf(S)} \in SUBSET S
  OBVIOUS
<1> QED BY <1>2, <1>3, <1>4

\* Nor on the order: any element may be taken first.
LEMMA SumOfAny ==
  ASSUME NEW S, IsFiniteSet(S), NEW f, \A x \in S : f[x] \in Int
  PROVE  /\ SumFunctionOnSet(f, S) \in Int
         /\ \A x \in S : /\ SumFunctionOnSet(f, S \ {x}) \in Int
                         /\ SumFunctionOnSet(f, S) = f[x] + SumFunctionOnSet(f, S \ {x})
<1> DEFINE Sum(s) == SumFunctionOnSet(f, s)
           Takes(s) == /\ Sum(s) \in Int
                       /\ \A x \in s : Sum(s \ {x}) \in Int /\ Sum(s) = f[x] + Sum(s \ {x})
<1>1. \A s \in SUBSET S : IsFiniteSet(s) /\ Cardinality(s) \in Nat
  BY FS_Subset, FS_CardinalityType
<1>2. PICK N : N = {n \in Nat : \A s \in SUBSET S : Cardinality(s) = n => Takes(s)}
  OBVIOUS
<1>3. Takes({})
  <2>1. Sum({}) = 0
    BY SumFirst
  <2> HIDE DEF Sum
  <2> QED BY <2>1
<1>4. ASSUME NEW n \in Nat, n \in N PROVE n + 1 \in N
  <2>1. ASSUME NEW s \in SUBSET S, Cardinality(s) = n + 1 PROVE Takes(s)
    <3>1. s # {}
      <4>1. n + 1 # 0
        OBVIOUS
      <4> QED BY <2>1, <4>1, FS_EmptySet
    <3>2. PICK c \in s : Sum(s) = f[c] + Sum(s \ {c})
      BY <1>1, <3>1, FirstIn, SumFirst
    <3>3. ASSUME NEW x \in s PROVE s \ {x} \in SUBSET S /\ Takes(s \ {x})
      <4>1. IsFiniteSet(s)
        BY <1>1
      <4>2. Cardinality(s \ {x}) = Cardinality(s) - 1
        BY <4>1, FS_RemoveElement
      <4>3. Cardinality(s \ {x}) = n
        BY <2>1, <4>2
      <4>4. s \ {x} \in SUBSET S
        OBVIOUS
      <4> HIDE DEF Takes
      <4> QED BY <1>2, <1>4, <4>3, <4>4
    <3> HIDE DEF Sum
    <3>4. \A x \in s : f[x] \in Int
      OBVIOUS
    <3>5. Sum(s) \in Int /\ Sum(s \ {c}) \in Int
      BY <3>2, <3>3, <3>4
    <3>6. ASSUME NEW x \in s PROVE Sum(s \ {x}) \in Int /\ Sum(s) = f[x] + Sum(s \ {x})
      <4>1. CASE x = c
        BY <3>2, <3>5, <4>1
      <4>2. CASE x # c
        <5>1. PICK t : t = (s \ {c}) \ {x}
          OBVIOUS
        <5>2. t = (s \ {x}) \ {c} /\ x \in s \ {c} /\ c \in s \ {x}
          BY <4>2, <5>1
        <5>3. Sum(t) \in Int /\ Sum(s \ {c}) = f[x] + Sum(t)
          BY <3>3, <5>1, <5>2
        <5>4. Sum(s \ {x}) \in Int /\ Sum(s \ {x}) = f[c] + Sum(t)
          BY <3>3, <5>2
        <5>5. f[x] \in Int /\ f[c] \in Int
          BY <3>4
        <5> QED BY <3>2, <5>3, <5>4, <5>5
      <4> QED BY <4>1, <4>2
    <3> QED BY <3>5, <3>6
  <2>2. n + 1 \in Nat
    OBVIOUS
  <2> HIDE DEF Takes
  <2> QED BY <1>2, <2>1, <2>2
<1>5. 0 \in N
  <2>1. \A s \in SUBSET S : Cardinality(s) = 0 => s = {}
    BY <1>1, FS_EmptySet
  <2> HIDE DEF Takes
  <2> QED BY <1>2, <1>3, <2>1
<1>6. Cardinality(S) \in N /\ S \in SUBSET S
  BY <1>1, <1>4, <1>5, Climb
<1>7. Takes(S)
  <2> HIDE DEF Takes
  <2> QED BY <1>2, <1>6
<1> QED BY <1>7

LEMMA SumAdds ==
  ASSUME NEW S, IsFiniteSet(S), NEW x, x \notin S, NEW f,
         f[x] \in Int, \A y \in S : f[y] \in Int
  PROVE  /\ SumFunctionOnSet(f, S) \in Int
         /\ SumFunctionOnSet(f, S \union {x}) = f[x] + SumFunctionOnSet(f, S)
<1>1. PICK T : T = S \union {x}
  OBVIOUS
<1>2. IsFiniteSet(T) /\ S = T \ {x} /\ x \in T /\ \A y \in T : f[y] \in Int
  BY <1>1, FS_AddElement
<1>3. SumFunctionOnSet(f, T) = f[x] + SumFunctionOnSet(f, T \ {x})
  BY <1>2, SumOfAny
<1>4. SumFunctionOnSet(f, S) \in Int
  BY SumOfAny
<1> QED BY <1>1, <1>2, <1>3, <1>4

\* A sum is at most another where each element is, and where none counts beside them.
LEMMA SumLess ==
  ASSUME NEW S, IsFiniteSet(S), NEW T \in SUBSET S, NEW f, NEW g,
         \A x \in S : f[x] \in Int,
         \A x \in T : g[x] \in Int /\ f[x] <= g[x],
         \A x \in S \ T : f[x] <= 0
  PROVE  /\ SumFunctionOnSet(f, S) \in Int /\ SumFunctionOnSet(g, T) \in Int
         /\ SumFunctionOnSet(f, S) <= SumFunctionOnSet(g, T)
<1> DEFINE F(s) == SumFunctionOnSet(f, s)
           G(s) == SumFunctionOnSet(g, s)
<1>1. PICK P : P = {s \in SUBSET S : F(s) \in Int /\ G(s \intersect T) \in Int
                                     /\ F(s) <= G(s \intersect T)}
  OBVIOUS
<1>2. {} \in P
  <2>1. F({}) = 0 /\ G({}) = 0
    BY SumFirst
  <2>2. {} \in SUBSET S /\ {} \intersect T = {}
    OBVIOUS
  <2> HIDE DEF F, G
  <2> QED BY <1>1, <2>1, <2>2
<1>3. ASSUME NEW s \in SUBSET S, NEW x \in S \ s, s \in P PROVE s \union {x} \in P
  <2>1. IsFiniteSet(s) /\ IsFiniteSet(s \intersect T)
    BY FS_Subset, FS_Intersection
  <2>2. F(s \union {x}) = f[x] + F(s)
    <3>1. x \notin s /\ f[x] \in Int /\ \A y \in s : f[y] \in Int
      OBVIOUS
    <3> QED BY <2>1, <3>1, SumAdds
  <2>3. F(s) \in Int /\ G(s \intersect T) \in Int /\ F(s) <= G(s \intersect T)
    BY <1>1, <1>3
  <2>4. s \union {x} \in SUBSET S /\ f[x] \in Int
    OBVIOUS
  <2>5. CASE x \in T
    <3>1. (s \union {x}) \intersect T = (s \intersect T) \union {x}
      BY <2>5
    <3>2. \A y \in s \intersect T : g[y] \in Int
      OBVIOUS
    <3>3. x \notin s \intersect T /\ g[x] \in Int /\ f[x] <= g[x]
      BY <2>5
    <3>4. G((s \intersect T) \union {x}) = g[x] + G(s \intersect T)
      BY <2>1, <3>2, <3>3, SumAdds
    <3> HIDE DEF F, G
    <3> QED BY <1>1, <2>2, <2>3, <2>4, <3>1, <3>3, <3>4
  <2>6. CASE x \notin T
    <3>1. (s \union {x}) \intersect T = s \intersect T
      BY <2>6
    <3>2. f[x] <= 0
      BY <2>6
    <3> HIDE DEF F, G
    <3> QED BY <1>1, <2>2, <2>3, <2>4, <3>1, <3>2
  <2> QED BY <2>5, <2>6
<1>4. S \in P
  BY <1>2, <1>3, Gather
<1>5. S \intersect T = T
  OBVIOUS
<1> QED BY <1>1, <1>4, <1>5

\* A sum of what counts grows with its set.
LEMMA SumGrows ==
  ASSUME NEW S, IsFiniteSet(S), NEW T \in SUBSET S, NEW f, \A x \in S : f[x] \in Nat
  PROVE  /\ SumFunctionOnSet(f, S) \in Nat /\ SumFunctionOnSet(f, T) \in Nat
         /\ SumFunctionOnSet(f, T) <= SumFunctionOnSet(f, S)
<1> DEFINE F(s) == SumFunctionOnSet(f, s)
<1>1. PICK P : P = {s \in SUBSET S : F(s) \in Nat /\ F(s \intersect T) \in Nat
                                     /\ F(s \intersect T) <= F(s)}
  OBVIOUS
<1>2. {} \in P
  <2>1. F({}) = 0
    BY SumFirst
  <2>2. {} \in SUBSET S /\ {} \intersect T = {}
    OBVIOUS
  <2> HIDE DEF F
  <2> QED BY <1>1, <2>1, <2>2
<1>3. ASSUME NEW s \in SUBSET S, NEW x \in S \ s, s \in P PROVE s \union {x} \in P
  <2>1. IsFiniteSet(s) /\ IsFiniteSet(s \intersect T)
    BY FS_Subset, FS_Intersection
  <2>2. F(s \union {x}) = f[x] + F(s)
    <3>1. x \notin s /\ f[x] \in Int /\ \A y \in s : f[y] \in Int
      OBVIOUS
    <3> QED BY <2>1, <3>1, SumAdds
  <2>3. F(s) \in Nat /\ F(s \intersect T) \in Nat /\ F(s \intersect T) <= F(s)
    BY <1>1, <1>3
  <2>4. s \union {x} \in SUBSET S /\ f[x] \in Nat
    OBVIOUS
  <2>5. CASE x \in T
    <3>1. (s \union {x}) \intersect T = (s \intersect T) \union {x}
      BY <2>5
    <3>2. x \notin s \intersect T /\ f[x] \in Int /\ \A y \in s \intersect T : f[y] \in Int
      OBVIOUS
    <3>3. F((s \intersect T) \union {x}) = f[x] + F(s \intersect T)
      BY <2>1, <3>2, SumAdds
    <3> HIDE DEF F
    <3> QED BY <1>1, <2>2, <2>3, <2>4, <3>1, <3>3
  <2>6. CASE x \notin T
    <3>1. (s \union {x}) \intersect T = s \intersect T
      BY <2>6
    <3> HIDE DEF F
    <3> QED BY <1>1, <2>2, <2>3, <2>4, <3>1
  <2> QED BY <2>5, <2>6
<1>4. S \in P
  BY <1>2, <1>3, Gather
<1>5. S \intersect T = T
  OBVIOUS
<1> QED BY <1>1, <1>4, <1>5

\* Sums over sets that are apart.
LEMMA SumOfBoth ==
  ASSUME NEW S, IsFiniteSet(S), NEW T, IsFiniteSet(T), S \intersect T = {}, NEW f,
         \A x \in S \union T : f[x] \in Int
  PROVE  /\ SumFunctionOnSet(f, S) \in Int /\ SumFunctionOnSet(f, T) \in Int
         /\ SumFunctionOnSet(f, S \union T) = SumFunctionOnSet(f, S) + SumFunctionOnSet(f, T)
<1> DEFINE F(s) == SumFunctionOnSet(f, s)
<1>1. PICK P : P = {s \in SUBSET S : F(s) \in Int /\ F(s \union T) = F(s) + F(T)}
  OBVIOUS
<1>2. F(T) \in Int
  BY SumOfAny
<1>3. {} \in P
  <2>1. F({}) = 0
    BY SumFirst
  <2>2. {} \in SUBSET S /\ {} \union T = T
    OBVIOUS
  <2> HIDE DEF F
  <2> QED BY <1>1, <1>2, <2>1, <2>2
<1>4. ASSUME NEW s \in SUBSET S, NEW x \in S \ s, s \in P PROVE s \union {x} \in P
  <2>1. IsFiniteSet(s) /\ IsFiniteSet(s \union T)
    BY FS_Subset, FS_Union
  <2>2. F(s \union {x}) = f[x] + F(s)
    <3>1. x \notin s /\ f[x] \in Int /\ \A y \in s : f[y] \in Int
      OBVIOUS
    <3> QED BY <2>1, <3>1, SumAdds
  <2>3. x \notin s \union T /\ \A y \in s \union T : f[y] \in Int
    OBVIOUS
  <2>4. F((s \union T) \union {x}) = f[x] + F(s \union T)
    BY <2>1, <2>3, SumAdds
  <2>5. (s \union T) \union {x} = (s \union {x}) \union T /\ s \union {x} \in SUBSET S
        /\ f[x] \in Int
    OBVIOUS
  <2>6. F(s) \in Int /\ F(s \union T) = F(s) + F(T)
    BY <1>1, <1>4
  <2> HIDE DEF F
  <2>7. F((s \union {x}) \union T) = f[x] + F(s \union T)
    BY <2>4, <2>5
  <2>8. PICK a \in Int, b \in Int, c \in Int : a = f[x] /\ b = F(s) /\ c = F(T)
    BY <1>2, <2>5, <2>6
  <2>9. F(s \union {x}) = a + b /\ F(s \union T) = b + c
    BY <2>2, <2>6, <2>8
  <2>10. F((s \union {x}) \union T) = a + (b + c)
    BY <2>7, <2>8, <2>9
  <2>11. a + (b + c) = (a + b) + c /\ a + b \in Int
    OBVIOUS
  <2>12. F(s \union {x}) \in Int /\ F((s \union {x}) \union T) = F(s \union {x}) + F(T)
    BY <2>8, <2>9, <2>10, <2>11
  <2> QED BY <1>1, <2>5, <2>12
<1>5. S \in P
  BY <1>3, <1>4, Gather
<1> QED BY <1>1, <1>2, <1>5

\* Only what is summed counts.
LEMMA SumSame ==
  ASSUME NEW S, IsFiniteSet(S), NEW f, NEW g, \A x \in S : f[x] \in Int /\ g[x] = f[x]
  PROVE  SumFunctionOnSet(f, S) = SumFunctionOnSet(g, S)
<1>1. S \in SUBSET S
  OBVIOUS
<1>2. /\ SumFunctionOnSet(f, S) \in Int /\ SumFunctionOnSet(g, S) \in Int
      /\ SumFunctionOnSet(f, S) <= SumFunctionOnSet(g, S)
  BY <1>1, SumLess
<1>3. SumFunctionOnSet(g, S) <= SumFunctionOnSet(f, S)
  BY <1>1, SumLess
<1> QED BY <1>2, <1>3

-----------------------------------------------------------------------------
(***************************************************************************)
(* The money of the live view.  What the messages of the topic and those   *)
(* that are still to be published add up to is in the books; a viewer has  *)
(* added up some of the first, and each at most once.                      *)
(***************************************************************************)
Messages == [record : Records, write : Nat, delta : Nat]
DeltaOf  == [m \in Messages |-> m.delta]

\* What messages say has been recovered.
Says(messages) == SumFunctionOnSet(DeltaOf, messages)

\* What the messages of a topic say, one by one.
Deltas(s) == [i \in DOMAIN s |-> s[i].delta]

\* Viewer x has added up no more than the messages it is past, of deltas d.
AddsUp(x, d) == x.total \in Nat /\ x.total <= SumFunctionOnSet(d, 1..x.last)

BooksInv ==
  /\ state \in [Records -> RestStates]
  /\ writes \in [Watched -> Nat]
  /\ unsent \subseteq Messages /\ IsFiniteSet(unsent)
  /\ topic \in Seq(Messages)
  /\ position <= Len(topic) /\ committed <= Len(topic)
  /\ SumFunctionOnSet(Deltas(topic), 1..Len(topic)) + Says(unsent) <= AmountOf(Recovered)
  /\ \A v \in Viewers : AddsUp(viewer[v], Deltas(topic))

MoneyInv ==
  /\ StreamInv
  /\ view = "live" => BooksInv
  /\ view # "live" => viewer = [v \in Viewers |-> Away]

-----------------------------------------------------------------------------
\* A recovery adds its amount to the books, once.
LEMMA RecoveryCounts ==
  ASSUME LedgerAssumption, state \in [Records -> RestStates], NEW r \in Records, NEW s,
         state[r] # "RECOVERED", state' = [state EXCEPT ![r] = s]
  PROVE  /\ AmountOf(Recovered) \in Nat
         /\ RecoveredDelta(r, s) \in Nat
         /\ AmountOf(Recovered') = AmountOf(Recovered) + RecoveredDelta(r, s)
<1>1. IsFiniteSet(Records) /\ Recovered \in SUBSET Records /\ r \notin Recovered
  BY DEF LedgerAssumption, Recovered
<1>2. IsFiniteSet(Recovered)
  BY <1>1, FS_Subset
<1>3. Amount[r] \in Nat /\ \A q \in Records : Amount[q] \in Nat
  BY DEF LedgerAssumption
<1>4. AmountOf(Recovered) \in Nat
  BY <1>1, <1>3, SumGrows DEF AmountOf
<1>5. CASE s = "RECOVERED"
  <2>1. Recovered' = Recovered \union {r}
    BY <1>5 DEF Recovered
  <2>2. SumFunctionOnSet(Amount, Recovered \union {r}) = Amount[r] + SumFunctionOnSet(Amount, Recovered)
    <3>1. Amount[r] \in Int /\ \A q \in Recovered : Amount[q] \in Int
      BY <1>1, <1>3
    <3> QED BY <1>1, <1>2, <3>1, SumAdds
  <2>3. RecoveredDelta(r, s) = Amount[r]
    BY <1>5 DEF RecoveredDelta
  <2> QED BY <1>3, <1>4, <2>1, <2>2, <2>3 DEF AmountOf
<1>6. CASE s # "RECOVERED"
  <2>1. Recovered' = Recovered
    BY <1>6 DEF Recovered
  <2>2. RecoveredDelta(r, s) = 0
    BY <1>6 DEF RecoveredDelta
  <2> QED BY <1>4, <2>1, <2>2
<1> QED BY <1>5, <1>6

\* One message more or less among those to be published.
LEMMA SaysMore ==
  ASSUME NEW U \in SUBSET Messages, IsFiniteSet(U), NEW e \in Messages
  PROVE  /\ IsFiniteSet(U \union {e}) /\ Says(U) \in Nat /\ Says(U \union {e}) \in Nat
         /\ Says(U \union {e}) <= Says(U) + e.delta
<1>1. \A m \in Messages : DeltaOf[m] \in Nat /\ DeltaOf[m] = m.delta
  BY DEF DeltaOf, Messages
<1>2. IsFiniteSet(U \union {e})
  BY FS_AddElement
<1>3. /\ Says(U) \in Nat /\ Says(U \union {e}) \in Nat
  <2>1. U \in SUBSET (U \union {e}) /\ \A x \in U \union {e} : DeltaOf[x] \in Nat
    BY <1>1
  <2> QED BY <1>2, <2>1, SumGrows DEF Says
<1>4. CASE e \in U
  <2>1. U \union {e} = U
    BY <1>4
  <2>2. e.delta \in Nat /\ Says(U \union {e}) = Says(U)
    BY <2>1 DEF Messages
  <2> QED BY <1>2, <1>3, <2>2
<1>5. CASE e \notin U
  <2>1. DeltaOf[e] \in Int /\ \A x \in U : DeltaOf[x] \in Int
    BY <1>1
  <2>2. Says(U \union {e}) = DeltaOf[e] + Says(U)
    BY <1>5, <2>1, SumAdds DEF Says
  <2> QED BY <1>1, <1>2, <1>3, <2>2
<1> QED BY <1>4, <1>5

LEMMA SaysLess ==
  ASSUME NEW U \in SUBSET Messages, IsFiniteSet(U), NEW e \in U
  PROVE  /\ IsFiniteSet(U \ {e}) /\ Says(U) \in Nat /\ Says(U \ {e}) \in Nat
         /\ Says(U) = Says(U \ {e}) + e.delta
<1>1. \A m \in Messages : DeltaOf[m] \in Nat /\ DeltaOf[m] = m.delta
  BY DEF DeltaOf, Messages
<1>2. IsFiniteSet(U \ {e}) /\ U \ {e} \in SUBSET U /\ \A x \in U : DeltaOf[x] \in Nat
  BY <1>1, FS_RemoveElement
<1>3. Says(U) \in Nat /\ Says(U \ {e}) \in Nat
  BY <1>2, SumGrows DEF Says
<1>4. \A x \in U : DeltaOf[x] \in Int
  BY <1>2
<1>5. Says(U) = DeltaOf[e] + Says(U \ {e})
  BY <1>4, SumOfAny DEF Says
<1>6. e \in Messages /\ DeltaOf[e] = e.delta /\ e.delta \in Nat
  BY <1>1 DEF Messages
<1> QED BY <1>2, <1>3, <1>5, <1>6

-----------------------------------------------------------------------------
\* What the topic adds up to, up to one of its messages.
LEMMA TopicAddsUp ==
  ASSUME NEW s \in Seq(Messages), NEW n \in 0..Len(s)
  PROVE  SumFunctionOnSet(Deltas(s), 1..n) \in Nat /\ IsFiniteSet(1..n)
<1>1. Len(s) \in Nat /\ n \in Int
  OBVIOUS
<1>2. IsFiniteSet(1..n)
  BY <1>1, FS_Interval
<1>3. ASSUME NEW i \in 1..n PROVE Deltas(s)[i] \in Nat
  <2>1. i \in DOMAIN s /\ s[i] \in Messages
    BY <1>1
  <2>2. Deltas(s)[i] = s[i].delta
    BY <2>1 DEF Deltas
  <2> QED BY <2>1, <2>2 DEF Messages
<1>4. 1..n \in SUBSET (1..n)
  OBVIOUS
<1> QED BY <1>2, <1>3, <1>4, SumGrows

\* One more element of a sum.
LEMMA SumGoesOn ==
  ASSUME NEW n \in Nat, NEW d, NEW f, f[n + 1] \in Int,
         \A i \in 1..n : d[i] \in Int /\ f[i] = d[i]
  PROVE  /\ \A k \in 0..n : SumFunctionOnSet(f, 1..k) = SumFunctionOnSet(d, 1..k)
         /\ SumFunctionOnSet(f, 1..(n + 1)) = f[n + 1] + SumFunctionOnSet(d, 1..n)
<1>1. ASSUME NEW k \in 0..n PROVE SumFunctionOnSet(f, 1..k) = SumFunctionOnSet(d, 1..k)
  <2>1. IsFiniteSet(1..k)
    BY FS_Interval
  <2>2. \A i \in 1..k : d[i] \in Int /\ f[i] = d[i]
    OBVIOUS
  <2> QED BY <2>1, <2>2, SumSame
<1>2. IsFiniteSet(1..n) /\ n + 1 \notin 1..n
  BY FS_Interval
<1>3. f[n + 1] \in Int /\ \A i \in 1..n : f[i] \in Int
  OBVIOUS
<1>4. SumFunctionOnSet(f, (1..n) \union {n + 1}) = f[n + 1] + SumFunctionOnSet(f, 1..n)
  BY <1>2, <1>3, SumAdds
<1>5. (1..n) \union {n + 1} = 1..(n + 1) /\ n \in 0..n
  OBVIOUS
<1> QED BY <1>1, <1>4, <1>5

\* One more message on the topic.
LEMMA TopicGrows ==
  ASSUME NEW s \in Seq(Messages), NEW e \in Messages
  PROVE  /\ \A n \in 0..Len(s) :
              SumFunctionOnSet(Deltas(Append(s, e)), 1..n) = SumFunctionOnSet(Deltas(s), 1..n)
         /\ SumFunctionOnSet(Deltas(Append(s, e)), 1..(Len(s) + 1))
              = e.delta + SumFunctionOnSet(Deltas(s), 1..Len(s))
<1>1. PICK t : t = Append(s, e)
  OBVIOUS
<1>2. /\ t \in Seq(Messages) /\ Len(t) = Len(s) + 1 /\ Len(s) \in Nat /\ t[Len(s) + 1] = e
      /\ \A i \in 1..Len(s) : t[i] = s[i]
  BY <1>1
<1>3. DOMAIN t = 1..(Len(s) + 1) /\ DOMAIN s = 1..Len(s)
  BY <1>2
<1>10. PICK d : d = Deltas(s)
  OBVIOUS
<1>11. PICK f : f = Deltas(t)
  OBVIOUS
<1>4. \A i \in 1..(Len(s) + 1) : f[i] = t[i].delta
  BY <1>3, <1>11 DEF Deltas
<1>5. ASSUME NEW i \in 1..Len(s) PROVE d[i] \in Int /\ f[i] = d[i]
  <2>1. d[i] = s[i].delta
    BY <1>3, <1>10 DEF Deltas
  <2>2. s[i] \in Messages /\ i \in 1..(Len(s) + 1) /\ t[i] = s[i]
    BY <1>2, <1>3
  <2>3. f[i] = t[i].delta
    BY <1>4, <2>2
  <2> QED BY <2>1, <2>2, <2>3 DEF Messages
<1>6. f[Len(s) + 1] = e.delta /\ e.delta \in Int
  <2>1. Len(s) + 1 \in 1..(Len(s) + 1)
    BY <1>2
  <2> QED BY <1>2, <1>4, <2>1 DEF Messages
<1>7. /\ \A k \in 0..Len(s) : SumFunctionOnSet(f, 1..k) = SumFunctionOnSet(d, 1..k)
      /\ SumFunctionOnSet(f, 1..(Len(s) + 1)) = f[Len(s) + 1] + SumFunctionOnSet(d, 1..Len(s))
  BY <1>2, <1>5, <1>6, SumGoesOn
<1> QED BY <1>1, <1>6, <1>7, <1>10, <1>11

-----------------------------------------------------------------------------
\* A record that moves was not recovered before.
LEMMA OnlyOnce ==
  ASSUME state \in [Records -> RestStates], NEW r \in Records,
         Intake(r) \/ Account(r) \/ Answer(r) \/ Claim({r})
  PROVE  /\ state[r] # "RECOVERED" /\ state'[r] \in RestStates \ {"NEW"}
         /\ state' = [state EXCEPT ![r] = state'[r]]
         /\ Claim({r}) => RecoveredDelta(r, state'[r]) = 0
<1>1. CASE Intake(r)
  <2>1. PICK s \in Routed : state' = [state EXCEPT ![r] = s]
    BY <1>1 DEF Intake
  <2>2. state[r] = "NEW" /\ s \in RestStates /\ s # "NEW"
    BY <1>1 DEF Intake, Routed, RestStates, Terminal, Waiting
  <2> QED BY <1>1, <2>1, <2>2 DEF Claim, Intake, Waiting
<1>2. CASE Account(r)
  <2>1. state[r] \in {"RETRYING", "NUDGED"}
    BY <1>2 DEF Account, Claimed
  <2>2. CASE UNCHANGED state
    BY <2>1, <2>2 DEF Claim, Waiting
  <2>3. CASE \E s \in Routed \union {"RECOVERED"} : state' = [state EXCEPT ![r] = s]
    <3>1. PICK s \in Routed \union {"RECOVERED"} : state' = [state EXCEPT ![r] = s]
      BY <2>3
    <3>2. s \in RestStates /\ s # "NEW"
      BY DEF Routed, RestStates, Terminal, Waiting
    <3> QED BY <2>1, <3>1, <3>2 DEF Claim, Waiting
  <2> QED BY <1>2, <2>2, <2>3 DEF Account
<1>3. CASE Answer(r)
  <2>1. PICK s \in Routed \union {"RECOVERED"} : state' = [state EXCEPT ![r] = s]
    BY <1>3 DEF Answer
  <2>2. state[r] = "NUDGED" /\ s \in RestStates /\ s # "NEW"
    BY <1>3 DEF Answer, Routed, RestStates, Terminal, Waiting
  <2> QED BY <2>1, <2>2 DEF Claim, Waiting
<1>4. CASE Claim({r})
  <2>1. PICK s : s = IF state[r] = "RETRY_SCHEDULED" THEN "RETRYING" ELSE "NUDGED"
    OBVIOUS
  <2>2. state[r] \in Waiting /\ s \in RestStates /\ s # "RECOVERED" /\ s # "NEW"
    BY <1>4, <2>1 DEF Claim, RestStates, Claimed
  <2>3. state' = [state EXCEPT ![r] = s]
    BY <1>4, <2>1 DEF Claim
  <2> QED BY <2>2, <2>3 DEF Waiting, RecoveredDelta
<1> QED BY <1>1, <1>2, <1>3, <1>4

\* Where only the books and the messages to be published change.
LEMMA BooksFollow ==
  ASSUME BooksInv, NEW gain \in Nat, NEW more \in Nat, more <= gain,
         AmountOf(Recovered) \in Nat, AmountOf(Recovered') = AmountOf(Recovered) + gain,
         Says(unsent) \in Nat, Says(unsent') \in Nat, Says(unsent') <= Says(unsent) + more,
         state' \in [Records -> RestStates], writes' \in [Watched -> Nat],
         unsent' \subseteq Messages, IsFiniteSet(unsent'),
         UNCHANGED <<topic, position, committed, viewer>>
  PROVE  BooksInv'
<1>1. Deltas(topic') = Deltas(topic)
  OBVIOUS
<1>2. SumFunctionOnSet(Deltas(topic), 1..Len(topic)) \in Nat
  <2>1. topic \in Seq(Messages)
    BY DEF BooksInv
  <2>2. Len(topic) \in 0..Len(topic)
    BY <2>1
  <2> QED BY <2>1, <2>2, TopicAddsUp
<1>3. SumFunctionOnSet(Deltas(topic), 1..Len(topic)) + Says(unsent) <= AmountOf(Recovered)
  BY DEF BooksInv
<1>4. SumFunctionOnSet(Deltas(topic), 1..Len(topic)) + Says(unsent') <= AmountOf(Recovered')
  BY <1>2, <1>3
<1>5. /\ topic \in Seq(Messages) /\ position <= Len(topic) /\ committed <= Len(topic)
      /\ \A v \in Viewers : AddsUp(viewer[v], Deltas(topic))
  BY DEF BooksInv
<1>6. \A v \in Viewers : AddsUp(viewer'[v], Deltas(topic'))
  BY <1>1, <1>5
<1>7. SumFunctionOnSet(Deltas(topic'), 1..Len(topic')) + Says(unsent') <= AmountOf(Recovered')
  BY <1>1, <1>4
<1>8. topic' \in Seq(Messages) /\ position' <= Len(topic') /\ committed' <= Len(topic')
  BY <1>5
<1> QED BY <1>6, <1>7, <1>8 DEF BooksInv

LEMMA MovesBooks ==
  ASSUME LedgerAssumption, LiveAssumption, BooksInv, LedgerMoves
  PROVE  BooksInv'
<1>1. PICK r \in Watched :
        /\ writes' = [writes EXCEPT ![r] = @ + 1]
        /\ \/ /\ Intake(r) \/ Account(r) \/ Answer(r)
              /\ unsent' = unsent \union
                   {[record |-> r, write |-> writes'[r], delta |-> RecoveredDelta(r, state'[r])]}
           \/ Claim({r}) /\ UNCHANGED unsent
  BY DEF LedgerMoves
<1>2. r \in Records
  BY DEF LiveAssumption
<1>3. state \in [Records -> RestStates] /\ unsent \in SUBSET Messages /\ IsFiniteSet(unsent)
      /\ writes \in [Watched -> Nat]
  BY DEF BooksInv
<1>4. /\ state[r] # "RECOVERED" /\ state'[r] \in RestStates
      /\ state' = [state EXCEPT ![r] = state'[r]]
      /\ Claim({r}) => RecoveredDelta(r, state'[r]) = 0
  BY <1>1, <1>2, <1>3, OnlyOnce
<1>5. PICK s : s = state'[r]
  OBVIOUS
<1>6. PICK gain : gain = RecoveredDelta(r, s)
  OBVIOUS
<1>7. /\ AmountOf(Recovered) \in Nat /\ gain \in Nat
      /\ AmountOf(Recovered') = AmountOf(Recovered) + gain
  <2>1. state' = [state EXCEPT ![r] = s]
    BY <1>4, <1>5
  <2>2. RecoveredDelta(r, s) \in Nat /\ AmountOf(Recovered) \in Nat
        /\ AmountOf(Recovered') = AmountOf(Recovered) + RecoveredDelta(r, s)
    BY <1>2, <1>3, <1>4, <2>1, RecoveryCounts
  <2> QED BY <1>6, <2>2
<1>8. state' \in [Records -> RestStates] /\ writes' \in [Watched -> Nat] /\ writes'[r] \in Nat
  BY <1>1, <1>3, <1>4
<1>9. UNCHANGED <<topic, position, committed, viewer>>
  BY DEF LedgerMoves
<1>10. CASE Claim({r}) /\ UNCHANGED unsent
  <2>1. Says(unsent) \in Nat
    <3>1. \A m \in unsent : DeltaOf[m] \in Nat
      BY <1>3 DEF DeltaOf, Messages
    <3> QED BY <1>3, <3>1, SumGrows DEF Says
  <2>2. gain = 0 /\ unsent' = unsent
    BY <1>4, <1>5, <1>6, <1>10
  <2>3. Says(unsent') \in Nat /\ Says(unsent') <= Says(unsent) + gain
    BY <2>1, <2>2
  <2> QED BY <1>3, <1>7, <1>8, <1>9, <2>1, <2>2, <2>3, BooksFollow
<1>11. ASSUME unsent' = unsent \union {[record |-> r, write |-> writes'[r], delta |-> RecoveredDelta(r, s)]}
       PROVE  BooksInv'
  <2>1. PICK e : e = [record |-> r, write |-> writes'[r], delta |-> gain]
    OBVIOUS
  <2>2. e \in Messages /\ e.delta = gain /\ unsent' = unsent \union {e}
    BY <1>2, <1>6, <1>7, <1>8, <1>11, <2>1 DEF Messages
  <2>3. /\ IsFiniteSet(unsent') /\ Says(unsent) \in Nat /\ Says(unsent') \in Nat
        /\ Says(unsent') <= Says(unsent) + gain
    BY <1>3, <2>2, SaysMore
  <2>4. unsent' \subseteq Messages
    BY <1>3, <2>2
  <2> QED BY <1>7, <1>8, <1>9, <2>3, <2>4, BooksFollow
<1> QED BY <1>1, <1>5, <1>10, <1>11

\* A message is taken from those to be published to the topic, or is lost.
LEMMA PublishBooks ==
  ASSUME LedgerAssumption, StreamInv, BooksInv, PublishEvent
  PROVE  BooksInv'
<1>1. PICK e \in unsent : unsent' = unsent \ {e} /\ (topic' = Append(topic, e) \/ UNCHANGED topic)
  BY DEF PublishEvent
<1>2. /\ UNCHANGED <<state, writes, position, committed, viewer>> /\ Recovered' = Recovered
  BY DEF PublishEvent, ledgerVars, Recovered
<1>3. /\ state \in [Records -> RestStates] /\ writes \in [Watched -> Nat]
      /\ unsent \in SUBSET Messages /\ IsFiniteSet(unsent) /\ e \in Messages
      /\ topic \in Seq(Messages) /\ Len(topic) \in Nat
      /\ position <= Len(topic) /\ committed <= Len(topic)
  BY DEF BooksInv
<1>4. /\ IsFiniteSet(unsent') /\ Says(unsent) \in Nat /\ Says(unsent') \in Nat
      /\ Says(unsent) = Says(unsent') + e.delta
  BY <1>1, <1>3, SaysLess
<1>5. e.delta \in Nat /\ unsent' \subseteq Messages
  BY <1>1, <1>3 DEF Messages
<1>6. SumFunctionOnSet(Deltas(topic), 1..Len(topic)) + Says(unsent) <= AmountOf(Recovered)
  BY DEF BooksInv
<1>7. AmountOf(Recovered) \in Nat
  <2>1. IsFiniteSet(Records) /\ Recovered \in SUBSET Records /\ \A r \in Records : Amount[r] \in Nat
    BY DEF LedgerAssumption, Recovered
  <2> QED BY <2>1, SumGrows DEF AmountOf
<1>8. CASE UNCHANGED topic
  <2>1. AmountOf(Recovered') = AmountOf(Recovered) + 0
    BY <1>2, <1>7
  <2>2. Says(unsent') <= Says(unsent) + 0
    BY <1>4, <1>5
  <2> QED BY <1>2, <1>3, <1>4, <1>5, <1>7, <1>8, <2>1, <2>2, BooksFollow
<1>9. CASE topic' = Append(topic, e)
  <2>1. PICK n : n = Len(topic)
    OBVIOUS
  <2>2. topic' \in Seq(Messages) /\ Len(topic') = n + 1 /\ n \in Nat
    BY <1>3, <1>9, <2>1
  <2>4. /\ \A k \in 0..n : SumFunctionOnSet(Deltas(topic'), 1..k) = SumFunctionOnSet(Deltas(topic), 1..k)
        /\ SumFunctionOnSet(Deltas(topic'), 1..(n + 1)) = e.delta + SumFunctionOnSet(Deltas(topic), 1..n)
    BY <1>3, <1>9, <2>1, TopicGrows
  <2>5. SumFunctionOnSet(Deltas(topic), 1..n) \in Nat
    <3>1. n \in 0..Len(topic)
      BY <2>1, <2>2
    <3> QED BY <1>3, <3>1, TopicAddsUp
  <2>6. SumFunctionOnSet(Deltas(topic'), 1..Len(topic')) + Says(unsent') <= AmountOf(Recovered')
    <3>1. SumFunctionOnSet(Deltas(topic'), 1..(n + 1)) + Says(unsent') <= AmountOf(Recovered)
      BY <1>4, <1>5, <1>6, <1>7, <2>1, <2>4, <2>5
    <3> QED BY <1>2, <2>2, <3>1
  <2>7. ASSUME NEW v \in Viewers PROVE AddsUp(viewer'[v], Deltas(topic'))
    <3>1. InStep(viewer[v], position) /\ AddsUp(viewer[v], Deltas(topic)) /\ position \in Nat
      BY DEF StreamInv, BooksInv
    <3>2. viewer[v].last \in 0..n
      BY <1>3, <2>1, <3>1 DEF InStep
    <3> QED BY <1>2, <2>4, <3>1, <3>2 DEF AddsUp
  <2>8. position' <= Len(topic') /\ committed' <= Len(topic')
    <3>1. position \in Nat /\ committed \in Nat
      BY DEF StreamInv
    <3> QED BY <1>2, <1>3, <2>1, <2>2, <3>1
  <2>9. state' \in [Records -> RestStates] /\ writes' \in [Watched -> Nat]
    BY <1>2, <1>3
  <2> QED BY <1>4, <1>5, <2>2, <2>6, <2>7, <2>8, <2>9 DEF BooksInv
<1> QED BY <1>1, <1>8, <1>9

-----------------------------------------------------------------------------
\* A message further on adds to what was added up before it.
LEMMA OneMoreAdded ==
  ASSUME NEW s \in Seq(Messages), NEW n \in Nat, NEW k \in 1..Len(s), n < k
  PROVE  /\ s[k].delta \in Nat
         /\ SumFunctionOnSet(Deltas(s), 1..n) + s[k].delta <= SumFunctionOnSet(Deltas(s), 1..k)
<1>1. PICK d : d = Deltas(s)
  OBVIOUS
<1>2. Len(s) \in Nat /\ n \in 0..Len(s) /\ k \in 0..Len(s) /\ k \notin 1..n
  OBVIOUS
<1>3. \A i \in 1..Len(s) : d[i] \in Nat /\ d[i] = s[i].delta
  <2>1. \A i \in 1..Len(s) : s[i] \in Messages /\ i \in DOMAIN s
    OBVIOUS
  <2> QED BY <1>1, <2>1 DEF Deltas, Messages
<1>4. SumFunctionOnSet(d, 1..n) \in Nat /\ IsFiniteSet(1..n) /\ IsFiniteSet(1..k)
  BY <1>1, <1>2, TopicAddsUp
<1>5. SumFunctionOnSet(d, (1..n) \union {k}) = d[k] + SumFunctionOnSet(d, 1..n)
  <2>1. d[k] \in Int /\ \A i \in 1..n : d[i] \in Int
    BY <1>2, <1>3
  <2> QED BY <1>2, <1>4, <2>1, SumAdds
<1>6. /\ SumFunctionOnSet(d, 1..k) \in Nat
      /\ SumFunctionOnSet(d, (1..n) \union {k}) <= SumFunctionOnSet(d, 1..k)
  <2>1. (1..n) \union {k} \in SUBSET (1..k) /\ \A i \in 1..k : d[i] \in Nat
    BY <1>2, <1>3
  <2> QED BY <1>4, <2>1, SumGrows
<1> QED BY <1>1, <1>3, <1>4, <1>5, <1>6

LEMMA NothingAddsUp == ASSUME NEW d PROVE AddsUp(Away, d)
<1>1. Away.total = 0 /\ Away.last = 0 /\ 1..0 = {}
  BY DEF Away
<1>2. SumFunctionOnSet(d, {}) = 0
  BY FS_EmptySet, SumFirst
<1> QED BY <1>1, <1>2 DEF AddsUp

\* Where the books and the topic stay as they are.
LEMMA BooksStay ==
  ASSUME StreamInv, BooksInv, UNCHANGED <<state, writes, unsent, topic>>,
         position' <= Len(topic), committed' <= Len(topic),
         \A v \in Viewers : AddsUp(viewer'[v], Deltas(topic))
  PROVE  BooksInv'
<1>1. Recovered' = Recovered
  BY DEF Recovered
<1> QED BY <1>1 DEF BooksInv

LEMMA HandleBooks == ASSUME StreamInv, BooksInv, Handle PROVE BooksInv'
<1>1. /\ UNCHANGED <<state, writes, unsent, topic, committed>>
      /\ position' = position + 1 /\ position < Len(topic)
  BY DEF Handle, ledgerVars
<1>2. position' <= Len(topic) /\ committed' <= Len(topic)
  BY <1>1 DEF StreamInv, BooksInv
<1>3. ASSUME NEW v \in Viewers PROVE AddsUp(viewer'[v], Deltas(topic))
  <2>1. \/ viewer'[v] = viewer[v]
        \/ viewer'[v] = [viewer[v] EXCEPT !.channel = Append(@, position + 1)]
    BY DEF Handle, HubPublish
  <2>2. AddsUp(viewer[v], Deltas(topic)) /\ {"last", "total", "channel"} \subseteq DOMAIN viewer[v]
    BY DEF BooksInv, StreamInv, InStep
  <2>3. viewer'[v].last = viewer[v].last /\ viewer'[v].total = viewer[v].total
    BY <2>1, <2>2
  <2> QED BY <2>2, <2>3 DEF AddsUp
<1> QED BY <1>1, <1>2, <1>3, BooksStay

LEMMA ViewersBooks ==
  ASSUME StreamInv, BooksInv, NEW v \in Viewers, Subscribe(v) \/ Relay(v) \/ Unsubscribe(v)
  PROVE  BooksInv'
<1>1. UNCHANGED <<state, writes, unsent, topic, position, committed>>
  BY DEF Subscribe, Relay, Unsubscribe, RestUnchanged, ledgerVars
<1>2. /\ topic \in Seq(Messages) /\ position <= Len(topic) /\ committed <= Len(topic)
      /\ position \in Nat /\ DOMAIN viewer = Viewers
      /\ \A w \in Viewers : AddsUp(viewer[w], Deltas(topic))
      /\ InStep(viewer[v], position)
  BY DEF BooksInv, StreamInv
<1>3. ASSUME NEW x, viewer' = [viewer EXCEPT ![v] = x], AddsUp(x, Deltas(topic)) PROVE BooksInv'
  <2>1. \A w \in Viewers : AddsUp(viewer'[w], Deltas(topic))
    BY <1>2, <1>3
  <2>2. position' <= Len(topic) /\ committed' <= Len(topic)
    BY <1>1, <1>2
  <2> QED BY <1>1, <2>1, <2>2, BooksStay
<1>4. CASE Subscribe(v)
  <2>1. PICK x : x = [Away EXCEPT !.pc = "watching", !.registered = TRUE]
    OBVIOUS
  <2>2. x.last = Away.last /\ x.total = Away.total
    BY <2>1 DEF Away
  <2>3. AddsUp(x, Deltas(topic))
    BY <2>2, NothingAddsUp DEF AddsUp
  <2> QED BY <1>3, <1>4, <2>1, <2>3 DEF Subscribe, Set
<1>5. CASE Relay(v)
  <2>1. PICK c : c = viewer[v].channel
    OBVIOUS
  <2>2. PICK k : k = Head(c)
    OBVIOUS
  <2>3. PICK total : total = viewer[v].total + topic[k].delta
    OBVIOUS
  <2>4. PICK x : x = [viewer[v] EXCEPT !.channel = Tail(c), !.last = k, !.total = total]
    OBVIOUS
  <2>5. c # <<>> /\ viewer' = [viewer EXCEPT ![v] = x]
    BY <1>5, <2>1, <2>2, <2>3, <2>4 DEF Relay, Set
  <2>6. viewer[v].last \in Nat /\ k \in 1..Len(topic) /\ viewer[v].last < k
    <3>1. c \in Seq(Nat) /\ viewer[v].last \in Nat /\ Ordered(viewer[v].last, c)
          /\ \A i \in 1..Len(c) : c[i] <= position
      BY <1>2, <2>1 DEF InStep
    <3>2. 1 \in 1..Len(c) /\ k = c[1] /\ k \in Nat
      BY <2>2, <2>5, <3>1
    <3>3. viewer[v].last < k /\ k <= position
      BY <3>1, <3>2 DEF Ordered
    <3>4. Len(topic) \in Nat
      BY <1>2
    <3> QED BY <1>2, <3>1, <3>2, <3>3, <3>4
  <2>7. /\ topic[k].delta \in Nat
        /\ SumFunctionOnSet(Deltas(topic), 1..viewer[v].last) + topic[k].delta
             <= SumFunctionOnSet(Deltas(topic), 1..k)
    BY <1>2, <2>6, OneMoreAdded
  <2>8. x.last = k /\ x.total = total
    BY <1>2, <2>4 DEF InStep
  <2>9. viewer[v].total \in Nat
        /\ viewer[v].total <= SumFunctionOnSet(Deltas(topic), 1..viewer[v].last)
    BY <1>2 DEF AddsUp
  <2>10. SumFunctionOnSet(Deltas(topic), 1..viewer[v].last) \in Nat
         /\ SumFunctionOnSet(Deltas(topic), 1..k) \in Nat
    <3>1. viewer[v].last \in 0..Len(topic) /\ k \in 0..Len(topic)
      BY <2>6
    <3> QED BY <1>2, <3>1, TopicAddsUp
  <2>11. total \in Nat /\ total <= SumFunctionOnSet(Deltas(topic), 1..k)
    BY <2>3, <2>7, <2>9, <2>10
  <2>12. AddsUp(x, Deltas(topic))
    BY <2>8, <2>11 DEF AddsUp
  <2> QED BY <1>3, <2>5, <2>12
<1>6. CASE Unsubscribe(v)
  <2>1. CASE Set(v, Away)
    BY <1>3, <2>1, NothingAddsUp DEF Set
  <2>2. CASE Set(v, [viewer[v] EXCEPT !.pc = "leaving", !.registered = FALSE])
    <3>1. PICK x : x = [viewer[v] EXCEPT !.pc = "leaving", !.registered = FALSE]
      OBVIOUS
    <3>2. x.last = viewer[v].last /\ x.total = viewer[v].total
      BY <1>2, <3>1 DEF InStep
    <3>3. AddsUp(x, Deltas(topic))
      BY <1>2, <3>2 DEF AddsUp
    <3> QED BY <1>3, <2>2, <3>1, <3>3 DEF Set
  <2> QED BY <1>6, <2>1, <2>2 DEF Unsubscribe
<1> QED BY <1>4, <1>5, <1>6

-----------------------------------------------------------------------------
LEMMA MoneyStarts == LedgerAssumption /\ ReadInit => MoneyInv
<1> SUFFICES ASSUME LedgerAssumption, ReadInit PROVE MoneyInv
  OBVIOUS
<1>1. /\ state = [r \in Records |-> "NEW"] /\ writes = [r \in Watched |-> 0]
      /\ unsent = {} /\ topic = <<>> /\ position = 0 /\ committed = 0
      /\ viewer = [v \in Viewers |-> Away]
  BY DEF ReadInit, LedgerInit, Init, LiveInit
<1>2. StreamInv
  BY <1>1, AwayIsInStep DEF StreamInv
<1>3. state \in [Records -> RestStates]
  BY <1>1 DEF RestStates
<1>4. IsFiniteSet(unsent) /\ Says(unsent) = 0
  BY <1>1, FS_EmptySet, SumFirst DEF Says
<1>5. topic \in Seq(Messages) /\ Len(topic) = 0 /\ 1..Len(topic) = {}
  BY <1>1
<1>6. SumFunctionOnSet(Deltas(topic), 1..Len(topic)) = 0
  BY <1>5, FS_EmptySet, SumFirst
<1>7. AmountOf(Recovered) \in Nat
  <2>1. IsFiniteSet(Records) /\ Recovered \in SUBSET Records /\ \A r \in Records : Amount[r] \in Nat
    BY DEF LedgerAssumption, Recovered
  <2> QED BY <2>1, SumGrows DEF AmountOf
<1>8. SumFunctionOnSet(Deltas(topic), 1..Len(topic)) + Says(unsent) <= AmountOf(Recovered)
  BY <1>4, <1>6, <1>7
<1>9. \A v \in Viewers : AddsUp(viewer[v], Deltas(topic))
  BY <1>1, NothingAddsUp
<1>10. writes \in [Watched -> Nat] /\ unsent \subseteq Messages
       /\ position <= Len(topic) /\ committed <= Len(topic)
  BY <1>1, <1>5
<1>11. BooksInv
  BY <1>3, <1>4, <1>5, <1>8, <1>9, <1>10 DEF BooksInv
<1> QED BY <1>1, <1>2, <1>11 DEF MoneyInv

LEMMA MoneyStep ==
  LedgerAssumption /\ LiveAssumption /\ MoneyInv /\ [ReadNext]_readVars => MoneyInv'
<1> SUFFICES ASSUME LedgerAssumption, LiveAssumption, MoneyInv, [ReadNext]_readVars PROVE MoneyInv'
  OBVIOUS
<1>1. StreamInv /\ StreamInv'
  BY StreamStep DEF MoneyInv
<1>2. CASE Watches
  <2>1. view = "live" /\ view' = "live" /\ BooksInv
    BY <1>2 DEF Watches, MoneyInv
  <2>2. CASE LedgerMoves \/ PublishEvent
    BY <1>1, <2>1, <2>2, MovesBooks, PublishBooks DEF MoneyInv
  <2>3. CASE Handle
    BY <1>1, <2>1, <2>3, HandleBooks DEF MoneyInv
  <2>4. CASE CommitOffset
    <3>1. UNCHANGED <<state, writes, unsent, topic, position, viewer>> /\ committed' = position
      BY <2>4 DEF CommitOffset, ledgerVars
    <3>2. position' <= Len(topic) /\ committed' <= Len(topic)
          /\ \A v \in Viewers : AddsUp(viewer'[v], Deltas(topic))
      BY <2>1, <3>1 DEF BooksInv
    <3> QED BY <1>1, <2>1, <3>1, <3>2, BooksStay DEF MoneyInv
  <2>5. CASE RestartReporting
    <3>1. /\ UNCHANGED <<state, writes, unsent, topic, committed>> /\ position' = committed
          /\ viewer' = [v \in Viewers |-> Away]
      BY <2>5 DEF RestartReporting, ledgerVars
    <3>2. \A v \in Viewers : AddsUp(viewer'[v], Deltas(topic))
      BY <3>1, NothingAddsUp
    <3>3. position' <= Len(topic) /\ committed' <= Len(topic)
      BY <2>1, <3>1 DEF BooksInv
    <3> QED BY <1>1, <2>1, <3>1, <3>2, <3>3, BooksStay DEF MoneyInv
  <2>6. CASE \E v \in Viewers : Subscribe(v) \/ Relay(v) \/ Unsubscribe(v)
    BY <1>1, <2>1, <2>6, ViewersBooks DEF MoneyInv
  <2> QED BY <1>2, <2>2, <2>3, <2>4, <2>5, <2>6 DEF Watches, LiveNext
<1>3. CASE Audits \/ Reports \/ Compares \/ Lists
  <2>1. view # "live" /\ view' # "live" /\ UNCHANGED viewer
    BY <1>3 DEF Audits, Reports, Compares, Lists, liveVars
  <2> QED BY <1>1, <2>1 DEF MoneyInv
<1>4. CASE UNCHANGED readVars
  <2>1. UNCHANGED <<state, writes, unsent, topic, position, committed, viewer, view>>
    BY <1>4 DEF readVars, ledgerVars, liveVars
  <2>2. BooksInv => BooksInv'
    BY <1>1, <2>1, BooksStay DEF BooksInv
  <2> QED BY <1>1, <2>1, <2>2 DEF MoneyInv
<1> QED BY <1>2, <1>3, <1>4 DEF ReadNext

\* What a viewer has added up and what waits for it are different messages of the
\* topic.
LEMMA BooksShow ==
  ASSUME LedgerAssumption, MoneyInv, NEW v \in Viewers
  PROVE  Total(v) <= AmountOf(Recovered)
<1>1. AmountOf(Recovered) \in Nat
  <2>1. IsFiniteSet(Records) /\ Recovered \in SUBSET Records /\ \A r \in Records : Amount[r] \in Nat
    BY DEF LedgerAssumption, Recovered
  <2> QED BY <2>1, SumGrows DEF AmountOf
<1>2. CASE view # "live"
  <2>1. viewer[v] = Away
    BY <1>2 DEF MoneyInv
  <2>2. Away.total = 0 /\ Range(Away.channel) = {}
    BY DEF Away, Range
  <2>3. SumFunctionOnSet(Delta, {}) = 0
    BY FS_EmptySet, SumFirst
  <2>4. Total(v) = 0
    BY <2>1, <2>2, <2>3 DEF Total
  <2> QED BY <1>1, <2>4
<1>3. CASE view = "live"
  <2>1. PICK d : d = Deltas(topic)
    OBVIOUS
  <2>2. PICK n : n = Len(topic)
    OBVIOUS
  <2>3. PICK l : l = viewer[v].last
    OBVIOUS
  <2>4. PICK W : W = Range(viewer[v].channel)
    OBVIOUS
  <2>5. /\ topic \in Seq(Messages) /\ IsFiniteSet(unsent) /\ unsent \in SUBSET Messages
        /\ position \in Nat /\ position <= n
        /\ SumFunctionOnSet(d, 1..n) + Says(unsent) <= AmountOf(Recovered)
        /\ AddsUp(viewer[v], d) /\ InStep(viewer[v], position)
    BY <1>3, <2>1, <2>2 DEF MoneyInv, BooksInv, StreamInv
  <2>6. n \in Nat /\ l \in 0..n
    BY <2>2, <2>3, <2>5 DEF InStep
  <2>7. \A i \in W : i \in 1..n /\ l < i
    <3>1. /\ viewer[v].channel \in Seq(Nat) /\ Ordered(l, viewer[v].channel)
          /\ \A i \in 1..Len(viewer[v].channel) : viewer[v].channel[i] <= position
      BY <2>3, <2>5 DEF InStep
    <3>2. \A i \in 1..Len(viewer[v].channel) : viewer[v].channel[i] \in 1..n /\ l < viewer[v].channel[i]
      BY <2>5, <2>6, <3>1 DEF Ordered
    <3> QED BY <2>4, <3>1, <3>2 DEF Range
  <2>8. \A i \in 1..n : d[i] \in Nat
    <3>1. \A i \in 1..n : topic[i] \in Messages /\ i \in DOMAIN topic
      BY <2>2, <2>5
    <3> QED BY <2>1, <3>1 DEF Deltas, Messages
  <2>9. IsFiniteSet(1..n) /\ IsFiniteSet(1..l) /\ IsFiniteSet(W)
    <3>1. IsFiniteSet(1..n)
      BY <2>6, FS_Interval
    <3>2. W \subseteq 1..n /\ 1..l \subseteq 1..n
      BY <2>6, <2>7
    <3> QED BY <3>1, <3>2, FS_Subset
  <2>10. /\ SumFunctionOnSet(d, 1..l) \in Int /\ SumFunctionOnSet(d, W) \in Int
         /\ SumFunctionOnSet(d, (1..l) \union W) = SumFunctionOnSet(d, 1..l) + SumFunctionOnSet(d, W)
    <3>1. (1..l) \intersect W = {} /\ \A i \in (1..l) \union W : d[i] \in Int
      BY <2>6, <2>7, <2>8
    <3> QED BY <2>9, <3>1, SumOfBoth
  <2>11. /\ SumFunctionOnSet(d, 1..n) \in Nat
         /\ SumFunctionOnSet(d, (1..l) \union W) <= SumFunctionOnSet(d, 1..n)
    <3>1. (1..l) \union W \in SUBSET (1..n)
      BY <2>6, <2>7
    <3> QED BY <2>8, <2>9, <3>1, SumGrows
  <2>12. Says(unsent) \in Nat
    <3>1. \A m \in unsent : DeltaOf[m] \in Nat
      BY <2>5 DEF DeltaOf, Messages
    <3> QED BY <2>5, <3>1, SumGrows DEF Says
  <2>13. Total(v) = viewer[v].total + SumFunctionOnSet(d, W)
    BY <2>1, <2>4 DEF Total, Delta, Deltas
  <2>14. viewer[v].total \in Nat /\ viewer[v].total <= SumFunctionOnSet(d, 1..l)
    BY <2>3, <2>5 DEF AddsUp
  <2> QED BY <1>1, <2>5, <2>10, <2>11, <2>12, <2>13, <2>14
<1> QED BY <1>2, <1>3

\* For any number of records, viewers and amounts, any size of the channels, any
\* publications lost and any ends of the process: hub.publish sends on no closed
\* channel, a stream shows the updates of its topic in their order and none twice,
\* and what it adds up, with what still waits for it, is in the books.
THEOREM StreamsAgreeWithBooks == ReadSpec => []StreamsAreSound
<1>1. ReadInit => MoneyInv
  BY MoneyStarts, LedgerAssumption
<1>2. MoneyInv /\ [ReadNext]_readVars => MoneyInv'
  BY MoneyStep, LedgerAssumption, LiveAssumption
<1>3. MoneyInv => StreamsAreSound
  BY OrderShows, BooksShow, LedgerAssumption DEF MoneyInv, StreamsAreSound, InTheBooks
<1> QED BY <1>1, <1>2, <1>3, PTL DEF ReadSpec

-----------------------------------------------------------------------------
(***************************************************************************)
(* The report.  The money in the books only grows, and a record has at     *)
(* most one successful attempt, its last: once that is there, the record   *)
(* is recovered or about to be.                                            *)
(***************************************************************************)
Attempts == [outcome : Outcomes \union {ClaimMarker}, cost : Nat]

\* A record in state s, with n interventions accounted for, one in flight or not,
\* and attempts a.
Attempted(s, n, flying, a) ==
  /\ Len(a) = n \/ (Len(a) = n + 1 /\ flying)
  /\ flying => s \in Claimed
  /\ \A i \in 1..n : a[i].outcome # ClaimMarker
  /\ \A i \in 1..Len(a) : a[i].outcome = "SUCCESS" =>
       i = Len(a) /\ (s = "RECOVERED" \/ Len(a) = n + 1)

AttemptTypes ==
  /\ state \in [Records -> RestStates] /\ spent \in [Records -> Nat]
  /\ inFlight \in [Records -> BOOLEAN] /\ attempts \in [Records -> Seq(Attempts)]

AttemptsInv ==
  /\ AttemptTypes
  /\ \A r \in Records : Attempted(state[r], spent[r], inFlight[r], attempts[r])

\* One record moves on.
LEMMA OneIsAttempted ==
  ASSUME AttemptsInv, NEW r \in Records, AttemptTypes',
         Attempted(state'[r], spent'[r], inFlight'[r], attempts'[r]),
         \A q \in Records \ {r} : /\ state'[q] = state[q] /\ spent'[q] = spent[q]
                                  /\ (inFlight'[q] <=> inFlight[q]) /\ attempts'[q] = attempts[q]
  PROVE  AttemptsInv'
<1> SUFFICES ASSUME NEW q \in Records
             PROVE  Attempted(state'[q], spent'[q], inFlight'[q], attempts'[q])
  BY DEF AttemptsInv
<1>1. CASE q = r
  BY <1>1
<1>2. CASE q # r
  <2>1. Attempted(state[q], spent[q], inFlight[q], attempts[q])
    BY DEF AttemptsInv
  <2> QED BY <1>2, <2>1 DEF Attempted
<1> QED BY <1>1, <1>2

LEMMA IntakeAttempts == ASSUME AttemptsInv, NEW r \in Records, RecordIntake(r) PROVE AttemptsInv'
<1>1. PICK s \in Routed : state' = [state EXCEPT ![r] = s]
  BY DEF RecordIntake, Intake
<1>2. state[r] = "NEW" /\ UNCHANGED <<spent, inFlight, attempts>> /\ s \in RestStates
  BY DEF RecordIntake, Intake, Commit, Routed, RestStates, Terminal
<1>3. Attempted(state[r], spent[r], inFlight[r], attempts[r])
  BY DEF AttemptsInv
<1>4. ~inFlight[r] /\ AttemptTypes
  BY <1>2, <1>3 DEF Attempted, Claimed, AttemptsInv
<1>5. Attempted(state'[r], spent'[r], inFlight'[r], attempts'[r])
  BY <1>1, <1>2, <1>3, <1>4 DEF Attempted
<1>6. AttemptTypes' /\ \A q \in Records \ {r} : state'[q] = state[q]
  BY <1>1, <1>2, <1>4 DEF AttemptTypes
<1> QED BY <1>2, <1>5, <1>6, OneIsAttempted

LEMMA AnswerAttempts == ASSUME AttemptsInv, NEW r \in Records, RecordAnswer(r) PROVE AttemptsInv'
<1>1. PICK s \in Routed \union {"RECOVERED"} : state' = [state EXCEPT ![r] = s]
  BY DEF RecordAnswer, Answer
<1>2. /\ state[r] = "NUDGED" /\ ~inFlight[r] /\ UNCHANGED <<spent, inFlight, attempts>>
      /\ s \in RestStates
  BY DEF RecordAnswer, Answer, Commit, Routed, RestStates, Terminal
<1>3. Attempted(state[r], spent[r], inFlight[r], attempts[r]) /\ AttemptTypes
  BY DEF AttemptsInv
<1>4. Attempted(state'[r], spent'[r], inFlight'[r], attempts'[r])
  BY <1>1, <1>2, <1>3 DEF Attempted
<1>5. AttemptTypes' /\ \A q \in Records \ {r} : state'[q] = state[q]
  BY <1>1, <1>2, <1>3 DEF AttemptTypes
<1> QED BY <1>2, <1>4, <1>5, OneIsAttempted

LEMMA ClaimAttempts == ASSUME AttemptsInv, NEW r \in Records, RecordClaim(r) PROVE AttemptsInv'
<1>1. PICK s : s = IF state[r] = "RETRY_SCHEDULED" THEN "RETRYING" ELSE "NUDGED"
  OBVIOUS
<1>2. /\ state[r] \in Waiting /\ s \in RestStates /\ s \in Claimed
      /\ UNCHANGED <<spent, attempts>>
  BY <1>1 DEF RecordClaim, Claim, Commit, RestStates, Claimed
<1>3. Attempted(state[r], spent[r], inFlight[r], attempts[r]) /\ AttemptTypes
  BY DEF AttemptsInv
<1>4. state' = [state EXCEPT ![r] = s]
  BY <1>1 DEF RecordClaim, Claim, AttemptsInv, AttemptTypes
<1>5. inFlight' = [q \in Records |-> q \in {r} \/ inFlight[q]]
  BY DEF RecordClaim, Claim
<1>6. inFlight' \in [Records -> BOOLEAN] /\ inFlight'[r]
      /\ \A q \in Records \ {r} : inFlight'[q] <=> inFlight[q]
  BY <1>5, Zenon
<1>7. ~inFlight[r]
  BY <1>2, <1>3 DEF Attempted, Waiting, Claimed
<1>8. Attempted(state'[r], spent'[r], inFlight'[r], attempts'[r])
  <2>1. state'[r] = s /\ state[r] # "RECOVERED"
    BY <1>2, <1>3, <1>4 DEF AttemptTypes, Waiting
  <2> QED BY <1>2, <1>3, <1>6, <1>7, <2>1 DEF Attempted
<1>9. AttemptTypes' /\ \A q \in Records \ {r} : state'[q] = state[q]
  BY <1>2, <1>3, <1>4, <1>6 DEF AttemptTypes
<1> QED BY <1>2, <1>6, <1>8, <1>9, OneIsAttempted

LEMMA AccountAttempts == ASSUME AttemptsInv, NEW r \in Records, RecordAccount(r) PROVE AttemptsInv'
<1>1. PICK n \in Nat : n = spent[r]
  BY DEF AttemptsInv, AttemptTypes
<1>2. PICK a \in Seq(Attempts) : a = attempts[r]
  BY DEF AttemptsInv, AttemptTypes
<1>3. /\ state[r] \in Claimed /\ inFlight[r] /\ Len(a) = n + 1 /\ a[Len(a)].outcome \in Outcomes
      /\ spent' = [spent EXCEPT ![r] = @ + 1] /\ inFlight' = [inFlight EXCEPT ![r] = FALSE]
      /\ UNCHANGED attempts
  <2>1. LastOutcome(r) = a[Len(a)].outcome
    BY <1>2 DEF LastOutcome, Last
  <2>2. UNCHANGED attempts
    BY DEF RecordAccount, Decide, Outcomes, Commit
  <2> QED BY <1>1, <1>2, <2>1, <2>2 DEF RecordAccount, Account
<1>4. Attempted(state[r], n, TRUE, a) /\ AttemptTypes
  BY <1>1, <1>2, <1>3 DEF AttemptsInv, Attempted
<1>5. PICK s \in RestStates : state' = [state EXCEPT ![r] = s]
  <2>1. CASE UNCHANGED state
    BY <1>4, <2>1 DEF AttemptTypes
  <2>2. CASE \E q \in Routed \union {"RECOVERED"} : state' = [state EXCEPT ![r] = q]
    BY <2>2 DEF Routed, RestStates, Terminal
  <2> QED BY <2>1, <2>2 DEF RecordAccount, Account
<1>6. a[Len(a)].outcome = "SUCCESS" => s = "RECOVERED"
  <2>1. LastOutcome(r) = a[Len(a)].outcome /\ state'[r] = s
    BY <1>2, <1>4, <1>5 DEF LastOutcome, Last, AttemptTypes
  <2> QED BY <2>1 DEF RecordAccount, Decide
<1>7. Attempted(s, n + 1, FALSE, a)
  <2>1. \A i \in 1..(n + 1) : a[i].outcome # ClaimMarker
    <3>1. \A i \in 1..(n + 1) : i \in 1..n \/ i = Len(a)
      BY <1>3
    <3> QED BY <1>3, <1>4, <3>1 DEF Attempted, Outcomes, ClaimMarker
  <2>2. ASSUME NEW i \in 1..Len(a), a[i].outcome = "SUCCESS" PROVE i = Len(a) /\ s = "RECOVERED"
    <3>1. i = Len(a)
      BY <1>4, <2>2 DEF Attempted
    <3> QED BY <1>6, <2>2, <3>1
  <2>3. Len(a) = n + 1
    BY <1>3
  <2>4. \A i \in 1..Len(a) : a[i].outcome = "SUCCESS" => i = Len(a) /\ s = "RECOVERED"
    BY <2>2
  <2> QED BY <2>1, <2>3, <2>4 DEF Attempted
<1>8. /\ state'[r] = s /\ spent'[r] = n + 1 /\ ~inFlight'[r] /\ attempts'[r] = a
      /\ AttemptTypes'
  BY <1>1, <1>2, <1>3, <1>4, <1>5 DEF AttemptTypes
<1>9. Attempted(state'[r], spent'[r], inFlight'[r], attempts'[r])
  BY <1>7, <1>8 DEF Attempted
<1>10. \A q \in Records \ {r} : state'[q] = state[q] /\ spent'[q] = spent[q]
                                /\ (inFlight'[q] <=> inFlight[q])
  BY <1>3, <1>4, <1>5 DEF AttemptTypes
<1> QED BY <1>3, <1>8, <1>9, <1>10, OneIsAttempted

LEMMA ClaimAttemptAttempts ==
  ASSUME AttemptsInv, NEW r \in Records, ClaimAttempt(r) PROVE AttemptsInv'
<1>1. PICK n \in Nat : n = spent[r]
  BY DEF AttemptsInv, AttemptTypes
<1>2. PICK a \in Seq(Attempts) : a = attempts[r]
  BY DEF AttemptsInv, AttemptTypes
<1>3. PICK b : b = Append(a, [outcome |-> ClaimMarker, cost |-> 0])
  OBVIOUS
<1>4. /\ b \in Seq(Attempts) /\ Len(b) = Len(a) + 1 /\ Len(a) \in Nat
      /\ b[Len(b)].outcome = ClaimMarker /\ \A i \in 1..Len(a) : b[i] = a[i]
  BY <1>3 DEF Attempts
<1>5. /\ inFlight[r] /\ Len(a) = n /\ attempts' = [attempts EXCEPT ![r] = b]
      /\ UNCHANGED <<state, spent, inFlight>>
  BY <1>1, <1>2, <1>3 DEF ClaimAttempt, lifecycleVars
<1>6. AttemptTypes /\ Attempted(state[r], n, TRUE, a) /\ state[r] \in Claimed
  BY <1>1, <1>2, <1>5 DEF AttemptsInv, Attempted
<1>7. \A i \in 1..Len(b) : b[i].outcome # "SUCCESS"
  <2>1. \A i \in 1..Len(a) : a[i].outcome # "SUCCESS"
    BY <1>4, <1>5, <1>6 DEF Attempted, Claimed
  <2>2. \A i \in 1..Len(b) : i \in 1..Len(a) \/ i = Len(b)
    BY <1>4
  <2> QED BY <1>4, <2>1, <2>2 DEF ClaimMarker
<1>8. Attempted(state[r], n, TRUE, b)
  BY <1>4, <1>5, <1>6, <1>7 DEF Attempted
<1>9. AttemptTypes' /\ attempts'[r] = b
  BY <1>4, <1>5, <1>6 DEF AttemptTypes
<1>10. Attempted(state'[r], spent'[r], inFlight'[r], attempts'[r])
  BY <1>1, <1>5, <1>8, <1>9 DEF Attempted
<1>11. \A q \in Records \ {r} : attempts'[q] = attempts[q]
  BY <1>5, <1>6 DEF AttemptTypes
<1> QED BY <1>5, <1>9, <1>10, <1>11, OneIsAttempted

LEMMA RecordOutcomeAttempts ==
  ASSUME LedgerAssumption, AttemptsInv, NEW r \in Records, RecordOutcome(r) PROVE AttemptsInv'
<1>1. PICK n \in Nat : n = spent[r]
  BY DEF AttemptsInv, AttemptTypes
<1>2. PICK a \in Seq(Attempts) : a = attempts[r]
  BY DEF AttemptsInv, AttemptTypes
<1>3. PICK o \in Outcomes :
        attempts' = [attempts EXCEPT ![r][Len(attempts[r])] = [outcome |-> o, cost |-> Cost]]
  BY DEF RecordOutcome
<1>4. PICK b : b = [a EXCEPT ![Len(a)] = [outcome |-> o, cost |-> Cost]]
  OBVIOUS
<1>5. /\ a # <<>> /\ a[Len(a)].outcome = ClaimMarker /\ attempts' = [attempts EXCEPT ![r] = b]
      /\ UNCHANGED <<state, spent, inFlight>>
  BY <1>2, <1>3, <1>4 DEF RecordOutcome, lifecycleVars, LastOutcome, Last
<1>6. AttemptTypes /\ Attempted(state[r], n, inFlight[r], a)
  BY <1>1, <1>2 DEF AttemptsInv
<1>7. Len(a) \in 1..Len(a) /\ Len(a) \in Nat
  BY <1>5
<1>8. Len(a) = n + 1 /\ inFlight[r] /\ state[r] \in Claimed
  BY <1>5, <1>6, <1>7 DEF Attempted
<1>9. [outcome |-> o, cost |-> Cost] \in Attempts
  BY DEF Attempts, LedgerAssumption
<1>10. /\ b \in Seq(Attempts) /\ Len(b) = Len(a) /\ \A i \in 1..n : b[i] = a[i]
  BY <1>4, <1>7, <1>8, <1>9
<1>11. \A i \in 1..Len(b) : b[i].outcome = "SUCCESS" => i = Len(b)
  <2>1. \A i \in 1..n : a[i].outcome # "SUCCESS"
    BY <1>6, <1>7, <1>8 DEF Attempted
  <2>2. \A i \in 1..Len(b) : i \in 1..n \/ i = Len(b)
    BY <1>8, <1>10
  <2> QED BY <1>10, <2>1, <2>2
<1>12. Attempted(state[r], n, TRUE, b)
  BY <1>6, <1>8, <1>10, <1>11 DEF Attempted
<1>13. AttemptTypes' /\ attempts'[r] = b
  BY <1>5, <1>6, <1>10 DEF AttemptTypes
<1>14. Attempted(state'[r], spent'[r], inFlight'[r], attempts'[r])
  BY <1>1, <1>5, <1>8, <1>12, <1>13 DEF Attempted
<1>15. \A q \in Records \ {r} : attempts'[q] = attempts[q]
  BY <1>5, <1>6 DEF AttemptTypes
<1> QED BY <1>5, <1>13, <1>14, <1>15, OneIsAttempted

LEMMA LedgerAttempts == LedgerAssumption /\ AttemptsInv /\ LedgerNext => AttemptsInv'
BY IntakeAttempts, ClaimAttempts, AnswerAttempts, AccountAttempts, ClaimAttemptAttempts,
   RecordOutcomeAttempts DEF LedgerNext, LedgerStep, Transact

-----------------------------------------------------------------------------
Taken == {r \in Records : state[r] # "NEW"}

\* Whoever is recovered stays so, and whoever has been taken up.
LEMMA LedgerGrows ==
  ASSUME AttemptsInv, LedgerNext
  PROVE  Recovered \subseteq Recovered' /\ Taken \subseteq Taken'
<1>1. state \in [Records -> RestStates]
  BY DEF AttemptsInv, AttemptTypes
<1>2. PICK r \in Records : LedgerStep(r)
  BY DEF LedgerNext
<1>3. CASE Transact(r)
  <2>1. Intake(r) \/ Account(r) \/ Answer(r) \/ Claim({r})
    BY <1>3 DEF Transact, RecordIntake, RecordAccount, RecordAnswer, RecordClaim
  <2>2. /\ state[r] # "RECOVERED" /\ state'[r] \in RestStates \ {"NEW"}
        /\ state' = [state EXCEPT ![r] = state'[r]]
    BY <1>1, <2>1, OnlyOnce
  <2> QED BY <1>1, <2>2 DEF Recovered, Taken
<1>4. CASE ClaimAttempt(r) \/ RecordOutcome(r)
  BY <1>4 DEF ClaimAttempt, RecordOutcome, lifecycleVars, Recovered, Taken
<1> QED BY <1>2, <1>3, <1>4 DEF LedgerStep

\* What a statement finds is at least what was there before.
LEMMA FiguresGrow ==
  ASSUME LedgerAssumption, AttemptsInv, Recovered \subseteq Recovered', Taken \subseteq Taken'
  PROVE  /\ AmountOf(Recovered) \in Nat /\ AmountOf(Recovered') \in Nat
         /\ AmountOf(Recovered) <= AmountOf(Recovered')
         /\ Cardinality(Taken) \in Nat /\ Cardinality(Taken') \in Nat
         /\ Cardinality(Taken) <= Cardinality(Taken')
<1>1. /\ IsFiniteSet(Records) /\ Recovered' \in SUBSET Records /\ Taken' \in SUBSET Records
      /\ Recovered \in SUBSET Records /\ Taken \in SUBSET Records
  BY DEF LedgerAssumption, Recovered, Taken
<1>2. IsFiniteSet(Recovered') /\ IsFiniteSet(Taken') /\ IsFiniteSet(Taken)
  BY <1>1, FS_Subset
<1>3. \A r \in Recovered' : Amount[r] \in Nat
  BY <1>1 DEF LedgerAssumption
<1>4. /\ AmountOf(Recovered) \in Nat /\ AmountOf(Recovered') \in Nat
      /\ AmountOf(Recovered) <= AmountOf(Recovered')
  <2>1. Recovered \in SUBSET Recovered'
    OBVIOUS
  <2> QED BY <1>2, <1>3, <2>1, SumGrows DEF AmountOf
<1>5. /\ Cardinality(Taken) \in Nat /\ Cardinality(Taken') \in Nat
      /\ Cardinality(Taken) <= Cardinality(Taken')
  BY <1>2, FS_Subset, FS_CardinalityType
<1> QED BY <1>4, <1>5

\* Whoever has been taken up is open or has ended.
LEMMA OpenOrEnded ==
  ASSUME LedgerAssumption, AttemptsInv
  PROVE  Cardinality({r \in Records : state[r] \in inFlightStates})
           + Cardinality({r \in Records : state[r] \in Terminal}) = Cardinality(Taken)
<1>1. PICK O : O = {r \in Records : state[r] \in inFlightStates}
  OBVIOUS
<1>2. PICK E : E = {r \in Records : state[r] \in Terminal}
  OBVIOUS
<1>3. IsFiniteSet(O) /\ IsFiniteSet(E)
  <2>1. O \in SUBSET Records /\ E \in SUBSET Records /\ IsFiniteSet(Records)
    BY <1>1, <1>2 DEF LedgerAssumption
  <2> QED BY <2>1, FS_Subset
<1>4. O \intersect E = {}
  BY <1>1, <1>2 DEF inFlightStates, Terminal, Waiting, Claimed
<1>5. O \union E = Taken
  BY <1>1, <1>2 DEF inFlightStates, Terminal, Waiting, Claimed, Taken, AttemptsInv, AttemptTypes,
                    RestStates
<1>6. Cardinality(O \union E) = Cardinality(O) + Cardinality(E) - Cardinality(O \intersect E)
  BY <1>3, FS_Union
<1>7. Cardinality(O) \in Nat /\ Cardinality(E) \in Nat /\ Cardinality(O \intersect E) = 0
  BY <1>3, <1>4, FS_CardinalityType, FS_EmptySet
<1>8. Cardinality(Taken) = Cardinality(O) + Cardinality(E) - 0
  BY <1>5, <1>6, <1>7
<1> QED BY <1>1, <1>2, <1>7, <1>8

\* What has been spent is a number.
LEMMA SpendingIsInt ==
  ASSUME LedgerAssumption, AttemptsInv PROVE Spending(Records) \in Int
<1>1. ASSUME NEW r \in Records PROVE SpentOn(r) \in Int
  <2>1. PICK a \in Seq(Attempts) : a = attempts[r]
    BY DEF AttemptsInv, AttemptTypes
  <2>2. PICK c : c = [i \in DOMAIN a |-> a[i].cost]
    OBVIOUS
  <2>3. IsFiniteSet(DOMAIN a) /\ \A i \in DOMAIN a : c[i] \in Int
    <3>1. DOMAIN a = 1..Len(a) /\ Len(a) \in Int /\ \A i \in 1..Len(a) : a[i] \in Attempts
      BY <2>1
    <3>2. IsFiniteSet(1..Len(a))
      BY <3>1, FS_Interval
    <3> QED BY <2>2, <3>1, <3>2 DEF Attempts
  <2>4. SumFunctionOnSet(c, DOMAIN a) \in Int
    BY <2>3, SumOfAny
  <2>5. DOMAIN c = DOMAIN a
    BY <2>2
  <2> QED BY <2>1, <2>2, <2>4, <2>5 DEF SpentOn, SumFunction
<1>2. PICK f : f = [r \in Records |-> SpentOn(r)]
  OBVIOUS
<1>3. \A r \in Records : f[r] \in Int
  BY <1>1, <1>2
<1>4. SumFunctionOnSet(f, Records) \in Int
  BY <1>3, SumOfAny DEF LedgerAssumption
<1> QED BY <1>2, <1>4 DEF Spending

\* What successful attempts are credited with.
Succeeded(a) == Cardinality({i \in DOMAIN a : a[i].outcome = "SUCCESS"})
Credit == SumFunctionOnSet([r \in Records |-> Succeeded(attempts[r]) * Amount[r]], Records)
Due    == Recovered \union {r \in Records : inFlight[r]}

LEMMA CreditIsCovered ==
  ASSUME LedgerAssumption, AttemptsInv
  PROVE  Credit \in Int /\ AmountOf(Due) \in Int /\ Credit <= AmountOf(Due)
<1>1. ASSUME NEW r \in Records
      PROVE  /\ Succeeded(attempts[r]) \in 0..1
             /\ r \notin Due => Succeeded(attempts[r]) = 0
  <2>1. PICK a \in Seq(Attempts) : a = attempts[r]
    BY DEF AttemptsInv, AttemptTypes
  <2>2. PICK W : W = {i \in DOMAIN a : a[i].outcome = "SUCCESS"}
    OBVIOUS
  <2>3. Attempted(state[r], spent[r], inFlight[r], a)
    BY <2>1 DEF AttemptsInv
  <2>4. \A i \in W : i = Len(a) /\ r \in Due
    <3>1. DOMAIN a = 1..Len(a) /\ Len(a) \in Nat /\ spent[r] \in Nat
      BY <2>1 DEF AttemptsInv, AttemptTypes
    <3>2. \A i \in W : i = Len(a) /\ (state[r] = "RECOVERED" \/ Len(a) = spent[r] + 1)
      BY <2>2, <2>3, <3>1 DEF Attempted
    <3>3. spent[r] # spent[r] + 1
      BY <3>1
    <3>4. Len(a) = spent[r] + 1 => inFlight[r]
      BY <2>3, <3>3, Zenon DEF Attempted
    <3>5. state[r] = "RECOVERED" \/ inFlight[r] => r \in Due
      BY Zenon DEF Due, Recovered
    <3> QED BY <3>2, <3>4, <3>5
  <2>5. CASE W = {}
    <3>1. Cardinality(W) = 0
      BY <2>5, FS_EmptySet
    <3> QED BY <2>1, <2>2, <3>1 DEF Succeeded
  <2>6. CASE W # {}
    <3>1. W = {Len(a)} /\ r \in Due
      BY <2>4, <2>6
    <3>2. Cardinality({Len(a)}) = 1
      BY FS_Singleton
    <3>3. Succeeded(attempts[r]) = Cardinality(W)
      BY <2>1, <2>2 DEF Succeeded
    <3>4. Succeeded(attempts[r]) = 1
      BY <3>1, <3>2, <3>3
    <3> QED BY <3>1, <3>4
  <2> QED BY <2>5, <2>6
<1>2. PICK f : f = [r \in Records |-> Succeeded(attempts[r]) * Amount[r]]
  OBVIOUS
<1>3. ASSUME NEW r \in Records
      PROVE  /\ f[r] \in Int /\ Amount[r] \in Int
             /\ r \in Due => f[r] <= Amount[r]
             /\ r \notin Due => f[r] <= 0
  <2>1. Amount[r] \in Nat
    BY DEF LedgerAssumption
  <2>2. f[r] = Succeeded(attempts[r]) * Amount[r]
    BY <1>2
  <2>3. CASE Succeeded(attempts[r]) = 0
    <3>1. f[r] = 0
      BY <2>1, <2>2, <2>3
    <3> QED BY <2>1, <3>1
  <2>4. CASE Succeeded(attempts[r]) = 1
    <3>1. f[r] = Amount[r] /\ r \in Due
      BY <1>1, <2>1, <2>2, <2>4
    <3> QED BY <2>1, <3>1
  <2> QED BY <1>1, <2>3, <2>4
<1>4. Due \in SUBSET Records /\ IsFiniteSet(Records)
  BY DEF Due, Recovered, LedgerAssumption
<1>5. /\ SumFunctionOnSet(f, Records) \in Int /\ SumFunctionOnSet(Amount, Due) \in Int
      /\ SumFunctionOnSet(f, Records) <= SumFunctionOnSet(Amount, Due)
  BY <1>3, <1>4, SumLess
<1> QED BY <1>2, <1>5 DEF Credit, AmountOf

-----------------------------------------------------------------------------
Figures == {"next", "recovered", "open", "ended", "known", "spend", "netThen", "bucketed",
            "classified", "attributed", "creditable", "scored", "keys", "baseline"}

\* A report under way, with what the statements to come will have to agree with.
UnderWay ==
  /\ report.next \in {"headline", "spend", "root causes", "interventions", "accuracy", "done"}
  /\ report.next \in {"spend", "root causes"} =>
       report.recovered \in Int /\ report.recovered <= AmountOf(Recovered)
  /\ report.next \in {"interventions", "accuracy", "done"} => report.recovered <= report.bucketed
  /\ report.next \in {"interventions", "accuracy"} =>
       report.classified \in Int /\ report.classified <= Cardinality(Taken)
  /\ NetIsEarned /\ CreditIsDue /\ NobodyUncounted

ReportInv ==
  /\ Figures \subseteq DOMAIN report
  /\ view = "report" => AttemptsInv /\ UnderWay
  /\ view = "baseline" => report.next \in {"headline", "baseline"} /\ BaselineIsFair
  /\ view \notin {"report", "baseline"} => report.next = "headline"

\* Between two statements.
LEMMA LedgerUnderWay ==
  ASSUME LedgerAssumption, AttemptsInv, UnderWay, LedgerNext, UNCHANGED report
  PROVE  AttemptsInv' /\ UnderWay'
<1>1. AttemptsInv' /\ Recovered \subseteq Recovered' /\ Taken \subseteq Taken'
  BY LedgerAttempts, LedgerGrows
<1>2. /\ AmountOf(Recovered) \in Nat /\ AmountOf(Recovered') \in Nat
      /\ AmountOf(Recovered) <= AmountOf(Recovered')
      /\ Cardinality(Taken) \in Nat /\ Cardinality(Taken') \in Nat
      /\ Cardinality(Taken) <= Cardinality(Taken')
  BY <1>1, FiguresGrow
<1>3. ASSUME report.next \in {"spend", "root causes"}
      PROVE  report.recovered \in Int /\ report.recovered <= AmountOf(Recovered')
  <2>1. PICK x \in Int : x = report.recovered /\ x <= AmountOf(Recovered)
    BY <1>3 DEF UnderWay
  <2>2. x <= AmountOf(Recovered')
    BY <1>2, <2>1
  <2> QED BY <2>1, <2>2
<1>4. ASSUME report.next \in {"interventions", "accuracy"}
      PROVE  report.classified \in Int /\ report.classified <= Cardinality(Taken')
  <2>1. PICK x \in Int : x = report.classified /\ x <= Cardinality(Taken)
    BY <1>4 DEF UnderWay
  <2>2. x <= Cardinality(Taken')
    BY <1>2, <2>1
  <2> QED BY <2>1, <2>2
<1>5. (NetIsEarned /\ CreditIsDue /\ NobodyUncounted)'
  BY DEF UnderWay, NetIsEarned, CreditIsDue, NobodyUncounted, NetRecovered
<1> QED BY <1>1, <1>3, <1>4, <1>5 DEF UnderWay

LEMMA StatementsUnderWay ==
  ASSUME LedgerAssumption, Figures \subseteq DOMAIN report, AttemptsInv, UnderWay, ReportNext
  PROVE  Figures \subseteq DOMAIN report' /\ AttemptsInv' /\ UnderWay'
<1>1. UNCHANGED ledgerVars
  BY DEF ReportNext, ReadTotals, ReadHeadline, ReadSpend, ReadRootCauses, ReadInterventions,
         ReadAccuracy, EndReport
<1>2. AttemptsInv' /\ Recovered' = Recovered /\ Taken' = Taken
  BY <1>1 DEF ledgerVars, AttemptsInv, AttemptTypes, Attempted, Recovered, Taken
<1>3. AmountOf(Recovered) \in Nat /\ Cardinality(Taken) \in Nat
  <2>1. IsFiniteSet(Records) /\ Recovered \in SUBSET Records /\ Taken \in SUBSET Records
        /\ \A r \in Records : Amount[r] \in Nat
    BY DEF LedgerAssumption, Recovered, Taken
  <2> QED BY <2>1, SumGrows, FS_Subset, FS_CardinalityType DEF AmountOf
<1>4. CASE ReadHeadline
  <2>1. report' = [NoReport EXCEPT
       !.next = "spend", !.recovered = AmountOf(Recovered),
       !.open = Cardinality({r \in Records : state[r] \in inFlightStates}),
       !.ended = Cardinality({r \in Records : state[r] \in Terminal}),
       !.known = Cardinality(Taken)]
    BY <1>4 DEF ReadHeadline, Taken
  <2>2. /\ report'.next = "spend" /\ report'.recovered = AmountOf(Recovered)
        /\ report'.open = Cardinality({r \in Records : state[r] \in inFlightStates})
        /\ report'.ended = Cardinality({r \in Records : state[r] \in Terminal})
        /\ report'.known = Cardinality(Taken) /\ Figures \subseteq DOMAIN report'
    BY <2>1 DEF NoReport, Figures
  <2>3. report'.open + report'.ended = report'.known
    BY <2>2, OpenOrEnded
  <2>4. report'.recovered \in Int /\ report'.recovered <= AmountOf(Recovered')
    BY <1>2, <1>3, <2>2
  <2>5. NetIsEarned' /\ CreditIsDue' /\ NobodyUncounted'
    BY <2>2, <2>3 DEF NetIsEarned, CreditIsDue, NobodyUncounted
  <2> QED BY <1>2, <2>2, <2>4, <2>5 DEF UnderWay
<1>5. CASE ReadSpend
  <2>1. PICK s \in Int : s = Spending(Records)
    BY SpendingIsInt
  <2>2. /\ report' = [report EXCEPT !.next = "root causes", !.spend = s,
                                    !.netThen = AmountOf(Recovered) - s]
        /\ report.next = "spend"
    BY <1>5, <2>1 DEF ReadSpend
  <2>3. /\ report'.next = "root causes" /\ report'.spend = s /\ report'.netThen = AmountOf(Recovered) - s
        /\ report'.recovered = report.recovered /\ Figures \subseteq DOMAIN report'
    BY <2>2 DEF Figures
  <2>4. report.recovered \in Int /\ report.recovered <= AmountOf(Recovered)
    BY <2>2 DEF UnderWay
  <2>5. PICK x \in Int, b \in Int : x = report.recovered /\ b = AmountOf(Recovered) /\ x <= b
    BY <1>3, <2>4
  <2>6. x - s <= b - s
    BY <2>5
  <2>7. report'.recovered - report'.spend <= report'.netThen
    BY <2>3, <2>5, <2>6
  <2>8. report'.recovered \in Int /\ report'.recovered <= AmountOf(Recovered')
    BY <1>2, <2>3, <2>4
  <2>9. NetIsEarned' /\ CreditIsDue' /\ NobodyUncounted'
    BY <2>3, <2>7 DEF NetIsEarned, CreditIsDue, NobodyUncounted, NetRecovered
  <2> QED BY <1>2, <2>3, <2>8, <2>9 DEF UnderWay
<1>6. CASE ReadRootCauses
  <2>1. /\ report' = [report EXCEPT !.next = "interventions", !.bucketed = AmountOf(Recovered),
                                    !.classified = Cardinality(Taken)]
        /\ report.next = "root causes"
    BY <1>6 DEF ReadRootCauses, Taken
  <2>2. /\ report'.next = "interventions" /\ report'.bucketed = AmountOf(Recovered)
        /\ report'.classified = Cardinality(Taken)
        /\ report'.recovered = report.recovered /\ report'.spend = report.spend
        /\ report'.netThen = report.netThen /\ Figures \subseteq DOMAIN report'
    BY <2>1 DEF Figures
  <2>3. report.recovered <= AmountOf(Recovered) /\ report.recovered - report.spend <= report.netThen
    BY <2>1 DEF UnderWay, NetIsEarned, NetRecovered
  <2>4. report'.recovered <= report'.bucketed
    BY <2>2, <2>3
  <2>5. report'.classified \in Int /\ report'.classified <= Cardinality(Taken')
    BY <1>2, <1>3, <2>2
  <2>6. NetIsEarned' /\ CreditIsDue' /\ NobodyUncounted'
    BY <2>2, <2>3 DEF NetIsEarned, CreditIsDue, NobodyUncounted, NetRecovered
  <2> QED BY <1>2, <2>2, <2>4, <2>5, <2>6 DEF UnderWay
<1>7. CASE ReadInterventions
  <2>1. /\ report' = [report EXCEPT !.next = "accuracy", !.attributed = Credit,
                                    !.creditable = AmountOf(Due)]
        /\ report.next = "interventions"
    BY <1>7 DEF ReadInterventions, Credit, Due, Succeeded
  <2>2. /\ report'.next = "accuracy" /\ report'.attributed = Credit /\ report'.creditable = AmountOf(Due)
        /\ report'.recovered = report.recovered /\ report'.bucketed = report.bucketed
        /\ report'.spend = report.spend /\ report'.netThen = report.netThen
        /\ report'.classified = report.classified /\ Figures \subseteq DOMAIN report'
    BY <2>1 DEF Figures
  <2>3. /\ report.recovered <= report.bucketed /\ report.recovered - report.spend <= report.netThen
        /\ report.classified \in Int /\ report.classified <= Cardinality(Taken)
    BY <2>1 DEF UnderWay, NetIsEarned, NetRecovered
  <2>4. Credit <= AmountOf(Due)
    BY CreditIsCovered
  <2> QED BY <1>2, <2>2, <2>3, <2>4 DEF UnderWay, NetIsEarned, CreditIsDue, NobodyUncounted, NetRecovered
<1>8. CASE ReadAccuracy
  <2>1. /\ report' = [report EXCEPT !.next = "done", !.scored = Cardinality(Taken)]
        /\ report.next = "accuracy"
    BY <1>8 DEF ReadAccuracy, Taken
  <2>2. /\ report'.next = "done" /\ report'.scored = Cardinality(Taken)
        /\ report'.attributed = report.attributed /\ report'.creditable = report.creditable
        /\ report'.recovered = report.recovered /\ report'.bucketed = report.bucketed
        /\ report'.spend = report.spend /\ report'.netThen = report.netThen
        /\ report'.classified = report.classified /\ Figures \subseteq DOMAIN report'
    BY <2>1 DEF Figures
  <2>3. /\ report.recovered <= report.bucketed /\ report.recovered - report.spend <= report.netThen
        /\ report.classified \in Int /\ report.classified <= Cardinality(Taken)
        /\ report.attributed <= report.creditable
    BY <2>1 DEF UnderWay, NetIsEarned, CreditIsDue, NetRecovered
  <2>4. report'.scored >= report'.classified
    BY <1>3, <2>2, <2>3
  <2> QED BY <1>2, <2>2, <2>3, <2>4 DEF UnderWay, NetIsEarned, CreditIsDue, NobodyUncounted, NetRecovered
<1>9. CASE EndReport
  <2>1. report' = NoReport
    BY <1>9 DEF EndReport
  <2>2. report'.next = "headline" /\ Figures \subseteq DOMAIN report'
    BY <2>1 DEF NoReport, Figures
  <2> QED BY <1>2, <2>2 DEF UnderWay, NetIsEarned, CreditIsDue, NobodyUncounted
<1> QED BY <1>4, <1>5, <1>6, <1>7, <1>8, <1>9 DEF ReportNext, ReadTotals

-----------------------------------------------------------------------------
(***************************************************************************)
(* The baseline.  The ways four dice can fall are counted by the first     *)
(* retry that pays: boxes of dice, one side for each of them.              *)
(***************************************************************************)
Box(A, B, C, D) ==
  {dice \in [1..4 -> A \union B \union C \union D] :
     dice[1] \in A /\ dice[2] \in B /\ dice[3] \in C /\ dice[4] \in D}

LEMMA BoxSize ==
  ASSUME NEW A, NEW B, NEW C, NEW D,
         IsFiniteSet(A), IsFiniteSet(B), IsFiniteSet(C), IsFiniteSet(D)
  PROVE  /\ IsFiniteSet(Box(A, B, C, D))
         /\ Cardinality(Box(A, B, C, D))
              = Cardinality(A) * Cardinality(B) * Cardinality(C) * Cardinality(D)
<1>1. PICK S : S = ((A \X B) \X C) \X D
  OBVIOUS
<1>2. /\ IsFiniteSet(S)
      /\ Cardinality(S) = Cardinality(A) * Cardinality(B) * Cardinality(C) * Cardinality(D)
  <2>1. IsFiniteSet(A \X B) /\ Cardinality(A \X B) = Cardinality(A) * Cardinality(B)
    BY FS_Product
  <2>2. /\ IsFiniteSet((A \X B) \X C)
        /\ Cardinality((A \X B) \X C) = Cardinality(A \X B) * Cardinality(C)
    BY <2>1, FS_Product
  <2>3. IsFiniteSet(S) /\ Cardinality(S) = Cardinality((A \X B) \X C) * Cardinality(D)
    BY <1>1, <2>2, FS_Product
  <2> QED BY <2>1, <2>2, <2>3
<1>3. PICK T : T = Box(A, B, C, D)
  OBVIOUS
<1>4. PICK U : U = A \union B \union C \union D
  OBVIOUS
<1>5. PICK f : f = [x \in S |-> [i \in 1..4 |-> IF i = 1 THEN x[1][1][1]
                                               ELSE IF i = 2 THEN x[1][1][2]
                                               ELSE IF i = 3 THEN x[1][2] ELSE x[2]]]
  OBVIOUS
<1>6. ASSUME NEW x \in S
      PROVE  /\ f[x] \in T
             /\ f[x][1] = x[1][1][1] /\ f[x][2] = x[1][1][2] /\ f[x][3] = x[1][2] /\ f[x][4] = x[2]
             /\ x = <<<<<<x[1][1][1], x[1][1][2]>>, x[1][2]>>, x[2]>>
  <2>1. x[1][1][1] \in A /\ x[1][1][2] \in B /\ x[1][2] \in C /\ x[2] \in D
        /\ x = <<<<<<x[1][1][1], x[1][1][2]>>, x[1][2]>>, x[2]>>
    BY <1>1
  <2>2. f[x] = [i \in 1..4 |-> IF i = 1 THEN x[1][1][1]
                               ELSE IF i = 2 THEN x[1][1][2]
                               ELSE IF i = 3 THEN x[1][2] ELSE x[2]]
    BY <1>5
  <2>3. f[x][1] = x[1][1][1] /\ f[x][2] = x[1][1][2] /\ f[x][3] = x[1][2] /\ f[x][4] = x[2]
    BY <2>2
  <2>4. f[x] \in [1..4 -> U]
    BY <1>4, <2>1, <2>2
  <2>5. f[x] \in T
    BY <1>3, <1>4, <2>1, <2>3, <2>4 DEF Box
  <2> QED BY <2>1, <2>3, <2>5
<1>7. f \in [S -> T]
  BY <1>5, <1>6
<1>8. \A x, y \in S : f[x] = f[y] => x = y
  BY <1>6
<1>9. ASSUME NEW d \in T PROVE \E x \in S : f[x] = d
  <2>1. PICK x : x = <<<<<<d[1], d[2]>>, d[3]>>, d[4]>>
    OBVIOUS
  <2>2. d \in [1..4 -> U] /\ d[1] \in A /\ d[2] \in B /\ d[3] \in C /\ d[4] \in D
    BY <1>3, <1>4 DEF Box
  <2>3. /\ x \in S /\ x[1][1][1] = d[1] /\ x[1][1][2] = d[2]
        /\ x[1][2] = d[3] /\ x[2] = d[4]
    BY <1>1, <2>1, <2>2
  <2>4. f[x] \in [1..4 -> U]
    BY <1>3, <1>4, <1>6, <2>3 DEF Box
  <2>5. \A i \in 1..4 : f[x][i] = d[i]
    <3>1. f[x][1] = d[1] /\ f[x][2] = d[2] /\ f[x][3] = d[3] /\ f[x][4] = d[4]
      BY <1>6, <2>3
    <3>2. \A i \in 1..4 : i = 1 \/ i = 2 \/ i = 3 \/ i = 4
      OBVIOUS
    <3> QED BY <3>1, <3>2
  <2>6. f[x] = d
    BY <2>2, <2>4, <2>5
  <2> QED BY <2>3, <2>6
<1>10. f \in Bijection(S, T)
  BY <1>7, <1>8, <1>9 DEF Bijection, Injection, Surjection, IsInjective
<1>11. ExistsBijection(S, T)
  BY <1>10 DEF ExistsBijection
<1> QED BY <1>2, <1>3, <1>11, FS_Bijection

-----------------------------------------------------------------------------
Marked(x, A) == IF x \in A THEN 1 ELSE 0

LEMMA MarkCounts ==
  ASSUME NEW s, IsFiniteSet(s), NEW x, x \notin s, NEW A
  PROVE  /\ Cardinality(s \intersect A) \in Nat
         /\ Cardinality((s \union {x}) \intersect A) = Cardinality(s \intersect A) + Marked(x, A)
<1>1. IsFiniteSet(s \intersect A) /\ Cardinality(s \intersect A) \in Nat
  <2>1. s \intersect A \in SUBSET s
    OBVIOUS
  <2> QED BY <2>1, FS_Subset, FS_CardinalityType
<1>2. CASE x \in A
  <2>1. (s \union {x}) \intersect A = (s \intersect A) \union {x} /\ x \notin s \intersect A
    BY <1>2
  <2> QED BY <1>1, <1>2, <2>1, FS_AddElement DEF Marked
<1>3. CASE x \notin A
  <2>1. (s \union {x}) \intersect A = s \intersect A
    BY <1>3
  <2>2. Cardinality((s \union {x}) \intersect A) = Cardinality(s \intersect A)
    BY <2>1, Zenon
  <2>3. Marked(x, A) = 0
    BY <1>3 DEF Marked
  <2> QED BY <1>1, <2>2, <2>3
<1> QED BY <1>2, <1>3

\* A price for each element, and once more for each set that it is in.
LEMMA SumCounts ==
  ASSUME NEW S, IsFiniteSet(S), NEW A \in SUBSET S, NEW B \in SUBSET S, NEW C \in SUBSET S,
         NEW f, \A x \in S : f[x] = 25 * (1 + Marked(x, A) + Marked(x, B) + Marked(x, C))
  PROVE  SumFunctionOnSet(f, S) = 25 * (Cardinality(S) + Cardinality(A) + Cardinality(B) + Cardinality(C))
<1> DEFINE F(s) == SumFunctionOnSet(f, s)
           N(s, X) == Cardinality(s \intersect X)
<1>1. PICK P : P = {s \in SUBSET S : F(s) = 25 * (Cardinality(s) + N(s, A) + N(s, B) + N(s, C))}
  OBVIOUS
<1>2. {} \in P
  <2>1. F({}) = 0 /\ Cardinality({}) = 0
    BY FS_EmptySet, SumFirst
  <2>2. N({}, A) = 0 /\ N({}, B) = 0 /\ N({}, C) = 0
    <3>1. ASSUME NEW X PROVE Cardinality({} \intersect X) = 0
      <4>1. {} \intersect X = {}
        OBVIOUS
      <4> QED BY <2>1, <4>1, Zenon
    <3> QED BY <3>1, Zenon
  <2>3. {} \in SUBSET S
    OBVIOUS
  <2> HIDE DEF F, N
  <2> QED BY <1>1, <2>1, <2>2, <2>3
<1>3. ASSUME NEW s \in SUBSET S, NEW x \in S \ s, s \in P PROVE s \union {x} \in P
  <2>1. IsFiniteSet(s) /\ Cardinality(s) \in Nat /\ Cardinality(s \union {x}) = Cardinality(s) + 1
    BY FS_Subset, FS_CardinalityType, FS_AddElement
  <2>2. \A y \in S : f[y] \in Int
    BY DEF Marked
  <2>3. F(s \union {x}) = f[x] + F(s)
    BY <2>1, <2>2, SumAdds
  <2>4. /\ N(s, A) \in Nat /\ N(s \union {x}, A) = N(s, A) + Marked(x, A)
        /\ N(s, B) \in Nat /\ N(s \union {x}, B) = N(s, B) + Marked(x, B)
        /\ N(s, C) \in Nat /\ N(s \union {x}, C) = N(s, C) + Marked(x, C)
    <3>1. x \notin s
      OBVIOUS
    <3>2. \A X : /\ Cardinality(s \intersect X) \in Nat
                 /\ Cardinality((s \union {x}) \intersect X) = Cardinality(s \intersect X) + Marked(x, X)
      BY <2>1, <3>1, MarkCounts
    <3> QED BY <3>2, Zenon
  <2>5. F(s) = 25 * (Cardinality(s) + N(s, A) + N(s, B) + N(s, C)) /\ s \union {x} \in SUBSET S
    BY <1>1, <1>3
  <2>6. f[x] = 25 * (1 + Marked(x, A) + Marked(x, B) + Marked(x, C))
    OBVIOUS
  <2>7. Marked(x, A) \in Int /\ Marked(x, B) \in Int /\ Marked(x, C) \in Int
    BY DEF Marked
  <2> HIDE DEF F, N
  <2>8. F(s \union {x}) = 25 * (Cardinality(s \union {x}) + N(s \union {x}, A) + N(s \union {x}, B)
                                + N(s \union {x}, C))
    <3>1. PICK n \in Nat, a \in Nat, b \in Nat, c \in Nat :
            n = Cardinality(s) /\ a = N(s, A) /\ b = N(s, B) /\ c = N(s, C)
      BY <2>1, <2>4
    <3>2. PICK i \in Int, j \in Int, k \in Int :
            i = Marked(x, A) /\ j = Marked(x, B) /\ k = Marked(x, C)
      BY <2>7
    <3>3. F(s \union {x}) = 25 * (1 + i + j + k) + 25 * (n + a + b + c)
      BY <2>3, <2>5, <2>6, <3>1, <3>2
    <3>4. 25 * (1 + i + j + k) + 25 * (n + a + b + c) = 25 * ((n + 1) + (a + i) + (b + j) + (c + k))
      OBVIOUS
    <3> QED BY <2>1, <2>4, <3>1, <3>2, <3>3, <3>4
  <2> QED BY <1>1, <2>5, <2>8
<1>4. S \in P
  BY <1>2, <1>3, Gather
<1>5. S \intersect A = A /\ S \intersect B = B /\ S \intersect C = C
  OBVIOUS
<1> QED BY <1>1, <1>4, <1>5

-----------------------------------------------------------------------------
Faces == 0..(Sides - 1)

\* Faces on which an attempt with action fails.
Misses(key, action) == {face \in Faces : ~Pays(key, action, face)}
Odds(key, action)   == IF key.right = action THEN key.p ELSE key.wrong

LEMMA MissesCount ==
  ASSUME ReportAssumption, NEW key \in Answers, NEW action
  PROVE  /\ Odds(key, action) \in 0..Sides
         /\ IsFiniteSet(Misses(key, action))
         /\ Cardinality(Misses(key, action)) = Sides - Odds(key, action)
<1>1. PICK k : k = Odds(key, action)
  OBVIOUS
<1>2. k \in 0..Sides /\ Sides \in Nat
  BY <1>1 DEF Odds, ReportAssumption
<1>3. Misses(key, action) = k..(Sides - 1)
  <2>1. \A face \in Faces : Pays(key, action, face) <=> face < k
    BY <1>1 DEF Pays, Odds
  <2> QED BY <1>2, <2>1 DEF Misses, Faces
<1>4. /\ IsFiniteSet(k..(Sides - 1))
      /\ Cardinality(k..(Sides - 1)) = IF k > Sides - 1 THEN 0 ELSE (Sides - 1) - k + 1
  BY <1>2, FS_Interval
<1>5. Cardinality(k..(Sides - 1)) = Sides - k
  BY <1>2, <1>4
<1> QED BY <1>1, <1>2, <1>3, <1>4, <1>5, Zenon

LEMMA FacesCount ==
  ASSUME ReportAssumption
  PROVE  Sides \in Nat /\ IsFiniteSet(Faces) /\ Cardinality(Faces) = Sides
<1>1. Sides \in Nat /\ Sides >= 1 /\ Sides - 1 \in Int
  BY DEF ReportAssumption
<1>2. /\ IsFiniteSet(0..(Sides - 1))
      /\ Cardinality(0..(Sides - 1)) = IF 0 > Sides - 1 THEN 0 ELSE (Sides - 1) - 0 + 1
  BY <1>1, FS_Interval
<1>3. Cardinality(0..(Sides - 1)) = Sides
  BY <1>1, <1>2
<1> QED BY <1>1, <1>2, <1>3 DEF Faces

\* Falls of the dice with sides from given sets.
Falls(A, B, C, D) == {dice \in Dice : dice[1] \in A /\ dice[2] \in B /\ dice[3] \in C /\ dice[4] \in D}

LEMMA FallsCount ==
  ASSUME ReportAssumption,
         NEW A \in SUBSET Faces, NEW B \in SUBSET Faces, NEW C \in SUBSET Faces, NEW D \in SUBSET Faces
  PROVE  /\ IsFiniteSet(Falls(A, B, C, D))
         /\ Cardinality(Falls(A, B, C, D))
              = Cardinality(A) * Cardinality(B) * Cardinality(C) * Cardinality(D)
<1>1. Falls(A, B, C, D) = Box(A, B, C, D)
  <2>1. ASSUME NEW dice \in Falls(A, B, C, D) PROVE dice \in Box(A, B, C, D)
    <3>1. /\ dice \in [1..4 -> Faces]
          /\ dice[1] \in A /\ dice[2] \in B /\ dice[3] \in C /\ dice[4] \in D
      BY DEF Falls, Dice, Faces
    <3>2. \A i \in 1..4 : dice[i] \in A \union B \union C \union D
      <4>1. \A i \in 1..4 : i = 1 \/ i = 2 \/ i = 3 \/ i = 4
        OBVIOUS
      <4> QED BY <3>1, <4>1
    <3>3. dice \in [1..4 -> A \union B \union C \union D]
      BY <3>1, <3>2
    <3> QED BY <3>1, <3>3 DEF Box
  <2>2. ASSUME NEW dice \in Box(A, B, C, D) PROVE dice \in Falls(A, B, C, D)
    <3>1. /\ dice \in [1..4 -> A \union B \union C \union D]
          /\ dice[1] \in A /\ dice[2] \in B /\ dice[3] \in C /\ dice[4] \in D
      BY DEF Box
    <3>2. dice \in [1..4 -> Faces]
      BY <3>1
    <3> QED BY <3>1, <3>2 DEF Falls, Dice, Faces
  <2> QED BY <2>1, <2>2
<1>2. IsFiniteSet(A) /\ IsFiniteSet(B) /\ IsFiniteSet(C) /\ IsFiniteSet(D)
  BY FacesCount, FS_Subset
<1>3. /\ IsFiniteSet(Box(A, B, C, D))
      /\ Cardinality(Box(A, B, C, D))
           = Cardinality(A) * Cardinality(B) * Cardinality(C) * Cardinality(D)
  BY <1>2, BoxSize
<1>4. /\ Cardinality(Falls(A, B, C, D)) = Cardinality(Box(A, B, C, D))
      /\ IsFiniteSet(Box(A, B, C, D)) => IsFiniteSet(Falls(A, B, C, D))
  BY <1>1, Zenon
<1> QED BY <1>3, <1>4

\* The ways in which the first one, two, three retries fail, and the reminder too.
LEMMA WaysToFail ==
  ASSUME ReportAssumption, NEW key \in Answers, NEW m, m = Misses(key, "RETRY"),
         NEW o, o = Misses(key, "NUDGE_REMINDER"), NEW q, q = Sides - Odds(key, "RETRY"),
         NEW p, p = Sides - Odds(key, "NUDGE_REMINDER")
  PROVE  /\ Sides \in Nat /\ q \in Nat /\ p \in Nat
         /\ IsFiniteSet(Dice) /\ Cardinality(Dice) = Sides * Sides * Sides * Sides
         /\ Cardinality(Falls(m, Faces, Faces, Faces)) = q * Sides * Sides * Sides
         /\ Cardinality(Falls(m, m, Faces, Faces)) = q * q * Sides * Sides
         /\ Cardinality(Falls(m, m, m, Faces)) = q * q * q * Sides
         /\ Cardinality(Falls(m, m, m, o)) = q * q * q * p
<1>1. m \in SUBSET Faces /\ o \in SUBSET Faces /\ Faces \in SUBSET Faces
  BY DEF Misses
<1>2. /\ Cardinality(m) = q /\ Cardinality(o) = p /\ Cardinality(Faces) = Sides
      /\ Sides \in Nat /\ q \in Nat /\ p \in Nat
  BY MissesCount, FacesCount
<1>3. Dice = Falls(Faces, Faces, Faces, Faces)
  BY DEF Dice, Falls, Faces
<1>4. /\ IsFiniteSet(Falls(Faces, Faces, Faces, Faces))
      /\ Cardinality(Falls(Faces, Faces, Faces, Faces)) = Sides * Sides * Sides * Sides
  BY <1>1, <1>2, FallsCount
<1>5. IsFiniteSet(Dice) /\ Cardinality(Dice) = Sides * Sides * Sides * Sides
  BY <1>3, <1>4, Zenon
<1>6. Cardinality(Falls(m, Faces, Faces, Faces)) = q * Sides * Sides * Sides
  BY <1>1, <1>2, FallsCount
<1>7. Cardinality(Falls(m, m, Faces, Faces)) = q * q * Sides * Sides
  BY <1>1, <1>2, FallsCount
<1>8. Cardinality(Falls(m, m, m, Faces)) = q * q * q * Sides
  BY <1>1, <1>2, FallsCount
<1>9. Cardinality(Falls(m, m, m, o)) = q * q * q * p
  BY <1>1, <1>2, FallsCount
<1> QED BY <1>2, <1>5, <1>6, <1>7, <1>8, <1>9

-----------------------------------------------------------------------------
\* How many retries are made: one, and one more for each that has failed.
LEMMA RetriesCount ==
  ASSUME ReportAssumption, NEW key \in Answers, NEW dice \in Dice,
         NEW m, m = Misses(key, "RETRY")
  PROVE  /\ Retried(key, dice) = 1 + Marked(dice, Falls(m, Faces, Faces, Faces))
                                   + Marked(dice, Falls(m, m, Faces, Faces))
         /\ RetriesFail(key, dice) <=> dice \in Falls(m, m, m, Faces)
<1>1. /\ dice[1] \in Faces /\ dice[2] \in Faces /\ dice[3] \in Faces /\ dice[4] \in Faces
  BY DEF Dice, Faces
<1>2. \A i \in 1..3 : dice[i] \in m <=> ~Pays(key, "RETRY", dice[i])
  BY <1>1 DEF Misses
<1>3. PICK P : P = {i \in 1..3 : Pays(key, "RETRY", dice[i])}
  OBVIOUS
<1>4. Retried(key, dice) = IF P = {} THEN 3 ELSE CHOOSE i \in P : \A j \in P : i <= j
  BY <1>3 DEF Retried
<1>5. \A i \in 1..3 : i \in P <=> dice[i] \notin m
  BY <1>2, <1>3
<1>6. P \subseteq 1..3 /\ \A i \in P : i = 1 \/ i = 2 \/ i = 3
  BY <1>3
<1>7. /\ dice \in Falls(m, Faces, Faces, Faces) <=> dice[1] \in m
      /\ dice \in Falls(m, m, Faces, Faces) <=> (dice[1] \in m /\ dice[2] \in m)
      /\ dice \in Falls(m, m, m, Faces) <=> (dice[1] \in m /\ dice[2] \in m /\ dice[3] \in m)
  BY <1>1 DEF Falls
<1>8. RetriesFail(key, dice) <=> dice \in Falls(m, m, m, Faces)
  <2>1. \A i \in 1..3 : i = 1 \/ i = 2 \/ i = 3
    OBVIOUS
  <2> QED BY <1>2, <1>7, <2>1 DEF RetriesFail
<1>9. CASE dice[1] \notin m
  <2>1. 1 \in P /\ \A j \in P : 1 <= j
    BY <1>5, <1>6, <1>9
  <2>2. Retried(key, dice) = 1
    <3>1. \A i \in P : (\A j \in P : i <= j) => i = 1
      BY <1>6, <2>1
    <3> QED BY <1>4, <2>1, <3>1
  <2> QED BY <1>7, <1>8, <1>9, <2>2 DEF Marked
<1>10. CASE dice[1] \in m /\ dice[2] \notin m
  <2>1. 2 \in P /\ 1 \notin P
    BY <1>5, <1>10
  <2>2. \A j \in P : 2 <= j
    BY <1>6, <2>1
  <2>3. Retried(key, dice) = 2
    <3>1. \A i \in P : (\A j \in P : i <= j) => i = 2
      BY <1>6, <2>1, <2>2
    <3> QED BY <1>4, <2>1, <2>2, <3>1
  <2> QED BY <1>7, <1>8, <1>10, <2>3 DEF Marked
<1>11. CASE dice[1] \in m /\ dice[2] \in m
  <2>1. 2 \notin P /\ 1 \notin P
    BY <1>5, <1>11
  <2>2. \A j \in P : j = 3
    BY <1>6, <2>1
  <2>3. Retried(key, dice) = 3
    BY <1>4, <2>2
  <2> QED BY <1>7, <1>8, <1>11, <2>3 DEF Marked
<1> QED BY <1>8, <1>9, <1>10, <1>11

LEMMA PlayedRecoveredIsNaive ==
  ASSUME ReportAssumption, NEW key \in Answers, NEW amount \in Nat
  PROVE  PlayedRecovered(key, amount) \in Int /\ Naive(key, amount)[1] = PlayedRecovered(key, amount)
<1>1. PICK m : m = Misses(key, "RETRY")
  OBVIOUS
<1>2. PICK o : o = Misses(key, "NUDGE_REMINDER")
  OBVIOUS
<1>3. PICK q \in Int, p \in Int : q = Sides - Odds(key, "RETRY") /\ p = Sides - Odds(key, "NUDGE_REMINDER")
  BY MissesCount, FacesCount
<1>4. PICK L : L = Falls(m, m, m, o)
  OBVIOUS
<1>5. /\ Sides \in Nat /\ q \in Nat /\ p \in Nat
      /\ IsFiniteSet(Dice) /\ Cardinality(Dice) = Sides * Sides * Sides * Sides
      /\ Cardinality(L) = q * q * q * p
  BY <1>1, <1>2, <1>3, <1>4, WaysToFail
<1>6. PICK W : W = {dice \in Dice : RetriesFail(key, dice) => Pays(key, "NUDGE_REMINDER", dice[4])}
  OBVIOUS
<1>7. W = Dice \ L
  <2>1. ASSUME NEW dice \in Dice PROVE dice \in W <=> dice \notin L
    <3>1. RetriesFail(key, dice) <=> dice \in Falls(m, m, m, Faces)
      BY <1>1, RetriesCount
    <3>2. dice[4] \in Faces
      BY DEF Dice, Faces
    <3>3. dice[4] \in o <=> ~Pays(key, "NUDGE_REMINDER", dice[4])
      BY <1>2, <3>2 DEF Misses
    <3> QED BY <1>4, <1>6, <3>1, <3>2, <3>3 DEF Falls
  <2> QED BY <1>6, <2>1
<1>8. Cardinality(W) = Sides * Sides * Sides * Sides - q * q * q * p
  <2>1. L \intersect Dice = L /\ Dice \intersect L = L
    BY <1>4 DEF Falls
  <2>2. Cardinality(Dice \ L) = Cardinality(Dice) - Cardinality(Dice \intersect L)
    BY <1>5, FS_Difference
  <2>3. Cardinality(W) = Cardinality(Dice) - Cardinality(L)
    BY <1>7, <2>1, <2>2, Zenon
  <2> QED BY <1>5, <2>3
<1>9. PlayedRecovered(key, amount) = amount * Cardinality(W)
  BY <1>6, Zenon DEF PlayedRecovered
<1>10. PlayedRecovered(key, amount) = amount * (Sides * Sides * Sides * Sides - q * q * q * p)
  BY <1>8, <1>9
<1>11. Naive(key, amount)[1] = amount * (Sides * Sides * Sides * Sides - (q * q * q) * p)
  BY <1>3 DEF Naive, Odds
<1>12. PICK x \in Int : x = Sides * Sides * Sides * Sides - q * q * q * p
  BY <1>5
<1>13. amount * x \in Int
  BY <1>12
<1> QED BY <1>10, <1>11, <1>12, <1>13

LEMMA PlayedSpendIsNaive ==
  ASSUME ReportAssumption, NEW key \in Answers, NEW amount \in Nat
  PROVE  PlayedSpend(key) \in Int /\ Naive(key, amount)[2] = PlayedSpend(key)
<1>1. PICK m : m = Misses(key, "RETRY")
  OBVIOUS
<1>2. PICK o : o = Misses(key, "NUDGE_REMINDER")
  OBVIOUS
<1>3. PICK q \in Int, p \in Int : q = Sides - Odds(key, "RETRY") /\ p = Sides - Odds(key, "NUDGE_REMINDER")
  BY MissesCount, FacesCount
<1>4. PICK A : A = Falls(m, Faces, Faces, Faces)
  OBVIOUS
<1>5. PICK B : B = Falls(m, m, Faces, Faces)
  OBVIOUS
<1>6. PICK C : C = Falls(m, m, m, Faces)
  OBVIOUS
<1>7. /\ Sides \in Nat /\ q \in Nat /\ p \in Nat
      /\ IsFiniteSet(Dice) /\ Cardinality(Dice) = Sides * Sides * Sides * Sides
      /\ Cardinality(A) = q * Sides * Sides * Sides
      /\ Cardinality(B) = q * q * Sides * Sides
      /\ Cardinality(C) = q * q * q * Sides
  BY <1>1, <1>2, <1>3, <1>4, <1>5, <1>6, WaysToFail
<1>8. A \in SUBSET Dice /\ B \in SUBSET Dice /\ C \in SUBSET Dice
  BY <1>4, <1>5, <1>6 DEF Falls
<1>9. PICK f : f = [dice \in Dice |-> Retried(key, dice) * naiveRetryCostPaise
                      + (IF RetriesFail(key, dice) THEN naiveNudgeCostPaise ELSE 0)]
  OBVIOUS
<1>10. ASSUME NEW dice \in Dice
       PROVE  f[dice] = 25 * (1 + Marked(dice, A) + Marked(dice, B) + Marked(dice, C))
  <2>1. /\ Retried(key, dice) = 1 + Marked(dice, A) + Marked(dice, B)
        /\ RetriesFail(key, dice) <=> dice \in C
    BY <1>1, <1>4, <1>5, <1>6, RetriesCount
  <2>2. PICK i \in Int, j \in Int, k \in Int :
          i = Marked(dice, A) /\ j = Marked(dice, B) /\ k = Marked(dice, C)
    BY DEF Marked
  <2>3. (IF RetriesFail(key, dice) THEN 25 ELSE 0) = 25 * k
    BY <2>1, <2>2 DEF Marked
  <2>4. f[dice] = (1 + i + j) * 25 + 25 * k
    BY <1>9, <2>1, <2>2, <2>3 DEF naiveRetryCostPaise, naiveNudgeCostPaise
  <2> QED BY <2>2, <2>4
<1>11. SumFunctionOnSet(f, Dice) = 25 * (Cardinality(Dice) + Cardinality(A) + Cardinality(B) + Cardinality(C))
  BY <1>7, <1>8, <1>10, SumCounts
<1>12. PlayedSpend(key) = SumFunctionOnSet(f, Dice)
  BY <1>9, Zenon DEF PlayedSpend
<1>13. PlayedSpend(key) = 25 * (Sides * Sides * Sides * Sides + q * Sides * Sides * Sides
                                + q * q * Sides * Sides + q * q * q * Sides)
  BY <1>7, <1>11, <1>12
<1>14. Naive(key, amount)[2]
         = Sides * ((Sides * Sides * Sides + q * Sides * Sides + q * q * Sides) * 25 + (q * q * q) * 25)
  BY <1>3 DEF Naive, Odds, naiveRetryCostPaise, naiveNudgeCostPaise
<1>15. Sides * ((Sides * Sides * Sides + q * Sides * Sides + q * q * Sides) * 25 + (q * q * q) * 25)
         = 25 * (Sides * Sides * Sides * Sides + q * Sides * Sides * Sides
                 + q * q * Sides * Sides + q * q * q * Sides)
  <2>1. PICK s \in Int : s = Sides
    BY <1>7
  <2>2. s * ((s * s * s + q * s * s + q * q * s) * 25 + (q * q * q) * 25)
         = 25 * (s * s * s * s + q * s * s * s + q * q * s * s + q * q * q * s)
    OBVIOUS
  <2> QED BY <2>1, <2>2
<1>16. 25 * (Sides * Sides * Sides * Sides + q * Sides * Sides * Sides
             + q * q * Sides * Sides + q * q * q * Sides) \in Int
  BY <1>7
<1> QED BY <1>13, <1>14, <1>15, <1>16

-----------------------------------------------------------------------------
LEMMA BaselinesAgree ==
  ASSUME LedgerAssumption, ReportAssumption, NEW keys \in [Records -> Answers]
  PROVE  baselineComparison(keys) =
           <<SumFunctionOnSet([r \in Records |-> PlayedRecovered(keys[r], Amount[r])], Records),
             SumFunctionOnSet([r \in Records |-> PlayedSpend(keys[r])], Records)>>
<1>1. PICK f : f = [r \in Records |-> PlayedRecovered(keys[r], Amount[r])]
  OBVIOUS
<1>2. PICK g : g = [r \in Records |-> PlayedSpend(keys[r])]
  OBVIOUS
<1>3. PICK n : n = [i \in 1..2 |-> [r \in Records |-> Naive(keys[r], Amount[r])[i]]]
  OBVIOUS
<1>4. \A r \in Records : keys[r] \in Answers /\ Amount[r] \in Nat
  BY DEF LedgerAssumption
<1>5. \A r \in Records : f[r] \in Int /\ n[1][r] = f[r]
  <2>1. n[1] = [r \in Records |-> Naive(keys[r], Amount[r])[1]]
    <3>1. 1 \in 1..2
      OBVIOUS
    <3> QED BY <1>3, <3>1, Zenon
  <2>2. \A r \in Records : n[1][r] = Naive(keys[r], Amount[r])[1]
    BY <2>1, Zenon
  <2> QED BY <1>1, <1>4, <2>2, PlayedRecoveredIsNaive
<1>6. \A r \in Records : g[r] \in Int /\ n[2][r] = g[r]
  <2>1. n[2] = [r \in Records |-> Naive(keys[r], Amount[r])[2]]
    <3>1. 2 \in 1..2
      OBVIOUS
    <3> QED BY <1>3, <3>1, Zenon
  <2>2. \A r \in Records : n[2][r] = Naive(keys[r], Amount[r])[2]
    BY <2>1, Zenon
  <2> QED BY <1>2, <1>4, <2>2, PlayedSpendIsNaive
<1>7. IsFiniteSet(Records)
  BY DEF LedgerAssumption
<1>8. SumFunctionOnSet(f, Records) = SumFunctionOnSet(n[1], Records)
  BY <1>5, <1>7, SumSame
<1>9. SumFunctionOnSet(g, Records) = SumFunctionOnSet(n[2], Records)
  BY <1>6, <1>7, SumSame
<1>10. baselineComparison(keys) = [i \in 1..2 |-> SumFunctionOnSet(n[i], Records)]
  BY <1>3 DEF baselineComparison
<1>11. baselineComparison(keys) = <<SumFunctionOnSet(n[1], Records), SumFunctionOnSet(n[2], Records)>>
  BY <1>10
<1> QED BY <1>1, <1>2, <1>8, <1>9, <1>11

LEMMA ReadBaselineIsFair ==
  ASSUME LedgerAssumption, ReportAssumption, Figures \subseteq DOMAIN report, ReadBaseline
  PROVE  Figures \subseteq DOMAIN report' /\ report'.next = "baseline" /\ BaselineIsFair'
<1>1. PICK keys \in [Records -> Answers] :
        report' = [NoReport EXCEPT !.next = "baseline", !.keys = keys,
                                   !.baseline = baselineComparison(keys)]
  BY DEF ReadBaseline
<1>2. /\ Figures \subseteq DOMAIN report' /\ report'.next = "baseline"
      /\ report'.keys = keys /\ report'.baseline = baselineComparison(keys)
  BY <1>1 DEF NoReport, Figures
<1>3. report'.baseline =
        <<SumFunctionOnSet([r \in Records |-> PlayedRecovered(report'.keys[r], Amount[r])], Records),
          SumFunctionOnSet([r \in Records |-> PlayedSpend(report'.keys[r])], Records)>>
  BY <1>2, BaselinesAgree
<1> QED BY <1>2, <1>3 DEF BaselineIsFair

-----------------------------------------------------------------------------
LEMMA ReportStarts == LedgerAssumption /\ ReadInit => ReportInv
<1> SUFFICES ASSUME LedgerAssumption, ReadInit PROVE ReportInv
  OBVIOUS
<1>1. report = NoReport
  BY DEF ReadInit, ReportInit
<1>2. Figures \subseteq DOMAIN report /\ report.next = "headline"
  BY <1>1 DEF NoReport, Figures
<1>3. AttemptsInv
  <2>1. /\ state = [r \in Records |-> "NEW"] /\ spent = [r \in Records |-> 0]
        /\ inFlight = [r \in Records |-> FALSE] /\ attempts = [r \in Records |-> <<>>]
    BY DEF ReadInit, LedgerInit, Init
  <2>2. <<>> \in Seq(Attempts)
    OBVIOUS
  <2>3. AttemptTypes
    BY <2>1, <2>2 DEF AttemptTypes, RestStates
  <2>4. \A r \in Records : Attempted("NEW", 0, FALSE, <<>>)
    BY DEF Attempted
  <2>5. \A r \in Records : state[r] = "NEW" /\ spent[r] = 0 /\ inFlight[r] = FALSE /\ attempts[r] = <<>>
    BY <2>1
  <2>6. \A r \in Records : Attempted(state[r], spent[r], inFlight[r], attempts[r])
    BY <2>4, <2>5, Zenon
  <2> QED BY <2>3, <2>6 DEF AttemptsInv
<1>4. UnderWay
  BY <1>2 DEF UnderWay, NetIsEarned, CreditIsDue, NobodyUncounted
<1>5. BaselineIsFair
  BY <1>2 DEF BaselineIsFair
<1> QED BY <1>2, <1>3, <1>4, <1>5 DEF ReportInv

\* Nothing that a report is put together from moves.
LEMMA ReportStays ==
  ASSUME ReportInv, UNCHANGED <<report, view>>, view = "report" => UNCHANGED ledgerVars
  PROVE  ReportInv'
<1>1. Figures \subseteq DOMAIN report'
  BY DEF ReportInv
<1>2. CASE view = "report"
  <2>1. /\ state' = state /\ spent' = spent /\ inFlight' = inFlight /\ attempts' = attempts
        /\ Recovered' = Recovered /\ Taken' = Taken /\ report' = report
    BY <1>2 DEF ledgerVars, Recovered, Taken
  <2>2. AttemptsInv' /\ UnderWay'
    BY <1>2, <2>1 DEF ReportInv, AttemptsInv, AttemptTypes, Attempted, UnderWay, NetIsEarned,
                      CreditIsDue, NobodyUncounted, NetRecovered
  <2> QED BY <1>1, <1>2, <2>2 DEF ReportInv
<1>3. CASE view = "baseline"
  BY <1>1, <1>3 DEF ReportInv, BaselineIsFair
<1>4. CASE view \notin {"report", "baseline"}
  BY <1>1, <1>4 DEF ReportInv
<1> QED BY <1>2, <1>3, <1>4

LEMMA ReportStep ==
  LedgerAssumption /\ ReportAssumption /\ ReportInv /\ [ReadNext]_readVars => ReportInv'
<1> SUFFICES ASSUME LedgerAssumption, ReportAssumption, ReportInv, [ReadNext]_readVars
             PROVE  ReportInv'
  OBVIOUS
<1>1. Figures \subseteq DOMAIN report
  BY DEF ReportInv
<1>2. CASE Reports
  <2>1. view = "report" /\ view' = view /\ AttemptsInv /\ UnderWay
    BY <1>2 DEF Reports, ReportInv
  <2>2. Figures \subseteq DOMAIN report' /\ AttemptsInv' /\ UnderWay'
    <3>1. CASE LedgerNext /\ UNCHANGED reportVars
      <4>1. UNCHANGED report
        BY <3>1 DEF reportVars
      <4> QED BY <1>1, <2>1, <3>1, <4>1, LedgerUnderWay
    <3>2. CASE ReportNext
      BY <1>1, <2>1, <3>2, StatementsUnderWay
    <3> QED BY <1>2, <3>1, <3>2 DEF Reports
  <2> QED BY <2>1, <2>2 DEF ReportInv
<1>3. CASE Compares
  <2>1. view = "baseline" /\ view' = view
    BY <1>3 DEF Compares
  <2>2. Figures \subseteq DOMAIN report' /\ report'.next \in {"headline", "baseline"} /\ BaselineIsFair'
    <3>1. CASE ReadBaseline
      BY <1>1, <3>1, ReadBaselineIsFair
    <3>2. CASE EndReport
      <4>1. report' = NoReport
        BY <3>2 DEF EndReport
      <4>2. report'.next = "headline" /\ Figures \subseteq DOMAIN report'
        BY <4>1 DEF NoReport, Figures
      <4> QED BY <4>2 DEF BaselineIsFair
    <3> QED BY <1>3, <3>1, <3>2 DEF Compares
  <2> QED BY <2>1, <2>2 DEF ReportInv
<1>4. CASE Audits \/ Lists \/ Watches
  <2>1. UNCHANGED <<report, view>> /\ view # "report"
    BY <1>4 DEF Audits, Lists, Watches, PageNext, AddRow, StartWalk, ReadPage, CountRows, reportVars
  <2> QED BY <2>1, ReportStays
<1>5. CASE UNCHANGED readVars
  <2>1. UNCHANGED <<report, view>> /\ UNCHANGED ledgerVars
    BY <1>5 DEF readVars, reportVars
  <2> QED BY <2>1, ReportStays
<1> QED BY <1>2, <1>3, <1>4, <1>5 DEF ReadNext

LEMMA HonestyShows == ReportInv => ReportIsHonest
<1> SUFFICES ASSUME ReportInv PROVE ReportIsHonest
  OBVIOUS
<1>1. CASE view = "report"
  <2>1. UnderWay /\ report.next # "baseline"
    BY <1>1 DEF ReportInv, UnderWay
  <2> QED BY <2>1 DEF UnderWay, ReportIsHonest, BaselineIsFair
<1>2. CASE view # "report"
  <2>1. report.next \in {"headline", "baseline"} /\ BaselineIsFair
    BY <1>2 DEF ReportInv, BaselineIsFair
  <2> QED BY <2>1 DEF ReportIsHonest, NetIsEarned, CreditIsDue, NobodyUncounted
<1> QED BY <1>1, <1>2

\* For any number of records and any amounts, and whatever the ledger does between
\* the statements of GetBatchReport: the net that is shown had been earned, nothing
\* is credited that is not recovered or about to be, no record that was taken up is
\* left uncounted; and for any answer keys the closed form of evaluateNaivePolicy
\* is the mean over all the ways the attempts of that policy can go.
THEOREM ReportsAreHonest == ReadSpec => []ReportIsHonest
<1>1. ReadInit => ReportInv
  BY ReportStarts, LedgerAssumption
<1>2. ReportInv /\ [ReadNext]_readVars => ReportInv'
  BY ReportStep, LedgerAssumption, ReportAssumption
<1>3. ReportInv => ReportIsHonest
  BY HonestyShows
<1> QED BY <1>1, <1>2, <1>3, PTL DEF ReadSpec
=============================================================================
