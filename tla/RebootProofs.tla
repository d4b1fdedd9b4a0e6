---------------------------- MODULE RebootProofs ----------------------------
(***************************************************************************)
(* What the checkpoint of a host reboot can be relied upon for, although   *)
(* requests and checks write it without a lock, for every number of        *)
(* processes and instances: every copy of a checkpoint that a process      *)
(* still holds is as true as the one on disk.                              *)
(***************************************************************************)
EXTENDS Reboot, TLAPS

Checks ==
    [pc : {"idle", "reconcile", "mcp", "tunnel", "http", "persist"},
     cp : Checkpoint \cup {None}, left : SUBSET Instances, at : Instances \cup {None},
     ok : BOOLEAN]

\* A copy of a checkpoint is of the past, and one of a request that this
\* boot answers to is of an earlier boot.
Dated(cp) ==
    /\ cp \in Checkpoint
    /\ cp.before <= boot /\ cp.id <= requests
    /\ cp.after # None => cp.after <= boot
    /\ origin # 0 => cp.before < boot \/ cp.id > origin

\* A verdict of this boot is about what came back in this boot.
Served(cp) ==
    (cp.state = "reconciled" /\ cp.after = boot) =>
        \A i \in DOMAIN cp.expected : CameBack(i, cp.expected[i])

\* What a check has found so far: of the instance it is at, what it has read.
Looking == {"mcp", "tunnel"}

FoundServed(k) ==
    /\ k.left \subseteq DOMAIN k.cp.expected
    /\ k.pc \in Looking => k.at \in DOMAIN k.cp.expected
    /\ k.ok =>
        /\ \A i \in DOMAIN k.cp.expected \ k.left :
                (k.pc \in Looking /\ i = k.at) \/ CameBack(i, k.cp.expected[i])
        /\ k.pc \in Looking => <<k.at, k.cp.expected[k.at]>> \in declared
        /\ k.pc = "tunnel" => HasBeenUp(k.at, "mcp", k.cp.expected[k.at])

\* A request that has got past its first write has left a checkpoint.
RequestInv(r) ==
    req[r].pc # "idle" =>
        /\ Dated(req[r].cp) /\ req[r].cp.state # "reconciled"
        /\ req[r].pc # "prepare" => checkpoint # None

CheckInv(c) ==
    /\ chk[c].pc # "idle" => Dated(chk[c].cp) /\ checkpoint # None
    /\ chk[c].pc = "persist" => Served(chk[c].cp)
    /\ chk[c].pc \notin {"idle", "persist"} => chk[c].cp.after = boot /\ FoundServed(chk[c])

\* What is up has been up, and where nothing has drifted only one declaration
\* has been there in this boot.
UpIsServed ==
    /\ \A i \in Instances : <<i, decl[i]>> \in declared
    /\ \A i \in Instances, u \in Units :
            <<i, u>> \in up => \E of \in Declarations : <<i, u, of>> \in served
    /\ \A i \in Instances \ drifted :
            /\ deployed[i] = decl[i]
            /\ \A d \in Declarations : <<i, d>> \in declared => d = decl[i]
            /\ \A u \in Units, of \in Declarations : <<i, u, of>> \in served => of = decl[i]

CheckpointInv ==
    /\ checkpoint # None => Dated(checkpoint) /\ Served(checkpoint)
    /\ rebooting # 0 \/ origin # 0 => checkpoint # None

RebootInv ==
    /\ RebootTypeOK /\ UpIsServed /\ CheckpointInv
    /\ \A r \in Requesters : RequestInv(r)
    /\ \A c \in Checkers : CheckInv(c)

LEMMA RebootInvInit == Init => RebootInv
<1> SUFFICES ASSUME Init PROVE RebootInv
    OBVIOUS
<1> USE RebootAssumption DEF Init
<1>1. RebootTypeOK
    <2>1. decl \in [Instances -> Declarations] /\ deployed = decl /\ Expected \subseteq Instances
        BY DEF Declarations, Expected
    <2>2. up \subseteq Instances \X Units
        BY <2>1
    <2>3. served \subseteq Instances \X Units \X Declarations
        BY <2>1, <2>2
    <2>4. declared \subseteq Instances \X Declarations
        BY <2>1 DEF DeclaredNow
    <2> QED
        BY <2>1, <2>2, <2>3, <2>4 DEF RebootTypeOK, IdleRequest, IdleCheck
<1>2. UpIsServed
    <2>1. \A i \in Instances, u \in Units : \A of : <<i, u, of>> \in served => of = decl[i]
        OBVIOUS
    <2>2. \A i \in Instances : decl[i] \in Declarations
        BY DEF Declarations
    <2>3. ASSUME NEW i \in Instances, NEW u \in Units, <<i, u>> \in up
          PROVE  <<i, u, decl[i]>> \in served
        BY <2>3
    <2>4. declared = {<<i, decl[i]>> : i \in Instances}
        BY DEF DeclaredNow
    <2>5. \A i \in Instances, u \in Units :
                <<i, u>> \in up => \E of \in Declarations : <<i, u, of>> \in served
        BY <2>2, <2>3
    <2>6. \A i \in Instances : \A d : <<i, d>> \in declared <=> d = decl[i]
        BY <2>4
    <2>7. deployed = decl
        OBVIOUS
    <2> QED
        BY ONLY <2>1, <2>5, <2>6, <2>7 DEF UpIsServed
<1>3. CheckpointInv
    BY DEF CheckpointInv
<1>4. (\A r \in Requesters : RequestInv(r)) /\ \A c \in Checkers : CheckInv(c)
    BY DEF RequestInv, CheckInv, IdleRequest, IdleCheck
<1> QED
    BY <1>1, <1>2, <1>3, <1>4 DEF RebootInv

HistoryGrows ==
    declared \subseteq declared' /\ served \subseteq served' /\ drifted \subseteq drifted'

LEMMA ExpectedAreDeclarations ==
    ASSUME NEW cp \in Checkpoint
    PROVE  /\ DOMAIN cp.expected \subseteq Instances
           /\ \A i \in DOMAIN cp.expected : cp.expected[i] \in Declarations
BY DEF Checkpoint

LEMMA BackStays ==
    ASSUME HistoryGrows, NEW i, NEW d \in Declarations
    PROVE  /\ \A u : HasBeenUp(i, u, d) => HasBeenUp(i, u, d)'
           /\ CameBack(i, d) => CameBack(i, d)'
BY DEF HistoryGrows, HasBeenUp, CameBack

\* Within a boot, what was true of a copy stays true of it.
LEMMA CopiesStayTrue ==
    ASSUME RebootInv, boot' = boot, origin' = origin, requests' \in 0..MaxRequests,
           requests <= requests', HistoryGrows, NEW cp
    PROVE  /\ Dated(cp) => Dated(cp)'
           /\ cp \in Checkpoint /\ Served(cp) => Served(cp)'
<1>1. Dated(cp) => Dated(cp)'
    BY RebootAssumption DEF Dated, RebootInv, RebootTypeOK, Checkpoint
<1>2. ASSUME cp \in Checkpoint, Served(cp)
      PROVE  Served(cp)'
    BY <1>2, ExpectedAreDeclarations, BackStays DEF Served
<1> QED
    BY <1>1, <1>2

\* ... and of all those that nobody touches.
LEMMA FoundStays ==
    ASSUME HistoryGrows, NEW k, k.cp \in Checkpoint, FoundServed(k)
    PROVE  FoundServed(k)'
<1>1. \A i \in DOMAIN k.cp.expected : k.cp.expected[i] \in Declarations
    BY ExpectedAreDeclarations
<1>2. \A i, d : d \in Declarations =>
        /\ CameBack(i, d) => CameBack(i, d)'
        /\ HasBeenUp(i, "mcp", d) => HasBeenUp(i, "mcp", d)'
    BY BackStays
<1>3. declared \subseteq declared'
    BY DEF HistoryGrows
<1> QED
    BY <1>1, <1>2, <1>3 DEF FoundServed, Looking

LEMMA OthersStayTrue ==
    ASSUME RebootInv, boot' = boot, origin' = origin, requests' \in 0..MaxRequests,
           requests <= requests', HistoryGrows,
           checkpoint # None => checkpoint' # None
    PROVE  /\ checkpoint' = checkpoint =>
                (checkpoint # None => Dated(checkpoint)' /\ Served(checkpoint)')
           /\ \A r \in Requesters : req'[r] = req[r] => RequestInv(r)'
           /\ \A c \in Checkers : chk'[c] = chk[c] => CheckInv(c)'
<1>1. checkpoint' = checkpoint => (checkpoint # None => Dated(checkpoint)' /\ Served(checkpoint)')
    BY CopiesStayTrue DEF RebootInv, CheckpointInv, Dated
<1>2. ASSUME NEW r \in Requesters, req'[r] = req[r]
      PROVE  RequestInv(r)'
    <2>1. RequestInv(r)
        BY DEF RebootInv
    <2>2. Dated(req[r].cp) => Dated(req[r].cp)'
        BY <1>2, CopiesStayTrue
    <2> QED
        BY <1>2, <2>1, <2>2 DEF RequestInv, Dated
<1>3. ASSUME NEW c \in Checkers, chk'[c] = chk[c]
      PROVE  CheckInv(c)'
    <2>1. CheckInv(c)
        BY DEF RebootInv
    <2>2. /\ Dated(chk[c].cp) => Dated(chk[c].cp)'
          /\ chk[c].cp \in Checkpoint /\ Served(chk[c].cp) => Served(chk[c].cp)'
        BY <1>3, CopiesStayTrue
    <2>3. chk[c].cp \in Checkpoint /\ FoundServed(chk[c]) => FoundServed(chk[c])'
        BY <1>3, FoundStays
    <2> QED
        BY <1>3, <2>1, <2>2, <2>3 DEF CheckInv, Dated, Served, FoundServed
<1> QED
    BY <1>1, <1>2, <1>3

\* What is in place while only the processes move.
LEMMA InvAssembles ==
    ASSUME RebootTypeOK', UpIsServed', CheckpointInv',
           \A r \in Requesters : RequestInv(r)', \A c \in Checkers : CheckInv(c)'
    PROVE  RebootInv'
BY DEF RebootInv

LEMMA HistoryIsKept ==
    ASSUME RebootInv, HistoryGrows, RebootTypeOK', UpIsServed',
           UNCHANGED <<host, checkpoint, requests, req, chk>>
    PROVE  RebootInv'
<1>1. requests' \in 0..MaxRequests /\ requests <= requests' /\ boot' = boot /\ origin' = origin
    BY RebootAssumption DEF RebootInv, RebootTypeOK, host
<1>2. (\A r \in Requesters : RequestInv(r)') /\ \A c \in Checkers : CheckInv(c)'
    BY <1>1, OthersStayTrue
<1>3. CheckpointInv'
    BY <1>1, OthersStayTrue DEF CheckpointInv, RebootInv, host
<1> QED
    BY <1>2, <1>3, InvAssembles

LEMMA CapturedIsExpected ==
    ASSUME RebootTypeOK
    PROVE  Capture \in UNION {[S -> Declarations \ {0}] : S \in SUBSET Instances}
<1>1. Expected \in SUBSET Instances
    BY DEF Expected
<1>2. \A i \in Expected : decl[i] \in Declarations \ {0}
    BY DEF RebootTypeOK, Expected
<1>3. Capture \in [Expected -> Declarations \ {0}]
    BY <1>2 DEF Capture
<1> QED
    BY <1>1, <1>3

LEMMA RequestStep ==
    ASSUME RebootInv, NEW r \in Requesters,
           Request(r) \/ Persist(r) \/ Preflight(r) \/ Bridge(r) \/ RequestDies(r)
    PROVE  RebootInv'
<1> USE RebootAssumption
<1>1. /\ RebootTypeOK /\ UpIsServed /\ CheckpointInv /\ RequestInv(r)
      /\ boot \in Nat /\ requests \in Nat
      /\ req[r].cp \in Checkpoint \cup {None}
    BY DEF RebootInv, RebootTypeOK
<1>2. CASE Request(r)
    <2> DEFINE cp == [id |-> NewId, state |-> "prepared", before |-> boot, after |-> None,
                      expected |-> Capture]
    <2>1. cp \in Checkpoint
        BY <1>1, CapturedIsExpected DEF NewId, Checkpoint, CheckpointState
    <2>2. /\ cp.before = boot /\ cp.id = requests + 1 /\ cp.after = None /\ cp.state = "prepared"
        BY DEF NewId
    <2>3. /\ req' = [req EXCEPT ![r] = [pc |-> "prepare", cp |-> cp]]
          /\ requests' = requests + 1 /\ requests < MaxRequests
          /\ UNCHANGED <<host, instances, checkpoint, chk>>
        BY <1>2 DEF Request
    <2> HIDE DEF cp
    <2>4. RebootTypeOK'
        BY <1>1, <2>1, <2>3 DEF RebootTypeOK, host, instances, history
    <2>5. RequestInv(r)'
        BY <1>1, <2>1, <2>2, <2>3 DEF RequestInv, Dated, RebootTypeOK, host
    <2>6. \A q \in Requesters : RequestInv(q)'
        BY <1>1, <2>3, <2>4, <2>5, OthersStayTrue DEF RebootTypeOK, host, instances, history, HistoryGrows
    <2>7. (\A c \in Checkers : CheckInv(c)') /\ CheckpointInv'
        BY <1>1, <2>3, <2>4, OthersStayTrue DEF RebootTypeOK, host, instances, history, HistoryGrows, CheckpointInv
    <2>8. UpIsServed'
        BY <1>1, <2>3 DEF UpIsServed, instances, history
    <2> QED
        BY <2>4, <2>6, <2>7, <2>8, InvAssembles
<1>3. ASSUME NEW next, req' = [req EXCEPT ![r] = next],
             next \in [pc : {"idle", "prepare", "preflight", "requesting", "bridge", "answer"},
                       cp : Checkpoint \cup {None}],
             next.pc # "idle" => Dated(next.cp) /\ next.cp.state # "reconciled"
                                   /\ (next.pc # "prepare" => checkpoint' # None),
             UNCHANGED <<boot, origin, instances, requests, chk>>,
             rebooting' \in 0..requests, rebooting' # 0 => checkpoint' # None,
             \/ checkpoint' = checkpoint
             \/ Dated(checkpoint') /\ checkpoint'.state # "reconciled" /\ checkpoint' # None
      PROVE  RebootInv'
    <2>1. RebootTypeOK'
        BY <1>1, <1>3 DEF RebootTypeOK, instances, history, Dated, RebootInv, CheckpointInv
    <2>2. req'[r] = next
        BY <1>1, <1>3 DEF RebootTypeOK
    <2>3. RequestInv(r)'
        BY <1>3, <2>2 DEF RequestInv, Dated
    <2>4. \A q \in Requesters : RequestInv(q)'
        BY <1>1, <1>3, <2>3, OthersStayTrue DEF RebootTypeOK, instances, history, HistoryGrows
    <2>5. \A c \in Checkers : CheckInv(c)'
        BY <1>1, <1>3, OthersStayTrue DEF RebootTypeOK, instances, history, HistoryGrows
    <2>6. CheckpointInv'
        BY <1>1, <1>3, OthersStayTrue DEF CheckpointInv, Dated, Served, RebootTypeOK, instances, history, HistoryGrows
    <2>7. UpIsServed'
        BY <1>1, <1>3 DEF UpIsServed, instances, history
    <2> QED
        BY <2>1, <2>4, <2>5, <2>6, <2>7, InvAssembles
<1>4. req[r].pc # "idle" =>
        /\ Dated(req[r].cp) /\ req[r].cp.state # "reconciled" /\ req[r].cp \in Checkpoint
        /\ req[r].cp # None /\ req[r].cp.id \in 0..requests
        /\ req[r].pc # "prepare" => checkpoint # None
    BY <1>1 DEF RequestInv, Dated, RebootTypeOK, Checkpoint
<1>5. IdleRequest \in [pc : {"idle", "prepare", "preflight", "requesting", "bridge", "answer"},
                       cp : Checkpoint \cup {None}]
    BY DEF IdleRequest
<1>6. rebooting \in 0..requests /\ (rebooting # 0 => checkpoint # None)
    BY <1>1 DEF RebootTypeOK, CheckpointInv
<1>7. CASE Persist(r)
    <2> DEFINE next == IF req[r].pc = "answer" THEN IdleRequest
                       ELSE [req[r] EXCEPT !.pc = AfterPersist[@]]
    <2>1. /\ req' = [req EXCEPT ![r] = next] /\ checkpoint' = req[r].cp
          /\ req[r].pc \in DOMAIN AfterPersist
          /\ UNCHANGED <<host, instances, requests, chk>>
        BY <1>7 DEF Persist, Written
    <2>2. req[r].pc \in {"prepare", "requesting", "answer"}
        BY <2>1 DEF AfterPersist
    <2>3. \/ next = IdleRequest
          \/ /\ next.cp = req[r].cp /\ next.pc \in {"preflight", "bridge"}
             /\ next \in [pc : {"idle", "prepare", "preflight", "requesting", "bridge", "answer"},
                          cp : Checkpoint \cup {None}]
        BY <1>1, <2>2 DEF AfterPersist, RebootTypeOK
    <2> HIDE DEF next
    <2>4. /\ next \in [pc : {"idle", "prepare", "preflight", "requesting", "bridge", "answer"},
                       cp : Checkpoint \cup {None}]
          /\ next.pc # "idle" => next.cp = req[r].cp
        BY <1>5, <2>3 DEF IdleRequest
    <2>5. Dated(req[r].cp) /\ req[r].cp.state # "reconciled" /\ req[r].cp # None
        BY <1>4, <2>2
    <2>6. checkpoint' # None /\ checkpoint'.state # "reconciled" /\ Dated(checkpoint')
        BY <2>1, <2>5
    <2>7. rebooting' \in 0..requests /\ UNCHANGED <<boot, origin, instances, requests, chk>>
        BY <1>6, <2>1 DEF host
    <2> QED
        BY <1>3, <2>1, <2>4, <2>5, <2>6, <2>7
<1>8. ASSUME NEW pc \in {"requesting", "answer"},
             NEW state \in {"authorization_failed", "requesting", "request_accepted",
                            "request_failed"},
             req[r].pc \in {"preflight", "bridge"}, Become(r, pc, state),
             UNCHANGED <<boot, origin, instances, checkpoint, requests, chk>>,
             rebooting' \in 0..requests
      PROVE  RebootInv'
    <2> DEFINE next == [req[r] EXCEPT !.pc = pc, !.cp.state = state]
    <2>1. req[r] \in [pc : {"idle", "prepare", "preflight", "requesting", "bridge", "answer"},
                      cp : Checkpoint] /\ checkpoint # None
        BY <1>1, <1>4, <1>8 DEF RebootTypeOK
    <2>2. req' = [req EXCEPT ![r] = next]
        BY <1>8 DEF Become
    <2>3. /\ next.pc = pc /\ next.cp = [req[r].cp EXCEPT !.state = state]
          /\ next \in [pc : {"idle", "prepare", "preflight", "requesting", "bridge", "answer"},
                       cp : {next.cp}]
        BY <1>8, <2>1
    <2> HIDE DEF next
    <2>4. /\ next.cp \in Checkpoint /\ next.cp.state = state
          /\ next.cp.before = req[r].cp.before /\ next.cp.after = req[r].cp.after
          /\ next.cp.id = req[r].cp.id
        BY <2>1, <2>3 DEF Checkpoint, CheckpointState
    <2>5. Dated(next.cp)
        BY <1>4, <1>8, <2>4 DEF Dated
    <2>6. next \in [pc : {"idle", "prepare", "preflight", "requesting", "bridge", "answer"},
                    cp : Checkpoint \cup {None}]
        BY <2>3, <2>4
    <2> QED
        BY <1>3, <1>8, <2>1, <2>2, <2>4, <2>5, <2>6
<1>9. CASE Preflight(r)
    BY <1>6, <1>8, <1>9 DEF Preflight, host
<1>10. CASE Bridge(r)
    <2>1. req[r].pc = "bridge" /\ rebooting' \in 0..requests
        BY <1>4, <1>6, <1>10 DEF Bridge
    <2> QED
        BY <1>8, <1>10, <2>1 DEF Bridge
<1>11. CASE RequestDies(r)
    <2>1. rebooting' \in 0..requests /\ (rebooting' # 0 => checkpoint' # None)
          /\ UNCHANGED <<boot, origin, instances, checkpoint, requests, chk>>
        BY <1>6, <1>11 DEF RequestDies, host
    <2> QED
        BY <1>3, <1>5, <1>11, <2>1 DEF RequestDies, IdleRequest
<1> QED
    BY <1>2, <1>7, <1>9, <1>10, <1>11

LEMMA CheckStep ==
    ASSUME RebootInv, NEW c \in Checkers,
           \/ Check(c) \/ CheckEndpoints(c) \/ CheckVerdict(c) \/ CheckPersist(c) \/ CheckDies(c)
           \/ \E i \in Instances : CheckInstance(c, i)
           \/ \E u \in Units : CheckUnit(c, u)
    PROVE  RebootInv'
<1> USE RebootAssumption
<1>1. /\ RebootTypeOK /\ UpIsServed /\ CheckpointInv /\ CheckInv(c)
      /\ boot \in Nat /\ requests \in Nat
      /\ chk[c] \in Checks
    BY DEF RebootInv, RebootTypeOK, Checks
<1>2. ASSUME NEW next, chk' = [chk EXCEPT ![c] = next],
             next \in Checks,
             next.pc # "idle" => Dated(next.cp) /\ checkpoint # None,
             next.pc = "persist" => Served(next.cp),
             next.pc \notin {"idle", "persist"} => next.cp.after = boot /\ FoundServed(next),
             UNCHANGED <<host, instances, requests, req>>,
             \/ checkpoint' = checkpoint
             \/ checkpoint' # None /\ Dated(checkpoint') /\ Served(checkpoint')
      PROVE  RebootInv'
    <2>1. RebootTypeOK'
        BY <1>1, <1>2 DEF RebootTypeOK, Checks, host, instances, history, Dated
    <2>2. chk'[c] = next
        BY <1>1, <1>2 DEF RebootTypeOK
    <2>8. /\ HistoryGrows /\ boot' = boot /\ origin' = origin
          /\ requests' \in 0..MaxRequests /\ requests <= requests'
        BY <1>1, <1>2 DEF host, instances, history, HistoryGrows, RebootTypeOK
    <2>3. CheckInv(c)'
        BY <1>2, <2>2, <2>8, CopiesStayTrue, FoundStays DEF CheckInv, Dated, host
    <2>4. \A k \in Checkers : CheckInv(k)'
        BY <1>1, <1>2, <2>3, OthersStayTrue DEF RebootTypeOK, host, instances, history, HistoryGrows
    <2>5. \A r \in Requesters : RequestInv(r)'
        BY <1>1, <1>2, OthersStayTrue DEF RebootTypeOK, host, instances, history, HistoryGrows
    <2>6. CheckpointInv'
        <3>1. CASE checkpoint' = checkpoint
            BY <1>1, <1>2, <2>8, <3>1, OthersStayTrue DEF CheckpointInv, host
        <3>2. CASE checkpoint' # None /\ Dated(checkpoint') /\ Served(checkpoint')
            <4>1. PICK cp : cp = checkpoint'
                OBVIOUS
            <4>2. cp # None /\ Dated(cp)' /\ Served(cp)'
                BY <2>8, <3>2, <4>1, CopiesStayTrue DEF Dated
            <4> QED
                BY <4>1, <4>2 DEF CheckpointInv
        <3> QED
            BY <1>2, <3>1, <3>2
    <2>7. UpIsServed'
        BY <1>1, <1>2 DEF UpIsServed, instances, history
    <2> QED
        BY <2>1, <2>4, <2>5, <2>6, <2>7, InvAssembles
<1>3. IdleCheck \in Checks
    BY DEF IdleCheck, Checks
<1>4. CASE Check(c)
    <2>1. /\ checkpoint # None /\ checkpoint \in Checkpoint
          /\ Dated(checkpoint) /\ Served(checkpoint)
        BY <1>1, <1>4 DEF Check, CheckpointInv, RebootTypeOK
    <2>2. UNCHANGED <<host, instances, checkpoint, requests, req>>
        BY <1>4 DEF Check
    <2>3. CASE boot = checkpoint.before
        <3> DEFINE next == [IdleCheck EXCEPT !.pc = "persist", !.cp = checkpoint]
        <3>1. chk' = [chk EXCEPT ![c] = next]
            BY <1>4, <2>3 DEF Check
        <3>2. /\ next.pc = "persist" /\ next.cp = checkpoint
              /\ next \in Checks
            BY <2>1 DEF IdleCheck, Checks
        <3> HIDE DEF next
        <3> QED
            BY <1>2, <2>1, <2>2, <3>1, <3>2
    <2>4. CASE boot # checkpoint.before
        <3> DEFINE cp == BootSeen(checkpoint)
                   next == [IdleCheck EXCEPT !.pc = "reconcile", !.cp = cp,
                                             !.left = DOMAIN checkpoint.expected]
        <3>1. chk' = [chk EXCEPT ![c] = next]
            BY <1>4, <2>4 DEF Check
        <3>2. /\ cp \in Checkpoint /\ cp.after = boot /\ cp.before = checkpoint.before
              /\ cp.id = checkpoint.id /\ cp.expected = checkpoint.expected
            BY <1>1, <2>1 DEF BootSeen, Checkpoint
        <3>3. DOMAIN checkpoint.expected \in SUBSET Instances
            BY <2>1 DEF Checkpoint
        <3> HIDE DEF cp
        <3>4. /\ next.pc = "reconcile" /\ next.cp = cp /\ next.left = DOMAIN cp.expected
              /\ next \in Checks
            BY <3>2, <3>3 DEF IdleCheck, Checks
        <3> HIDE DEF next
        <3>5. Dated(next.cp) /\ FoundServed(next)
            BY <1>1, <2>1, <3>2, <3>4 DEF Dated, FoundServed, Looking
        <3> QED
            BY <1>2, <2>1, <2>2, <3>1, <3>2, <3>4, <3>5
    <2> QED
        BY <2>3, <2>4
<1>8. chk[c].pc \notin {"idle", "persist"} =>
        /\ Dated(chk[c].cp) /\ chk[c].cp \in Checkpoint /\ checkpoint # None
        /\ chk[c].cp.after = boot /\ FoundServed(chk[c])
    BY <1>1 DEF CheckInv, Dated
<1>9. ASSUME NEW pc \in {"reconcile", "tunnel", "http"}, NEW ok \in BOOLEAN, Found(c, pc, ok),
             chk[c].pc \in {"mcp", "tunnel", "http"},
             UNCHANGED <<host, instances, checkpoint, requests, req>>,
             FoundServed([chk[c] EXCEPT !.pc = pc, !.ok = @ /\ ok])
      PROVE  RebootInv'
    <2> DEFINE next == [chk[c] EXCEPT !.pc = pc, !.ok = @ /\ ok]
    <2>1. chk' = [chk EXCEPT ![c] = next]
        BY <1>9 DEF Found
    <2>2. next \in Checks /\ next.pc = pc /\ next.cp = chk[c].cp
        BY <1>1 DEF Checks
    <2>3. FoundServed(next)
        BY <1>9
    <2> HIDE DEF next
    <2> QED
        BY <1>2, <1>8, <1>9, <2>1, <2>2, <2>3
<1>5. ASSUME NEW i \in Instances, CheckInstance(c, i)
      PROVE  RebootInv'
    <2> DEFINE rest == [chk[c] EXCEPT !.left = @ \ {i}]
               next == IF DeclaredAsBefore(c, i) THEN [rest EXCEPT !.pc = "mcp", !.at = i]
                                                 ELSE [rest EXCEPT !.ok = FALSE]
    <2>1. chk' = [chk EXCEPT ![c] = next] /\ chk[c].pc = "reconcile" /\ i \in chk[c].left
          /\ UNCHANGED <<host, instances, checkpoint, requests, req>>
        BY <1>5 DEF CheckInstance
    <2>2. /\ next \in Checks /\ next.cp = chk[c].cp /\ next.left = chk[c].left \ {i}
          /\ IF DeclaredAsBefore(c, i) THEN next.pc = "mcp" /\ next.at = i /\ next.ok = chk[c].ok
                                       ELSE next.pc = "reconcile" /\ next.ok = FALSE
        BY <1>1, <2>1 DEF Checks
    <2> HIDE DEF next
    <2>3. DeclaredAsBefore(c, i) => <<i, chk[c].cp.expected[i]>> \in declared
        BY <1>1 DEF DeclaredAsBefore, UpIsServed
    <2>4. i \in DOMAIN chk[c].cp.expected
        BY <1>8, <2>1 DEF FoundServed
    <2>5. FoundServed(next)
        BY <1>8, <2>1, <2>2, <2>3, <2>4 DEF FoundServed, Looking
    <2> QED
        BY <1>2, <1>8, <2>1, <2>2, <2>5
<1>10. ASSUME NEW u \in Units, CheckUnit(c, u)
       PROVE  RebootInv'
    <2>1. PICK ok \in BOOLEAN : (ok => UnitActive(c, u)) /\ Found(c, AfterUnit[u], ok)
        BY <1>10 DEF CheckUnit
    <2>2. /\ chk[c].pc = u /\ u \in {"mcp", "tunnel"} /\ AfterUnit[u] = IF u = "mcp" THEN "tunnel" ELSE "http"
          /\ UNCHANGED <<host, instances, checkpoint, requests, req>>
        BY <1>10 DEF CheckUnit, Units, AfterUnit
    <2> DEFINE i == chk[c].at
               d == chk[c].cp.expected[i]
    <2>3. /\ i \in DOMAIN chk[c].cp.expected /\ i \in Instances /\ d \in Declarations
          /\ chk[c].ok => <<i, d>> \in declared
          /\ chk[c].ok /\ u = "tunnel" => HasBeenUp(i, "mcp", d)
        BY <1>8, <2>2, ExpectedAreDeclarations DEF FoundServed, Looking
    <2>4. chk[c].ok /\ ok => HasBeenUp(i, u, d)
        BY <1>1, <2>1, <2>3 DEF UnitActive, UpIsServed, HasBeenUp
    <2>5. chk[c].ok /\ ok /\ u = "tunnel" => CameBack(i, d)
        BY <2>2, <2>3, <2>4 DEF CameBack, Units
    <2> DEFINE next == [chk[c] EXCEPT !.pc = AfterUnit[u], !.ok = @ /\ ok]
    <2>6. /\ next.pc = AfterUnit[u] /\ next.cp = chk[c].cp /\ next.left = chk[c].left
          /\ next.at = i /\ next.ok = (chk[c].ok /\ ok)
        BY <1>1 DEF Checks
    <2> HIDE DEF next
    <2>7. FoundServed(next)
        BY <1>8, <2>2, <2>3, <2>4, <2>5, <2>6 DEF FoundServed, Looking
    <2> QED
        BY <1>9, <2>1, <2>2, <2>7 DEF next
<1>11. CASE CheckEndpoints(c)
    <2>1. PICK ok \in BOOLEAN : Found(c, "reconcile", ok)
        BY <1>11 DEF CheckEndpoints
    <2>2. chk[c].pc = "http" /\ UNCHANGED <<host, instances, checkpoint, requests, req>>
        BY <1>11 DEF CheckEndpoints
    <2> DEFINE next == [chk[c] EXCEPT !.pc = "reconcile", !.ok = @ /\ ok]
    <2>3. /\ next.pc = "reconcile" /\ next.cp = chk[c].cp /\ next.left = chk[c].left
          /\ next.ok = (chk[c].ok /\ ok)
        BY <1>1 DEF Checks
    <2> HIDE DEF next
    <2>4. FoundServed(next)
        BY <1>8, <2>2, <2>3 DEF FoundServed, Looking
    <2> QED
        BY <1>9, <2>1, <2>2, <2>4 DEF next
<1>12. CASE CheckDies(c)
    BY <1>2, <1>3, <1>12 DEF CheckDies, IdleCheck
<1>6. CASE CheckVerdict(c)
    <2> DEFINE verdict == IF chk[c].ok THEN "reconciled" ELSE "boot_observed_waiting_recovery"
               next == [chk[c] EXCEPT !.pc = "persist", !.cp.state = verdict]
    <2>1. chk' = [chk EXCEPT ![c] = next] /\ chk[c].pc = "reconcile" /\ chk[c].left = {}
          /\ UNCHANGED <<host, instances, checkpoint, requests, req>>
        BY <1>6 DEF CheckVerdict
    <2>2. /\ Dated(chk[c].cp) /\ chk[c].cp \in Checkpoint /\ checkpoint # None
          /\ chk[c].cp.after = boot /\ FoundServed(chk[c])
        BY <1>1, <2>1 DEF CheckInv, Dated
    <2>3. verdict \in CheckpointState /\ (verdict = "reconciled" => chk[c].ok)
        BY DEF CheckpointState, Verdicts
    <2> HIDE DEF verdict
    <2>4. /\ next.pc = "persist" /\ next.cp = [chk[c].cp EXCEPT !.state = verdict]
          /\ next.cp \in Checkpoint => next \in Checks
        BY <1>1, <2>1, <2>2 DEF Checks
    <2> HIDE DEF next
    <2>5. /\ next.cp \in Checkpoint /\ next.cp.state = verdict
          /\ next.cp.before = chk[c].cp.before /\ next.cp.after = chk[c].cp.after
          /\ next.cp.id = chk[c].cp.id /\ next.cp.expected = chk[c].cp.expected
        BY <2>2, <2>3, <2>4 DEF Checkpoint
    <2>6. Dated(next.cp) /\ Served(next.cp)
        BY <2>1, <2>2, <2>3, <2>5 DEF Dated, Served, FoundServed, Looking
    <2>7. next \in Checks
        BY <2>4, <2>5
    <2> QED
        BY <1>2, <2>1, <2>2, <2>4, <2>6, <2>7
<1>7. CASE CheckPersist(c)
    <2>1. chk[c].pc = "persist" /\ checkpoint' = chk[c].cp /\ chk' = [chk EXCEPT ![c] = IdleCheck]
          /\ UNCHANGED <<host, instances, requests, req>>
        BY <1>7 DEF CheckPersist
    <2>2. Dated(chk[c].cp) /\ Served(chk[c].cp) /\ chk[c].cp # None
        BY <1>1, <2>1 DEF CheckInv, Dated
    <2> QED
        BY <1>2, <1>3, <2>1, <2>2 DEF IdleCheck
<1> QED
    BY <1>4, <1>5, <1>6, <1>7, <1>10, <1>11, <1>12

\* After a reboot no process is left, the request that asked for it is in
\* the past, and no verdict is about the new boot.
LEMMA RebootStep ==
    ASSUME RebootInv, HostReboots
    PROVE  RebootInv'
<1> USE RebootAssumption
<1>1. RebootTypeOK /\ CheckpointInv /\ boot \in Nat /\ requests \in Nat
    BY DEF RebootInv, RebootTypeOK
<1>2. RebootTypeOK'
    <2>1. /\ DeclaredNow \subseteq Instances \X Declarations
          /\ boot' \in 1..MaxBoots /\ origin' \in 0..requests /\ rebooting' \in 0..requests
        BY <1>1 DEF RebootTypeOK, HostReboots, DeclaredNow
    <2> QED
        BY <1>1, <2>1 DEF RebootTypeOK, HostReboots, IdleRequest, IdleCheck
<1>3. UpIsServed'
    BY <1>1 DEF UpIsServed, HostReboots, DeclaredNow
<1>4. (\A r \in Requesters : RequestInv(r)') /\ \A c \in Checkers : CheckInv(c)'
    BY DEF RequestInv, CheckInv, HostReboots, IdleRequest, IdleCheck
<1>5. ASSUME checkpoint # None
      PROVE  Dated(checkpoint)' /\ Served(checkpoint)'
    <2>1. /\ checkpoint \in Checkpoint /\ checkpoint.before <= boot
          /\ checkpoint.before \in Nat /\ checkpoint.after \in Nat \cup {None}
          /\ checkpoint.after # None => checkpoint.after <= boot
          /\ checkpoint.id <= requests
        BY <1>1, <1>5 DEF CheckpointInv, Dated, Checkpoint
    <2>2. checkpoint' = checkpoint /\ boot' = boot + 1 /\ requests' = requests
        BY DEF HostReboots
    <2>3. Dated(checkpoint)'
        BY <1>1, <2>1, <2>2 DEF Dated
    <2>4. checkpoint.after # boot'
        BY <1>1, <2>1, <2>2
    <2> QED
        BY <2>2, <2>3, <2>4 DEF Served
<1>6. CheckpointInv'
    BY <1>1, <1>5 DEF CheckpointInv, HostReboots
<1> QED
    BY <1>2, <1>3, <1>4, <1>6, InvAssembles

LEMMA InstanceStep ==
    ASSUME RebootInv, NEW i \in Instances,
           \/ Redeclare(i) \/ Apply(i)
           \/ \E u \in Units : UnitStarts(i, u) \/ UnitStops(i, u)
    PROVE  RebootInv'
<1> USE RebootAssumption
<1>1. /\ RebootTypeOK /\ UpIsServed /\ CheckpointInv
      /\ decl \in [Instances -> Declarations] /\ deployed \in [Instances -> Declarations]
      /\ requests \in 0..MaxRequests
    BY DEF RebootInv, RebootTypeOK
<1>2. CASE Redeclare(i)
    <2>1. PICK d \in Declarations :
            decl' = [decl EXCEPT ![i] = d] /\ declared' = declared \cup {<<i, d>>}
        BY <1>2 DEF Redeclare
    <2>2. RebootTypeOK'
        BY <1>1, <1>2, <2>1 DEF RebootTypeOK, Redeclare, host
    <2>3. UpIsServed'
        BY <1>1, <1>2, <2>1 DEF UpIsServed, Redeclare
    <2> QED
        BY <1>1, <1>2, <2>1, <2>2, <2>3, HistoryIsKept DEF Redeclare, host, HistoryGrows
<1>3. CASE Apply(i)
    <2>1. PICK same \in SUBSET Units :
            /\ \A u \in same : <<i, u>> \in up
            /\ up' = up \ {<<i, u>> : u \in Units \ same}
            /\ served' = served \cup {<<i, u, decl[i]>> : u \in same}
        BY <1>3 DEF Apply
    <2>2. RebootTypeOK'
        BY <1>1, <1>3, <2>1 DEF RebootTypeOK, Apply, host
    <2>3. UpIsServed'
        BY <1>1, <1>3, <2>1 DEF UpIsServed, Apply
    <2> QED
        BY <1>1, <1>3, <2>1, <2>2, <2>3, HistoryIsKept DEF Apply, host, HistoryGrows
<1>4. ASSUME NEW u \in Units, UnitStarts(i, u) \/ UnitStops(i, u)
      PROVE  RebootInv'
    <2>1. RebootTypeOK'
        BY <1>1, <1>4 DEF RebootTypeOK, UnitStarts, UnitStops, host, history
    <2>2. UpIsServed'
        BY <1>1, <1>4 DEF UpIsServed, UnitStarts, UnitStops, history
    <2> QED
        BY <1>1, <1>4, <2>1, <2>2, HistoryIsKept
           DEF UnitStarts, UnitStops, host, history, HistoryGrows
<1> QED
    BY <1>2, <1>3, <1>4

LEMMA RebootInvStep == RebootInv /\ [Next]_vars => RebootInv'
<1> SUFFICES ASSUME RebootInv, [Next]_vars PROVE RebootInv'
    OBVIOUS
<1>1. CASE UNCHANGED vars
    <2>1. /\ UNCHANGED <<host, instances, checkpoint, requests, req, chk>>
          /\ HistoryGrows
        BY <1>1 DEF vars, instances, history, HistoryGrows
    <2>2. RebootTypeOK' /\ UpIsServed'
        BY <2>1 DEF RebootInv, RebootTypeOK, UpIsServed, host, instances, history
    <2> QED
        BY <2>1, <2>2, HistoryIsKept
<1>2. CASE \E r \in Requesters :
            Request(r) \/ Persist(r) \/ Preflight(r) \/ Bridge(r) \/ RequestDies(r)
    BY <1>2, RequestStep
<1>3. CASE \E c \in Checkers :
            \/ Check(c) \/ CheckEndpoints(c) \/ CheckVerdict(c) \/ CheckPersist(c) \/ CheckDies(c)
            \/ \E i \in Instances : CheckInstance(c, i)
            \/ \E u \in Units : CheckUnit(c, u)
    BY <1>3, CheckStep
<1>4. CASE HostReboots
    BY <1>4, RebootStep
<1>5. CASE \/ \E i \in Instances, u \in Units : UnitStarts(i, u) \/ UnitStops(i, u)
           \/ \E i \in Instances : Redeclare(i) \/ Apply(i)
    BY <1>5, InstanceStep
<1> QED
    BY <1>1, <1>2, <1>3, <1>4, <1>5 DEF Next

\* The checkpoint, the processes of `host reboot` and `host reboot-check`
\* and the host keep their types: what check() reads back is a checkpoint.
THEOREM RebootTypeCorrect == Spec => []RebootTypeOK
<1>1. RebootInv => RebootTypeOK
    BY DEF RebootInv
<1> QED
    BY <1>1, RebootInvInit, RebootInvStep, PTL DEF Spec

\* After a reboot that `host reboot` asked for, checkpoint.json is there and
\* shows the change of boot, or is of a later request: request() persists
\* before it calls the bridge, and neither the answer that is written after
\* nor a check that writes back what it read can undo it.
THEOREM RebootsAreNoticed == Spec => []RebootNoticed
<1>1. RebootInv => RebootNoticed
    BY DEF RebootInv, CheckpointInv, RebootNoticed, Dated
<1> QED
    BY <1>1, RebootInvInit, RebootInvStep, PTL DEF Spec

\* check() does not leave `reconciled` on disk, for the boot that runs,
\* unless each instance that ran before was declared in this boot as it was
\* then and has been up in it with both units, whatever requests, other
\* checks, edits, applies and failures come between its reads; and they were
\* of that declaration where it was applied when the host came up and has not
\* been edited since.
THEOREM ReconciledIsTrue == Spec => []ReconciledWasServed
<1>1. RebootInv => ReconciledWasServed
    BY DEF RebootInv, CheckpointInv, ReconciledWasServed, Served
<1> QED
    BY <1>1, RebootInvInit, RebootInvStep, PTL DEF Spec
=============================================================================
