-------------------------- MODULE DiscoveryProofs --------------------------
(***************************************************************************)
(* Type correctness of Discovery, and that the hostname, the board ID and  *)
(* the snapshot advertised are the current ones when nothing is under way, *)
(* for any names and snapshots, with mDNS and NVS failing at will.         *)
(***************************************************************************)
EXTENDS Discovery, Naturals, SequenceTheorems, TLAPS

\* Types at the start.
LEMMA InitType == ASSUME Init PROVE TypeOK
<1> USE DiscoveryAssumption DEF DiscoveryAssumption
<1>1. Unset \in Values /\ Idle \in Snapshots
  BY DEF Values
<1>2. todo \in Seq(Write)
  BY DEF Init
<1> QED
  BY <1>1, <1>2 DEF Init, TypeOK, FirstAd, FirstPc

\* Start-up keeps the types.
LEMMA BootType == ASSUME TypeOK, Boot, Mark PROVE TypeOK'
<1> USE DiscoveryAssumption DEF DiscoveryAssumption, TypeOK, Mark, Goto, Tasks, Keys, Values, nvsVars, taskVars
<1>1. CASE BootHost
  BY <1>1 DEF BootHost
<1>2. CASE BootMdns
  BY <1>2 DEF BootMdns
<1>3. CASE BootName
  BY <1>3 DEF PutHost, BootName
<1>4. CASE BootBoard
  <2>1. /\ board' \in Values
        /\ pc["boot"] \in {"board", "blank"}
        /\ \E k \in {"service", "blank"} : pc' = [pc EXCEPT !["boot"] = k]
    BY <1>4 DEF ReadBoard, MissBoard, BlankBoard, BootBoard
  <2>2. missed' \subseteq Keys
    BY <1>4 DEF BootBoard
  <2> QED
    BY <1>4, <2>1, <2>2 DEF BootBoard
<1>5. CASE BootService
  BY <1>5 DEF CopiedBoard, PutText, BootService
<1> QED
  BY <1>1, <1>2, <1>3, <1>4, <1>5 DEF Boot

\* A request that writes has a write to make.
LEMMA HeadWrite ==
    ASSUME TypeOK, pc["http"] = "write"
    PROVE  Head(todo).key \in Keys /\ Head(todo).value \in Values
<1>1. Head(todo) \in Write
  BY DEF TypeOK
<1> QED
  BY <1>1 DEF Write

\* After it the request has another one, or goes on to tell mDNS.
LEMMA ProceedType ==
    ASSUME TypeOK, pc["http"] = "write", Proceed
    PROVE  /\ todo' \in Seq(Write)
           /\ strict' \in BOOLEAN
           /\ Written \in {"write", "host"}
           /\ Written = "write" => todo' # <<>>
<1>1. todo \in Seq(Write) /\ todo # <<>> /\ todo' = Tail(todo)
  BY DEF TypeOK, Proceed
<1>2. todo' \in Seq(Write) /\ Len(todo') = Len(todo) - 1 /\ Len(todo) \in Nat
  BY <1>1, HeadTailProperties, LenProperties
<1>3. Len(todo) # 1 => todo' # <<>>
  BY <1>2
<1> QED
  BY <1>2, <1>3 DEF Proceed, Written

\* A request's steps keep them.
LEMMA HttpType == ASSUME TypeOK, Http, Mark PROVE TypeOK'
<1> USE DiscoveryAssumption DEF DiscoveryAssumption, TypeOK, Mark, Goto, Tasks, Keys, Values, nvsVars, taskVars
<1>1. CASE Store
  <2>1. stored' \in [Keys -> Values]
    BY <1>1, HeadWrite DEF Store
  <2> QED
    BY <1>1, <2>1, ProceedType DEF Store
<1>2. CASE StoreFails
  BY <1>2, ProceedType DEF StoreFails
<1>3. CASE NotifyName
  BY <1>3 DEF PutHost, NotifyName
<1>4. CASE NotifyNameFails
  BY <1>4 DEF NotifyNameFails
<1>5. CASE NotifyBoard
  BY <1>5 DEF ReadBoard, MissBoard, BlankBoard, NotifyBoard
<1>6. CASE NotifyFormat
  BY <1>6 DEF Formatted, NotifyFormat
<1>7. CASE NotifyText
  BY <1>7 DEF CopiedBoard, PutText, NotifyText
<1>8. CASE NotifyTextFails
  BY <1>8 DEF NotifyTextFails
<1> QED
  BY <1>1, <1>2, <1>3, <1>4, <1>5, <1>6, <1>7, <1>8 DEF Http

\* The discovery task's steps keep them.
LEMMA TaskType == ASSUME TypeOK, Task, Mark PROVE TypeOK'
<1> USE DiscoveryAssumption DEF DiscoveryAssumption, TypeOK, Mark, Goto, Tasks, Keys, Values, nvsVars, taskVars
<1>1. CASE Scan
  BY <1>1 DEF Scan
<1>2. CASE TaskBoard
  BY <1>2 DEF ReadBoard, MissBoard, BlankBoard, TaskBoard
<1>3. CASE Unchanged
  BY <1>3 DEF Unchanged
<1>4. CASE Changed
  BY <1>4 DEF Changed
<1>5. CASE Publish
  BY <1>5 DEF CopiedBoard, PutText, Publish
<1>6. CASE PublishFails
  BY <1>6 DEF PublishFails
<1>7. CASE StoreLast
  BY <1>7 DEF StoreLast
<1> QED
  BY <1>1, <1>2, <1>3, <1>4, <1>5, <1>6, <1>7 DEF Task

\* What a request may ask to be written can be written.
LEMMA ImportType ==
    ASSUME NEW ws \in Imports
    PROVE  ws \in Seq(Write)
<1>1. PICK h \in {<<>>} \cup {<<Set("host", v)>> : v \in Names},
           b \in {<<>>} \cup {<<Set("board", v)>> : v \in Values} : ws = h \o b
  BY DEF Imports
<1>4. \A k \in Keys, v \in Values : <<Set(k, v)>> \in Seq(Write)
  BY DEF Write, Set
<1>2. h \in Seq(Write)
  <2>1. CASE h = <<>>
    BY <2>1
  <2>2. CASE \E v \in Names : h = <<Set("host", v)>>
    BY <2>2, <1>4 DEF Keys, Values
  <2> QED
    BY <2>1, <2>2
<1>3. b \in Seq(Write)
  <2>1. CASE b = <<>>
    BY <2>1
  <2>2. CASE \E v \in Values : b = <<Set("board", v)>>
    BY <2>2, <1>4 DEF Keys
  <2> QED
    BY <2>1, <2>2
<1> QED
  BY <1>1, <1>2, <1>3, ConcatProperties

\* A new request keeps the types.
LEMMA RequestType == ASSUME TypeOK, Request, Mark PROVE TypeOK'
<1> USE DEF Mark, Goto, nvsVars, taskVars
<1>1. ASSUME NEW k \in Keys, NEW v \in Values, Post(k, v) PROVE TypeOK'
  <2>1. todo' \in Seq(Write) /\ todo' # <<>>
    BY <1>1 DEF Post, Write, Set
  <2> QED
    BY <1>1, <2>1 DEF Post, TypeOK
<1>2. ASSUME NEW ws \in Imports, Import(ws) PROVE TypeOK'
  BY <1>2, ImportType DEF Import, TypeOK
<1>3. CASE Clear
  <2>1. todo' \in Seq(Write) /\ todo' # <<>>
    BY <1>3 DEF Clear, Write, Set, Keys, Values
  <2> QED
    BY <1>3, <2>1 DEF Clear, TypeOK
<1> QED
  BY <1>1, <1>2, <1>3 DEF Request

\* Every step keeps the types.
LEMMA TypeStep == ASSUME TypeOK, [Next]_vars PROVE TypeOK'
<1>1. CASE (Boot \/ Request \/ Http \/ DevicesChange \/ Task) /\ Mark
  <2>1. CASE DevicesChange
    BY <1>1, <2>1 DEF DevicesChange, Mark, TypeOK, nvsVars
  <2> QED
    BY <1>1, <2>1, BootType, RequestType, HttpType, TaskType
<1>2. CASE Restart
  <2>1. Unset \in Values /\ Idle \in Snapshots
    BY DiscoveryAssumption DEF DiscoveryAssumption, Values
  <2>2. todo' \in Seq(Write)
    BY <1>2 DEF Restart
  <2> QED
    BY <1>2, <2>1, <2>2 DEF Restart, TypeOK, FirstAd, FirstPc
<1>3. CASE UNCHANGED vars
  BY <1>3 DEF vars, TypeOK
<1> QED
  BY <1>1, <1>2, <1>3 DEF Next

\* Type correctness, whatever mDNS and NVS refuse.
THEOREM DiscoveryTypeCorrect == Spec => []TypeOK
<1>1. Init => TypeOK
  BY InitType
<1>2. TypeOK /\ [Next]_vars => TypeOK'
  BY TypeStep
<1> QED
  BY <1>1, <1>2, PTL DEF Spec

-----------------------------------------------------------------------------
\* Start-up sets the hostname it read, or remembers that it is outdated.
LEMMA BootHostInv == ASSUME TypeOK, HostInv, Boot PROVE HostInv'
<1> USE DEF TypeOK, HostInv, HostTold, Goto, nvsVars, taskVars
<1>1. CASE BootHost
  BY <1>1 DEF BootHost
<1>2. CASE BootMdns
  BY <1>2 DEF BootMdns
<1>3. CASE BootName
  BY <1>3 DEF BootName, PutHost
<1>4. CASE BootBoard
  BY <1>4 DEF BootBoard, ReadBoard, MissBoard, BlankBoard
<1>5. CASE BootService
  BY <1>5 DEF BootService, PutText
<1> QED
  BY <1>1, <1>2, <1>3, <1>4, <1>5 DEF Boot

\* A request that wrote a hostname tells mDNS before it ends, or remembers
\* that it did not.
LEMMA HttpHostInv == ASSUME TypeOK, HostInv, Http PROVE HostInv'
<1> USE DEF TypeOK, HostInv, HostTold, Goto, nvsVars, taskVars
<1>1. CASE Store
  BY <1>1 DEF Store, Written, Proceed
<1>2. CASE StoreFails
  BY <1>2 DEF StoreFails, Written, Proceed
<1>3. CASE NotifyName
  BY <1>3 DEF NotifyName, PutHost
<1>4. CASE NotifyNameFails
  BY <1>4 DEF NotifyNameFails, Keys
<1>5. CASE NotifyBoard
  BY <1>5 DEF NotifyBoard, ReadBoard, MissBoard, BlankBoard
<1>6. CASE NotifyFormat
  BY <1>6 DEF NotifyFormat
<1>7. CASE NotifyText
  BY <1>7 DEF NotifyText, PutText
<1>8. CASE NotifyTextFails
  BY <1>8 DEF NotifyTextFails
<1> QED
  BY <1>1, <1>2, <1>3, <1>4, <1>5, <1>6, <1>7, <1>8 DEF Http

\* The discovery task leaves the hostname alone.
LEMMA TaskHostInv == ASSUME TypeOK, HostInv, Task PROVE HostInv'
<1> USE DEF TypeOK, HostInv, HostTold, Goto, nvsVars, taskVars
<1>1. CASE Scan \/ Unchanged \/ Changed
  BY <1>1 DEF Scan, Unchanged, Changed
<1>2. CASE TaskBoard
  BY <1>2 DEF TaskBoard, ReadBoard, MissBoard, BlankBoard
<1>3. CASE Publish
  BY <1>3 DEF Publish, PutText
<1>4. CASE PublishFails \/ StoreLast
  BY <1>4 DEF PublishFails, StoreLast
<1> QED
  BY <1>1, <1>2, <1>3, <1>4 DEF Task

\* Every step keeps the advertised hostname true.
LEMMA HostStep == ASSUME TypeOK, HostInv, [Next]_vars PROVE HostInv'
<1> USE DEF TypeOK, HostInv, HostTold, Goto, nvsVars, taskVars
<1>1. CASE Request
  BY <1>1 DEF Request, Post, Import, Clear
<1>2. CASE DevicesChange
  BY <1>2 DEF DevicesChange
<1>3. CASE Restart
  BY <1>3 DEF Restart, FirstPc
<1>4. CASE UNCHANGED vars
  BY <1>4 DEF vars
<1> QED
  BY <1>1, <1>2, <1>3, <1>4, BootHostInv, HttpHostInv, TaskHostInv DEF Next

\* The advertised hostname is the stored one whenever no request is under way,
\* over resets at any point, unless mDNS was not told.
THEOREM HostTruth == Spec => []HostSettles
<1>1. Init => HostInv
  BY DEF Init, FirstPc, HostInv, HostTold
<1>2. TypeOK /\ HostInv /\ [Next]_vars => HostInv'
  BY HostStep
<1>3. HostInv => HostSettles
  BY DEF HostInv, HostTold, HostSettles
<1> QED
  BY <1>1, <1>2, <1>3, DiscoveryTypeCorrect, PTL DEF Spec
-----------------------------------------------------------------------------
(* The board ID and the snapshot, while no two tasks overlap.              *)

\* The history has not missed an overlap.
OverlapInv == Overlapping => overlap

\* mDNS took the last change of the board ID, and the request under way, if
\* any, has changed nothing yet.
BoardTold ==
    /\ "board" \notin missed
    /\ pc["http"] = "idle" \/ (pc["http"] = "write" /\ strict)

\* What a request has read: nothing changes it until mDNS is told.
HttpRead ==
    /\ pc["http"] = "blank" => stored["board"] = Unset
    /\ pc["http"] \in {"format", "text"} => board = stored["board"]

\* What start-up and the discovery task have read, and advertise.
OthersRead ==
    /\ pc["boot"] = "blank" \/ pc["task"] = "blank" => stored["board"] = Unset
    /\ pc["boot"] = "service" \/ pc["task"] \in {"compare", "publish"} => board = stored["board"]
    /\ ServiceUp => ad.board = stored["board"]

\* The inductive invariant behind BoardSettles: a record that is being made
\* has the stored board ID in it, unless a request is yet to replace it.
BoardInv == ~overlap => HttpRead /\ (BoardTold => OthersRead)

\* The inductive invariant behind SnapshotAgrees: a request repeats the last
\* record, and the discovery task has still to store the one it published.
SnapshotInv ==
    ~overlap =>
        /\ pc["http"] = "text" => text = last
        /\ pc["task"] = "store" => ad.snapshot = current
        /\ ServiceUp /\ pc["task"] # "store" => ad.snapshot = last

\* Of two tasks only one is sharing.
LEMMA Alone ==
    ASSUME OverlapInv, ~overlap, NEW p \in Tasks, Sharing(p), NEW q \in Tasks \ {p}
    PROVE  ~Sharing(q)
  BY DEF OverlapInv, Overlapping

\* So what a task copies is whole.
LEMMA Whole ==
    ASSUME OverlapInv, ~overlap, NEW p \in Tasks, Sharing(p)
    PROVE  CopiedBoard(p) = {board}
<1>1. \A q \in Tasks \ {p} : ~Filling(q)
  BY Alone DEF Filling, Sharing
<1> QED
  BY <1>1 DEF CopiedBoard

\* The reading of the board ID, by any task.
LEMMA BoardRead ==
    ASSUME TypeOK, NEW p \in Tasks, NEW next \in {"service", "format", "compare"},
           ReadBoard(p, next) \/ MissBoard(p) \/ BlankBoard(p, next)
    PROVE  \/ /\ pc[p] = "board" /\ pc' = [pc EXCEPT ![p] = next]
              /\ board' = stored["board"]
           \/ /\ pc[p] = "board" /\ pc' = [pc EXCEPT ![p] = "blank"]
              /\ stored["board"] = Unset /\ board' = board
           \/ /\ pc[p] = "blank" /\ pc' = [pc EXCEPT ![p] = next]
              /\ board' = Unset
  BY DEF ReadBoard, MissBoard, BlankBoard, Goto

\* Every step keeps the history true.
LEMMA OverlapStep == ASSUME OverlapInv, [Next]_vars PROVE OverlapInv'
<1>1. CASE Mark
  BY <1>1 DEF Mark, OverlapInv
<1>2. CASE Restart
  BY <1>2 DEF Restart, FirstPc, OverlapInv, Overlapping, Sharing, Tasks
<1>3. CASE UNCHANGED vars
  BY <1>3 DEF vars, OverlapInv, Overlapping, Sharing
<1> QED
  BY <1>1, <1>2, <1>3 DEF Next

\* Start-up advertises the board ID that is stored, or a request replaces it.
LEMMA BootBoardInv ==
    ASSUME TypeOK, OverlapInv, BoardInv, Boot, ~overlap
    PROVE  HttpRead' /\ (BoardTold => OthersRead)'
<1> USE DEF TypeOK, BoardInv, HttpRead, BoardTold, OthersRead, ServiceUp, Goto, nvsVars, taskVars
<1>1. CASE BootHost \/ BootMdns
  BY <1>1 DEF BootHost, BootMdns
<1>2. CASE BootName
  BY <1>2 DEF BootName, PutHost
<1>3. CASE BootBoard
  <2>1. ~Sharing("http") /\ ~Sharing("task")
    <3>1. Sharing("boot")
      BY <1>3 DEF BootBoard, ReadBoard, MissBoard, BlankBoard, Sharing
    <3> QED
      BY <3>1, Alone DEF Tasks
  <2>2. \/ /\ pc' = [pc EXCEPT !["boot"] = "service"]
           /\ board' = stored["board"] \/ (pc["boot"] = "blank" /\ board' = Unset)
        \/ pc' = [pc EXCEPT !["boot"] = "blank"] /\ stored["board"] = Unset
    BY <1>3, BoardRead DEF BootBoard, Tasks
  <2>3. /\ pc["boot"] = "blank" => missed' = missed
        /\ UNCHANGED <<stored, todo, strict, ad>>
    BY <1>3 DEF BootBoard, ReadBoard, MissBoard
  <2> QED
    BY <2>1, <2>2, <2>3 DEF Sharing
<1>4. CASE BootService
  <2>1. Sharing("boot")
    BY <1>4 DEF BootService, Sharing
  <2>2. CopiedBoard("boot") = {board} /\ ~Sharing("http") /\ ~Sharing("task")
    BY <2>1, Alone, Whole DEF Tasks
  <2> QED
    BY <1>4, <2>2 DEF BootService, PutText, Sharing
<1> QED
  BY <1>1, <1>2, <1>3, <1>4 DEF Boot

\* A request that wrote a board ID advertises it before it ends, or remembers
\* that it did not.
LEMMA HttpBoardInv ==
    ASSUME TypeOK, OverlapInv, BoardInv, Http, ~overlap
    PROVE  HttpRead' /\ (BoardTold => OthersRead)'
<1> USE DEF TypeOK, BoardInv, HttpRead, BoardTold, OthersRead, ServiceUp, Goto, nvsVars, taskVars
<1>1. CASE Store
  BY <1>1 DEF Store, Written, Proceed
<1>2. CASE StoreFails
  BY <1>2 DEF StoreFails, Written, Proceed
<1>3. CASE NotifyName
  BY <1>3 DEF NotifyName, PutHost
<1>4. CASE NotifyNameFails
  BY <1>4 DEF NotifyNameFails, Keys
<1>5. CASE NotifyBoard
  BY <1>5, BoardRead DEF NotifyBoard, Tasks
<1>6. CASE NotifyFormat
  BY <1>6 DEF NotifyFormat
<1>7. CASE NotifyText
  <2>1. Sharing("http")
    BY <1>7 DEF NotifyText, Sharing
  <2>2. CopiedBoard("http") = {board} /\ ~Sharing("boot") /\ ~Sharing("task")
    BY <2>1, Alone, Whole DEF Tasks
  <2> QED
    BY <1>7, <2>2 DEF NotifyText, PutText, Sharing
<1>8. CASE NotifyTextFails
  BY <1>8 DEF NotifyTextFails
<1> QED
  BY <1>1, <1>2, <1>3, <1>4, <1>5, <1>6, <1>7, <1>8 DEF Http

\* The discovery task reads the board ID again in every pass, and publishes
\* what it read, or a request replaces it.
LEMMA TaskBoardInv ==
    ASSUME TypeOK, OverlapInv, BoardInv, Task, ~overlap
    PROVE  HttpRead' /\ (BoardTold => OthersRead)'
<1> USE DEF TypeOK, BoardInv, HttpRead, BoardTold, OthersRead, ServiceUp, Goto, nvsVars, taskVars
<1>1. CASE Scan \/ Unchanged \/ Changed
  BY <1>1 DEF Scan, Unchanged, Changed
<1>2. CASE TaskBoard
  <2>1. ~Sharing("http") /\ ~Sharing("boot")
    <3>1. Sharing("task")
      BY <1>2 DEF TaskBoard, ReadBoard, MissBoard, BlankBoard, Sharing
    <3> QED
      BY <3>1, Alone DEF Tasks
  <2> QED
    BY <1>2, <2>1, BoardRead DEF TaskBoard, Sharing, Tasks
<1>3. CASE Publish
  <2>1. Sharing("task")
    BY <1>3 DEF Publish, Sharing
  <2>2. CopiedBoard("task") = {board} /\ ~Sharing("http") /\ ~Sharing("boot")
    BY <2>1, Alone, Whole DEF Tasks
  <2> QED
    BY <1>3, <2>2 DEF Publish, PutText, Sharing
<1>4. CASE PublishFails \/ StoreLast
  BY <1>4 DEF PublishFails, StoreLast
<1> QED
  BY <1>1, <1>2, <1>3, <1>4 DEF Task

\* Every step keeps the advertised board ID true.
LEMMA BoardStep ==
    ASSUME TypeOK, OverlapInv, BoardInv, [Next]_vars
    PROVE  BoardInv'
<1> USE DEF TypeOK, BoardInv, HttpRead, BoardTold, OthersRead, ServiceUp, Goto, nvsVars, taskVars
<1>1. CASE Request /\ Mark
  BY <1>1 DEF Request, Post, Import, Clear, Mark
<1>2. CASE DevicesChange /\ Mark
  BY <1>2 DEF DevicesChange, Mark
<1>3. CASE Restart
  BY <1>3 DEF Restart, FirstPc
<1>4. CASE UNCHANGED vars
  BY <1>4 DEF vars
<1>5. CASE (Boot \/ Http \/ Task) /\ Mark
  <2>1. overlap => overlap'
    BY <1>5 DEF Mark
  <2> QED
    BY <1>5, <2>1, BootBoardInv, HttpBoardInv, TaskBoardInv
<1> QED
  BY <1>1, <1>2, <1>3, <1>4, <1>5 DEF Next

\* Every step keeps the snapshot that is advertised the last that was stored,
\* but for the one the discovery task is about to store.
LEMMA SnapshotStep ==
    ASSUME TypeOK, OverlapInv, SnapshotInv, [Next]_vars
    PROVE  SnapshotInv'
<1> USE DEF SnapshotInv, ServiceUp, Goto, nvsVars, taskVars
<1>1. CASE Request /\ Mark
  BY <1>1 DEF TypeOK, Request, Post, Import, Clear, Mark
<1>2. CASE DevicesChange /\ Mark
  BY <1>2 DEF DevicesChange, Mark
<1>3. CASE Restart
  BY <1>3 DEF Restart, FirstPc
<1>4. CASE UNCHANGED vars
  BY <1>4 DEF vars
<1>5. ASSUME Boot, Mark, ~overlap PROVE SnapshotInv'
  <2>1. CASE BootHost \/ BootMdns \/ BootBoard
    BY <1>5, <2>1 DEF TypeOK, BootHost, BootMdns, BootBoard, ReadBoard, MissBoard, BlankBoard
  <2>2. CASE BootName
    BY <1>5, <2>2 DEF TypeOK, BootName, PutHost
  <2>3. CASE BootService
    <3>1. Sharing("boot")
      BY <2>3 DEF BootService, Sharing
    <3>2. ~Sharing("http")
      BY <1>5, <3>1, Alone DEF Tasks
    <3> QED
      BY <1>5, <2>3, <3>2 DEF TypeOK, BootService, PutText, Sharing
  <2> QED
    BY <1>5, <2>1, <2>2, <2>3 DEF Boot
<1>6. ASSUME Http, Mark, ~overlap PROVE SnapshotInv'
  <2>1. CASE Store \/ StoreFails
    BY <1>6, <2>1 DEF TypeOK, Store, StoreFails, Written
  <2>2. CASE NotifyName
    BY <1>6, <2>2 DEF TypeOK, NotifyName, PutHost
  <2>3. CASE NotifyNameFails \/ NotifyBoard \/ NotifyTextFails
    BY <1>6, <2>3 DEF TypeOK, NotifyNameFails, NotifyBoard, NotifyTextFails, ReadBoard, MissBoard, BlankBoard
  <2>4. CASE NotifyFormat
    <3>1. Sharing("http")
      BY <2>4 DEF NotifyFormat, Sharing
    <3>2. ~Sharing("task")
      BY <1>6, <3>1, Alone DEF Tasks
    <3> QED
      BY <1>6, <2>4, <3>2 DEF TypeOK, NotifyFormat, Formatted, Sharing
  <2>5. CASE NotifyText
    <3>1. Sharing("http")
      BY <2>5 DEF NotifyText, Sharing
    <3>2. ~Sharing("task")
      BY <1>6, <3>1, Alone DEF Tasks
    <3> QED
      BY <1>6, <2>5, <3>2 DEF TypeOK, NotifyText, PutText, Sharing
  <2> QED
    BY <1>6, <2>1, <2>2, <2>3, <2>4, <2>5 DEF Http
<1>7. ASSUME Task, Mark, ~overlap PROVE SnapshotInv'
  <2>1. CASE Scan \/ TaskBoard \/ Unchanged \/ Changed \/ PublishFails
    BY <1>7, <2>1 DEF TypeOK, Scan, TaskBoard, Unchanged, Changed, PublishFails,
                      ReadBoard, MissBoard, BlankBoard
  <2>2. CASE Publish
    <3>1. Sharing("task")
      BY <2>2 DEF Publish, Sharing
    <3>2. ~Sharing("http")
      BY <1>7, <3>1, Alone DEF Tasks
    <3> QED
      BY <1>7, <2>2, <3>2 DEF TypeOK, Publish, PutText, Sharing
  <2>3. CASE StoreLast
    <3>1. Sharing("task")
      BY <2>3 DEF StoreLast, Sharing
    <3>2. ~Sharing("http")
      BY <1>7, <3>1, Alone DEF Tasks
    <3> QED
      BY <1>7, <2>3, <3>2 DEF TypeOK, StoreLast, Sharing
  <2> QED
    BY <1>7, <2>1, <2>2, <2>3 DEF Task
<1>8. CASE overlap /\ Mark
  BY <1>8 DEF Mark
<1> QED
  BY <1>1, <1>2, <1>3, <1>4, <1>5, <1>6, <1>7, <1>8 DEF Next

\* While no two tasks overlap, the advertised board ID is the stored one
\* whenever no request is under way, over failures and resets at any point:
\* the discovery task's own read between a request's write and its
\* notification does no harm, for any board IDs.
THEOREM BoardTruth == Spec => []BoardSettles
<1>1. Init => OverlapInv /\ BoardInv
  BY DEF Init, FirstPc, FirstAd, OverlapInv, Overlapping, Sharing, Tasks, BoardInv, HttpRead,
         OthersRead, ServiceUp
<1>2. TypeOK /\ OverlapInv /\ BoardInv /\ [Next]_vars => OverlapInv' /\ BoardInv'
  BY OverlapStep, BoardStep
<1>3. BoardInv => BoardSettles
  BY DEF BoardInv, BoardTold, OthersRead, BoardSettles
<1> QED
  BY <1>1, <1>2, <1>3, DiscoveryTypeCorrect, PTL DEF Spec

\* While no two tasks overlap, s_last_snapshot is the snapshot advertised, so
\* that the discovery task compares with the truth, for any snapshots.
THEOREM SnapshotTruth == Spec => []SnapshotAgrees
<1>1. Init => OverlapInv /\ SnapshotInv
  BY DEF Init, FirstPc, FirstAd, OverlapInv, Overlapping, Sharing, Tasks, SnapshotInv, ServiceUp
<1>2. TypeOK /\ OverlapInv /\ SnapshotInv /\ [Next]_vars => OverlapInv' /\ SnapshotInv'
  BY OverlapStep, SnapshotStep
<1>3. SnapshotInv => SnapshotAgrees
  BY DEF SnapshotInv, SnapshotAgrees
<1> QED
  BY <1>1, <1>2, <1>3, DiscoveryTypeCorrect, PTL DEF Spec
=============================================================================
