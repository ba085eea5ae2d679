------------------------ MODULE VaultLifecycleProofs ------------------------
(***************************************************************************)
(* The registry serves what is on disk and acknowledged notes stay there,  *)
(* for any number of names and requests.                                   *)
(***************************************************************************)
EXTENDS VaultLifecycle, TLAPS

(* A request at a step is one of those the step is for.                    *)
Fits(r) ==
  /\ pc[r] \in {"create_dir", "create_obsidian"} => req[r].op = "create"
  /\ pc[r] \in {"contains", "unregister"} => req[r].op \in {"rename", "remove"}
  /\ pc[r] \in {"exists", "fs_rename"} => req[r].op = "rename"
  /\ pc[r] \in {"open_dir", "delete"} => req[r].op = "remove"
  /\ pc[r] \in {"build", "insert"} => req[r].op \in {"create", "rename"}
  /\ pc[r] \in {"lookup", "create_dir_all", "open"} => req[r].op = "write"

(* A request has no call before it starts and no answer before it is done. *)
StepsFit ==
  \A r \in Requests :
    /\ pc[r] = "new" => req[r] = None /\ resp[r] = "none"
    /\ pc[r] # "new" => req[r] \in Calls
    /\ pc[r] # "done" => resp[r] = "none"
    /\ Fits(r)

(* A request that may still make a directory has not made one: its         *)
(* identity names nothing and nothing is in it.                            *)
Fresh ==
  \A r \in Requests :
    pc[r] \in {"new", "create_dir", "lookup", "create_dir_all"} =>
      content[r] = {} /\ \A n \in Names : dir[n] # r

(* The handlers that give a name have checked it.                          *)
NamesChecked ==
  \A r \in Requests :
    Active(r) /\ req[r].op \in {"create", "rename"} => req[r].name \in ValidNames

(* No directory has two names.                                             *)
OneName == \A m, n \in Names : dir[m] = dir[n] => m = n \/ dir[m] = None

(* Only writes are under way together on a name that is not contended, and *)
(* a rename is contended on both its names or on neither.                  *)
ContentionKnown ==
  \A r \in Requests : Active(r) =>
    /\ \A s \in Requests \ {r} :
         Active(s) /\ Clash(req[r], req[s]) => Touches(req[r]) \subseteq contended
    /\ Touches(req[r]) \subseteq contended \/ Touches(req[r]) \cap contended = {}

(* A vault as the handlers leave it: served, absent, or left behind by a   *)
(* creation that failed, with no note in it.                               *)
Calm(n) ==
  \/ reg[n] = dir[n]
  \/ LeftBehind(n) /\ content[dir[n]] \cap Requests = {}

(* The steps between a change on disk and the matching change of the       *)
(* registry.                                                               *)
Midway == {"create_obsidian", "unregister", "build", "insert"}

CalmUnlessMidway ==
  \A n \in Names \ contended :
    Calm(n) \/ \E r \in Requests : pc[r] \in Midway /\ n \in Touches(req[r])

(* What a handler knows at each step, if nobody else is at its vaults.     *)
Registered(n) == reg[n] = dir[n] /\ dir[n] # None
Gone(n) == reg[n] = None /\ dir[n] = None
Unserved(n) == reg[n] = None /\ dir[n] # None

Knows(r) ==
  LET v == req[r].vault
      n == req[r].name IN
  /\ pc[r] \in {"open_dir", "delete", "exists", "fs_rename", "create_dir_all", "open"}
       => Registered(v)
  /\ pc[r] = "fs_rename" => Gone(n)
  /\ pc[r] = "create_obsidian" => Unserved(n) /\ dir[n] = r /\ content[r] \cap Requests = {}
  /\ pc[r] = "unregister" => dir[v] = None
  /\ pc[r] = "unregister" /\ req[r].op = "rename" => Unserved(n)
  /\ pc[r] \in {"build", "insert"} => Unserved(n)
  /\ pc[r] \in {"build", "insert"} /\ req[r].op = "rename" => Gone(v)
  /\ pc[r] = "insert" => index[r] = dir[n]

StepsKnown ==
  \A r \in Requests :
    Active(r) /\ Touches(req[r]) \cap contended = {} => Knows(r)

IInv ==
  /\ TypeOK
  /\ StepsFit
  /\ Fresh
  /\ NamesChecked
  /\ OneName
  /\ ContentionKnown
  /\ CalmUnlessMidway
  /\ StepsKnown
  /\ AckedNotesStayOnDisk

(* What every step of a handler has in common: it moves its own request    *)
(* on, touches only the directories and entries of its own vaults, and     *)
(* elsewhere only deletes (in a directory that was one of them).           *)
Frame(r) ==
  /\ Active(r)
  /\ UNCHANGED <<req, contended, restarts>>
  /\ \E step \in Steps \ {"new"} : pc' = [pc EXCEPT ![r] = step]
  /\ resp' = resp \/ \E status \in Statuses : pc'[r] = "done" /\ resp' = [resp EXCEPT ![r] = status]
  /\ \A s \in Requests \ {r} : index'[s] = index[s]
  /\ \A m \in Names \ Touches(req[r]) : dir'[m] = dir[m] /\ reg'[m] = reg[m]
  /\ \A i \in Ids : content'[i] \subseteq content[i] \/ \E m \in Touches(req[r]) : dir[m] = i

USE NamesAssumption, IdentityAssumption, FaultsAssumption, MaxRestartsAssumption

(* The parts of a call and the vaults it touches.                          *)
LEMMA CallsType ==
  ASSUME NEW c \in Calls
  PROVE  /\ c.op \in Ops /\ c.vault \in Names /\ c.name \in Names
         /\ c.op # "rename" => c.vault = c.name
         /\ Touches(c) \subseteq Names /\ c.vault \in Touches(c) /\ c.name \in Touches(c)
BY DEF Calls, Touches

(* The first step of each handler.                                         *)
LEMMA EntryType ==
  ASSUME NEW op \in Ops
  PROVE  /\ Entry(op) \in {"create_dir", "lookup", "contains"}
         /\ Entry(op) = "create_dir" => op = "create"
         /\ Entry(op) = "lookup" => op = "write"
         /\ Entry(op) = "contains" => op \in {"rename", "remove"}
BY DEF Entry, Ops

(* The calls of a request under way, and where it stands.                  *)
LEMMA ActiveCall ==
  ASSUME IInv, NEW r \in Requests, Active(r)
  PROVE  /\ req[r] \in Calls /\ resp[r] = "none" /\ req[r].vault \in Names /\ req[r].name \in Names
         /\ Touches(req[r]) \subseteq Names
         /\ req[r].vault \in Touches(req[r]) /\ req[r].name \in Touches(req[r])
         /\ req[r].op # "rename" => req[r].vault = req[r].name
<1>1. req[r] \in Calls /\ resp[r] = "none"
  BY DEF IInv, StepsFit, Active
<1>2. QED
  BY <1>1, CallsType

(* Nothing is under way when the server starts.                            *)
LEMMA InitIInv == Init => IInv
<1> SUFFICES ASSUME Init PROVE IInv
  OBVIOUS
<1>1. PICK there \in SUBSET Names :
        /\ dir = [n \in Names |-> IF n \in there THEN n ELSE None]
        /\ content = [i \in Ids |-> IF i \in there THEN {Obsidian} ELSE {}]
  BY DEF Init
<1>2. TypeOK
  BY <1>1 DEF Init, TypeOK, NamesVetted, Entries, Ids, Steps, Statuses, Discovered
<1>3. StepsFit
  BY DEF Init, StepsFit, Fits
<1>4. Fresh
  BY <1>1 DEF Init, Fresh, Ids
<1>5. OneName /\ NamesChecked
  BY <1>1 DEF OneName, Init, NamesChecked, Active
<1>6. ContentionKnown
  BY DEF Init, ContentionKnown, Active
<1>7. CalmUnlessMidway
  BY <1>1 DEF Init, CalmUnlessMidway, Calm, Discovered
<1>8. StepsKnown
  BY DEF Init, StepsKnown, Active
<1>9. AckedNotesStayOnDisk
  BY DEF Init, AckedNotesStayOnDisk, Acked
<1>10. QED
  BY <1>2, <1>3, <1>4, <1>5, <1>6, <1>7, <1>8, <1>9 DEF IInv

-----------------------------------------------------------------------------
(* What a handler does not touch stays as it is: names and requests that   *)
(* have nothing in common with it are as calm and as knowing as before.    *)
LEMMA FrameStep ==
  ASSUME IInv, NEW r \in Requests, Frame(r)
  PROVE  /\ \A s \in Requests \ {r} : pc'[s] = pc[s] /\ resp'[s] = resp[s]
         /\ \A s \in Requests : Active(s)' => Active(s)
         /\ pc'[r] # "new"
         /\ pc'[r] # "done" => resp'[r] = "none"
<1>1. PICK step \in Steps \ {"new"} : pc' = [pc EXCEPT ![r] = step]
  BY DEF Frame
<1>2. resp[r] = "none"
  BY DEF IInv, StepsFit, Frame, Active
<1>3. pc \in [Requests -> Steps] /\ resp \in [Requests -> Statuses]
  BY DEF IInv, TypeOK
<1>4. \A s \in Requests \ {r} : resp'[s] = resp[s]
  BY <1>3 DEF Frame
<1>5. pc'[r] # "done" => resp'[r] = "none"
  BY <1>2 DEF Frame
<1>6. pc'[r] = step /\ \A s \in Requests \ {r} : pc'[s] = pc[s]
  BY <1>1, <1>3
<1>7. QED
  BY <1>4, <1>5, <1>6 DEF Active, Frame

(* A step adds no contention and no request.                               *)
LEMMA FrameContention ==
  ASSUME IInv, NEW r \in Requests, Frame(r) PROVE ContentionKnown' /\ NamesChecked'
<1>1. \A s \in Requests : Active(s)' => Active(s)
  BY FrameStep
<1>2. req' = req /\ contended' = contended
  BY DEF Frame
<1>3. QED
  BY <1>1, <1>2, Zenon DEF IInv, ContentionKnown, NamesChecked, Touches, Clash

(* A step leaves vaults it does not touch as settled as they were.         *)
LEMMA CalmElsewhere ==
  ASSUME IInv, NEW r \in Requests, Frame(r), NEW n \in Names \ contended, n \notin Touches(req[r])
  PROVE  Calm(n)' \/ \E s \in Requests : pc'[s] \in Midway /\ n \in Touches(req'[s])
<1>1. dir'[n] = dir[n] /\ reg'[n] = reg[n] /\ req' = req
  BY DEF Frame
<1>2. \A s \in Requests \ {r} : pc'[s] = pc[s] /\ resp'[s] = resp[s]
  BY FrameStep
<1>3. CASE reg[n] = dir[n]
  BY <1>1, <1>3 DEF Calm
<1>4. CASE LeftBehind(n) /\ content[dir[n]] \cap Requests = {}
  <2>1. dir[n] \in Requests /\ resp[dir[n]] = "500" /\ resp[r] = "none"
    BY <1>4, ActiveCall DEF LeftBehind, Frame
  <2>2. dir[n] # r /\ dir[n] # None /\ dir[n] \in Ids
    BY <2>1 DEF Ids
  <2>3. LeftBehind(n)'
    BY <1>1, <1>2, <1>4, <2>1, <2>2 DEF LeftBehind
  <2>4. \A m \in Touches(req[r]) : dir[m] # dir[n]
    BY <2>2, ActiveCall DEF IInv, OneName, Frame
  <2>5. content'[dir[n]] \subseteq content[dir[n]]
    BY <2>2, <2>4 DEF Frame
  <2>6. QED
    BY <1>1, <1>4, <2>3, <2>5 DEF Calm
<1>5. CASE \E s \in Requests : pc[s] \in Midway /\ n \in Touches(req[s])
  BY <1>1, <1>2, <1>5
<1>6. QED
  BY <1>3, <1>4, <1>5 DEF IInv, CalmUnlessMidway, Calm

(* A step leaves what a request on other vaults has found out true.        *)
LEMMA KnowsElsewhere ==
  ASSUME IInv, NEW r \in Requests, Frame(r), NEW s \in Requests \ {r}, Active(s)',
         Touches(req[s]) \cap contended = {}, Touches(req[s]) \cap Touches(req[r]) = {}
  PROVE  Knows(s)'
<1>1. Active(s) /\ pc'[s] = pc[s] /\ index'[s] = index[s] /\ req' = req
  BY FrameStep DEF Frame
<1>2. Knows(s)
  BY <1>1 DEF IInv, StepsKnown
<1>3. /\ req[s].vault \in Names \ Touches(req[r])
      /\ req[s].name \in Names \ Touches(req[r])
  BY <1>1, ActiveCall
<1>4. /\ dir'[req[s].vault] = dir[req[s].vault] /\ reg'[req[s].vault] = reg[req[s].vault]
      /\ dir'[req[s].name] = dir[req[s].name] /\ reg'[req[s].name] = reg[req[s].name]
  BY <1>3 DEF Frame
<1>5. pc[s] = "create_obsidian" => content'[s] \subseteq content[s]
  <2> SUFFICES ASSUME pc[s] = "create_obsidian" PROVE content'[s] \subseteq content[s]
    OBVIOUS
  <2>1. dir[req[s].name] = s /\ s # None /\ s \in Ids
    BY <1>2 DEF Knows, Ids
  <2>2. \A m \in Touches(req[r]) : dir[m] # s
    BY <1>3, <2>1, ActiveCall DEF IInv, OneName, Frame
  <2>3. QED
    BY <2>1, <2>2 DEF Frame
<1>6. QED
  BY <1>1, <1>2, <1>4, <1>5 DEF Knows, Registered, Gone, Unserved

(* A step on a contended vault can disturb only contended names.           *)
LEMMA ContendedStep ==
  ASSUME IInv, NEW r \in Requests, Frame(r), Touches(req[r]) \subseteq contended
  PROVE  CalmUnlessMidway' /\ StepsKnown'
<1>1. req' = req /\ contended' = contended
  BY DEF Frame
<1>2. CalmUnlessMidway'
  <2> SUFFICES ASSUME NEW n \in Names \ contended
               PROVE  Calm(n)' \/ \E s \in Requests : pc'[s] \in Midway /\ n \in Touches(req'[s])
    BY <1>1 DEF CalmUnlessMidway, Touches
  <2>1. n \notin Touches(req[r])
    OBVIOUS
  <2>2. QED
    BY <2>1, CalmElsewhere
<1>3. StepsKnown'
  <2> SUFFICES ASSUME NEW s \in Requests, Active(s)', Touches(req[s]) \cap contended = {}
               PROVE  Knows(s)'
    BY <1>1 DEF StepsKnown, Touches
  <2>1. req[r].vault \in Touches(req[r])
    BY ActiveCall DEF Frame
  <2>2. s # r /\ Touches(req[s]) \cap Touches(req[r]) = {}
    BY <2>1
  <2>3. QED
    BY <2>2, KnowsElsewhere
<1>4. QED
  BY <1>2, <1>3

(* A step on a vault that is not contended: it has to leave the vaults it  *)
(* touches calm, or be midway, and to establish what its next step relies  *)
(* on; a write leaves the directory and its entry to other writes.         *)
LEMMA UncontendedStep ==
  ASSUME IInv, NEW r \in Requests, Frame(r), Touches(req[r]) \cap contended = {},
         pc'[r] # "done" => Knows(r)',
         pc'[r] \notin Midway => \A n \in Touches(req[r]) : Calm(n)',
         req[r].op = "write" => dir' = dir /\ reg' = reg
  PROVE  CalmUnlessMidway' /\ StepsKnown'
<1>1. req' = req /\ contended' = contended
  BY DEF Frame
<1>2. CalmUnlessMidway'
  <2> SUFFICES ASSUME NEW n \in Names \ contended
               PROVE  Calm(n)' \/ \E s \in Requests : pc'[s] \in Midway /\ n \in Touches(req'[s])
    BY <1>1 DEF CalmUnlessMidway, Touches
  <2>1. CASE n \in Touches(req[r])
    BY <1>1, <2>1
  <2>2. CASE n \notin Touches(req[r])
    BY <2>2, CalmElsewhere
  <2>3. QED
    BY <2>1, <2>2
<1>3. StepsKnown'
  <2> SUFFICES ASSUME NEW s \in Requests, Active(s)', Touches(req[s]) \cap contended = {}
               PROVE  Knows(s)'
    BY <1>1 DEF StepsKnown, Touches
  <2>1. CASE s = r
    BY <2>1 DEF Active
  <2>2. CASE s # r /\ Touches(req[s]) \cap Touches(req[r]) = {}
    BY <2>2, KnowsElsewhere
  <2>3. CASE s # r /\ Touches(req[s]) \cap Touches(req[r]) # {}
    <3>1. Active(s) /\ Active(r) /\ pc'[s] = pc[s] /\ index'[s] = index[s]
      BY <2>3, FrameStep DEF Frame
    <3>2. ~Clash(req[r], req[s])
      BY <2>3, <3>1, ActiveCall DEF IInv, ContentionKnown
    <3>3. req[r].op = "write" /\ req[s].op = "write"
      BY <2>3, <3>2 DEF Clash
    <3>4. Knows(s)
      BY <3>1 DEF IInv, StepsKnown
    <3>5. pc[s] \in {"lookup", "create_dir_all", "open"}
      BY <3>1, <3>3 DEF IInv, TypeOK, StepsFit, Fits, Steps, Active
    <3>6. QED
      BY <1>1, <3>1, <3>3, <3>4, <3>5 DEF Knows, Registered
  <2>4. QED
    BY <2>1, <2>2, <2>3
<1>4. QED
  BY <1>2, <1>3

(* Before a handler changes anything its uncontended vaults are calm.      *)
LEMMA CalmHere ==
  ASSUME IInv, NEW r \in Requests, Active(r), Touches(req[r]) \cap contended = {},
         pc[r] \notin Midway, NEW n \in Touches(req[r])
  PROVE  Calm(n)
<1>1. n \in Names \ contended
  BY ActiveCall
<1>2. SUFFICES ASSUME NEW s \in Requests, pc[s] \in Midway, n \in Touches(req[s]) PROVE FALSE
  BY <1>1 DEF IInv, CalmUnlessMidway
<1>3. s # r /\ Active(s)
  BY <1>2 DEF Active, Midway
<1>4. req[s].op # "write"
  BY <1>2 DEF IInv, StepsFit, Fits, Midway
<1>5. Clash(req[r], req[s])
  BY <1>2, <1>4 DEF Clash
<1>6. QED
  BY <1>1, <1>3, <1>5 DEF IInv, ContentionKnown

(* In a settled vault what is registered is on the disk.                   *)
LEMMA CalmRegistered ==
  ASSUME NEW n \in Names, Calm(n), reg[n] # None PROVE Registered(n)
BY DEF Calm, LeftBehind, Registered

(* In a settled vault what is not on the disk is not registered.           *)
LEMMA CalmAbsent ==
  ASSUME NEW n \in Names, Calm(n), dir[n] = None PROVE Gone(n)
BY DEF Calm, LeftBehind, Gone

(* The parts of the invariant that do not depend on contention, for a step *)
(* of a handler.                                                           *)
LEMMA FrameFresh ==
  ASSUME IInv, NEW r \in Requests, Frame(r),
         pc'[r] \notin {"create_dir", "lookup", "create_dir_all"},
         \A m \in Names : dir'[m] \in {None, r} \/ \E k \in Names : dir'[m] = dir[k]
  PROVE  Fresh'
<1> SUFFICES ASSUME NEW s \in Requests, pc'[s] \in {"new", "create_dir", "lookup", "create_dir_all"}
             PROVE  content'[s] = {} /\ \A n \in Names : dir'[n] # s
  BY DEF Fresh
<1>1. s # r /\ pc'[s] = pc[s] /\ s # None /\ s \in Ids
  BY FrameStep DEF Ids
<1>2. content[s] = {} /\ \A n \in Names : dir[n] # s
  BY <1>1 DEF IInv, Fresh
<1>3. content'[s] \subseteq content[s]
  BY <1>1, <1>2, ActiveCall DEF Frame
<1>4. QED
  BY <1>1, <1>2, <1>3

(* A step keeps the acknowledged notes if it moves every note it does not  *)
(* erase to a directory that is served.                                    *)
LEMMA FrameAcked ==
  ASSUME IInv, NEW r \in Requests, Frame(r), erased \subseteq erased',
         \A q \in Requests, n \in Names :
           Holds(n, q) => q \in erased' \/ \E m \in Names : Holds(m, q)',
         resp'[r] = "200" /\ req[r].op = "write" => \E m \in Names : Holds(m, r)'
  PROVE  AckedNotesStayOnDisk'
<1> SUFFICES ASSUME NEW q \in Requests, Acked(q)'
             PROVE  q \in erased' \/ \E m \in Names : Holds(m, q)'
  BY DEF AckedNotesStayOnDisk
<1>1. req' = req
  BY DEF Frame
<1>2. CASE q = r
  BY <1>1, <1>2 DEF Acked
<1>3. CASE q # r
  <2>1. Acked(q)
    BY <1>1, <1>3, FrameStep DEF Acked
  <2>2. QED
    BY <2>1 DEF IInv, AckedNotesStayOnDisk
<1>4. QED
  BY <1>2, <1>3

(* A step that leaves the disk alone.                                      *)
LEMMA DiskUntouched ==
  ASSUME IInv, NEW r \in Requests, Frame(r), UNCHANGED <<dir, content, erased>>,
         pc'[r] \in {"create_dir", "lookup", "create_dir_all"} => pc[r] \in {"create_dir", "lookup"},
         resp'[r] = "200" => req[r].op # "write"
  PROVE  Fresh' /\ OneName' /\ AckedNotesStayOnDisk'
<1>1. Fresh'
  <2>1. CASE pc'[r] \in {"create_dir", "lookup", "create_dir_all"}
    BY <2>1, FrameStep DEF IInv, Fresh
  <2>2. CASE pc'[r] \notin {"create_dir", "lookup", "create_dir_all"}
    BY <2>2, FrameFresh
  <2>3. QED
    BY <2>1, <2>2
<1>2. OneName'
  BY DEF IInv, OneName
<1>3. AckedNotesStayOnDisk'
  <2>1. \A q \in Requests, n \in Names : Holds(n, q) => Holds(n, q)'
    BY DEF Holds
  <2>2. QED
    BY <2>1, FrameAcked
<1>4. QED
  BY <1>1, <1>2, <1>3

(* A handler's step, put together.                                         *)
LEMMA HandlerStep ==
  ASSUME IInv, NEW r \in Requests, Frame(r), TypeOK', StepsFit', Fresh', OneName',
         AckedNotesStayOnDisk',
         Touches(req[r]) \cap contended = {} =>
           /\ pc'[r] # "done" => Knows(r)'
           /\ pc'[r] \notin Midway => \A n \in Touches(req[r]) : Calm(n)'
           /\ req[r].op = "write" => dir' = dir /\ reg' = reg
  PROVE  IInv'
<1>1. CalmUnlessMidway' /\ StepsKnown'
  <2>1. CASE Touches(req[r]) \subseteq contended
    BY <2>1, ContendedStep
  <2>2. CASE Touches(req[r]) \cap contended = {}
    BY <2>2, UncontendedStep
  <2>3. QED
    BY <2>1, <2>2 DEF IInv, ContentionKnown, Frame
<1>2. ContentionKnown' /\ NamesChecked'
  BY FrameContention
<1>3. QED
  BY <1>1, <1>2 DEF IInv

(* A handler moves its request on, to a step or to an answer.              *)
LEMMA MoveType ==
  ASSUME IInv, NEW r \in Requests, Active(r),
         \/ \E step \in Steps \ {"new", "done"} : Goto(r, step)
         \/ \E status \in Statuses \ {"none"} : Respond(r, status)
  PROVE  /\ pc' \in [Requests -> Steps] /\ resp' \in [Requests -> Statuses]
         /\ \E step \in Steps \ {"new"} : pc' = [pc EXCEPT ![r] = step]
         /\ resp' = resp \/ \E status \in Statuses : pc'[r] = "done" /\ resp' = [resp EXCEPT ![r] = status]
<1>1. pc \in [Requests -> Steps] /\ resp \in [Requests -> Statuses]
  BY DEF IInv, TypeOK
<1>2. CASE \E step \in Steps \ {"new", "done"} : Goto(r, step)
  BY <1>1, <1>2 DEF Goto
<1>3. ASSUME NEW status \in Statuses \ {"none"}, Respond(r, status)
      PROVE  /\ pc' \in [Requests -> Steps] /\ resp' \in [Requests -> Statuses]
             /\ pc' = [pc EXCEPT ![r] = "done"] /\ pc'[r] = "done"
             /\ resp' = [resp EXCEPT ![r] = status]
  BY <1>1, <1>3 DEF Respond, Steps
<1>4. "done" \in Steps \ {"new"}
  BY DEF Steps
<1>5. QED
  BY <1>2, <1>3, <1>4

(* StepsFit is kept when the moved request fits its new step.              *)
LEMMA FrameFits ==
  ASSUME IInv, NEW r \in Requests, Frame(r), Fits(r)' PROVE StepsFit'
<1> SUFFICES ASSUME NEW s \in Requests
             PROVE  /\ pc'[s] = "new" => req'[s] = None /\ resp'[s] = "none"
                    /\ pc'[s] # "new" => req'[s] \in Calls
                    /\ pc'[s] # "done" => resp'[s] = "none"
                    /\ Fits(s)'
  BY DEF StepsFit
<1>1. req' = req /\ Active(r)
  BY DEF Frame
<1>2. CASE s = r
  <2>1. pc'[r] # "new" /\ (pc'[r] # "done" => resp'[r] = "none")
    BY FrameStep
  <2>2. req[r] \in Calls
    BY <1>1, ActiveCall
  <2>3. QED
    BY <1>1, <1>2, <2>1, <2>2
<1>3. CASE s # r
  <2>1. pc'[s] = pc[s] /\ resp'[s] = resp[s]
    BY <1>3, FrameStep
  <2>2. QED
    BY <1>1, <2>1 DEF IInv, StepsFit, Fits
<1>4. QED
  BY <1>2, <1>3

(* A calm vault whose directory, entry and notes a handler leaves alone    *)
(* stays calm: the creation that may have left it behind is over.          *)
LEMMA CalmStays ==
  ASSUME IInv, NEW r \in Requests, Frame(r), NEW n \in Names, Calm(n),
         dir'[n] = dir[n], reg'[n] = reg[n],
         dir[n] # None /\ reg[n] # dir[n] => content'[dir[n]] \subseteq content[dir[n]]
  PROVE  Calm(n)'
<1>1. CASE reg[n] = dir[n]
  BY <1>1 DEF Calm
<1>2. CASE reg[n] # dir[n] /\ LeftBehind(n) /\ content[dir[n]] \cap Requests = {}
  <2>1. dir[n] \in Requests /\ dir[n] # r /\ dir[n] # None
    BY <1>2, ActiveCall DEF LeftBehind, Frame
  <2>2. resp'[dir[n]] = resp[dir[n]]
    BY <2>1, FrameStep
  <2>3. LeftBehind(n)'
    BY <1>2, <2>1, <2>2 DEF LeftBehind, Frame
  <2>4. QED
    BY <1>2, <2>1, <2>3 DEF Calm
<1>3. QED
  BY <1>1, <1>2 DEF Calm

-----------------------------------------------------------------------------
(* create: the directory is new, so it has no other name and no note.      *)
LEMMA CreateDirIInv ==
  ASSUME IInv, NEW r \in Requests, CreateDir(r) PROVE IInv'
<1> DEFINE n == req[r].name
<1>1. Active(r) /\ pc[r] = "create_dir" /\ req[r].op = "create"
  BY DEF CreateDir, Active, IInv, StepsFit, Fits
<1>2. /\ n \in Names /\ n \in Touches(req[r]) /\ Touches(req[r]) = {n} /\ Touches(req[r]) \subseteq Names
      /\ r \in Ids /\ r # None
  BY <1>1, ActiveCall DEF Touches, Ids
<1>3. content[r] = {} /\ \A m \in Names : dir[m] # r
  BY <1>1 DEF IInv, Fresh
<1>4. UNCHANGED <<content, erased, reg, req, index, opened, left, contended, restarts>>
  BY DEF CreateDir, runVars, walkVars
<1>5. \/ dir' = dir /\ \E status \in {"409", "500"} : Respond(r, status)
      \/ dir[n] = None /\ dir' = [dir EXCEPT ![n] = r] /\ Goto(r, "create_obsidian")
  BY DEF CreateDir
<1>6. /\ pc' \in [Requests -> Steps] /\ resp' \in [Requests -> Statuses]
      /\ \E step \in Steps \ {"new"} : pc' = [pc EXCEPT ![r] = step]
      /\ resp' = resp \/ \E status \in Statuses : pc'[r] = "done" /\ resp' = [resp EXCEPT ![r] = status]
  <2>1. \/ \E step \in Steps \ {"new", "done"} : Goto(r, step)
        \/ \E status \in Statuses \ {"none"} : Respond(r, status)
    BY <1>5 DEF Steps, Statuses
  <2>2. QED
    BY <1>1, <2>1, MoveType
<1>7. pc'[r] \in {"done", "create_obsidian"} /\ (pc'[r] = "create_obsidian" <=> dir' # dir)
      /\ resp'[r] # "200"
  <2>1. pc \in [Requests -> Steps] /\ dir \in [Names -> Ids \cup {None}] /\ resp \in [Requests -> Statuses]
    BY DEF IInv, TypeOK
  <2>2. resp[r] = "none"
    BY <1>1, ActiveCall
  <2>3. CASE dir' = dir /\ \E status \in {"409", "500"} : Respond(r, status)
    BY <2>1, <2>3 DEF Respond
  <2>4. CASE dir[n] = None /\ dir' = [dir EXCEPT ![n] = r] /\ Goto(r, "create_obsidian")
    BY <1>2, <2>1, <2>2, <2>4 DEF Goto
  <2>5. QED
    BY <1>5, <2>3, <2>4
<1>8. /\ dir' \in [Names -> Ids \cup {None}]
      /\ \A m \in Names : dir'[m] = dir[m] \/ (m = n /\ dir'[m] = r /\ dir[m] = None)
      /\ pc'[r] = "create_obsidian" => dir'[n] = r /\ dir[n] = None
  BY <1>2, <1>5, <1>7 DEF IInv, TypeOK
<1>9. TypeOK'
  <2>1. n \in ValidNames
    BY <1>1 DEF IInv, NamesChecked
  <2>2. NamesVetted'
    BY <1>4, <1>8, <2>1 DEF IInv, TypeOK, NamesVetted
  <2> QED
    BY <1>4, <1>6, <1>8, <2>2 DEF IInv, TypeOK
<1>10. Frame(r)
  BY <1>1, <1>2, <1>4, <1>6, <1>8 DEF Frame
<1>11. StepsFit'
  BY <1>1, <1>4, <1>7, <1>10, FrameFits DEF Fits
<1>12. Fresh'
  BY <1>7, <1>8, <1>10, FrameFresh
<1>13. OneName'
  BY <1>3, <1>8 DEF IInv, OneName
<1>14. AckedNotesStayOnDisk'
  <2>1. \A q \in Requests, m \in Names : Holds(m, q) => Holds(m, q)'
    BY <1>4, <1>8 DEF Holds
  <2>2. QED
    BY <1>4, <1>7, <1>10, <2>1, FrameAcked
<1>15. ASSUME Touches(req[r]) \cap contended = {}
       PROVE  /\ pc'[r] # "done" => Knows(r)'
              /\ pc'[r] \notin Midway => \A m \in Touches(req[r]) : Calm(m)'
  <2>1. Calm(n)
    BY <1>1, <1>2, <1>15, CalmHere DEF Midway
  <2>2. CASE pc'[r] = "create_obsidian"
    <3>1. Gone(n) /\ dir'[n] = r
      BY <1>2, <1>8, <2>1, <2>2, CalmAbsent
    <3>2. Knows(r)'
      BY <1>1, <1>2, <1>3, <1>4, <2>2, <3>1 DEF Knows, Unserved, Gone
    <3>3. QED
      BY <2>2, <3>2 DEF Midway
  <2>3. CASE pc'[r] = "done"
    <3>1. \A m \in Touches(req[r]) : Calm(m)'
      BY <1>2, <1>4, <1>7, <1>10, <2>1, <2>3, CalmStays
    <3>2. QED
      BY <2>3, <3>1
  <2>4. QED
    BY <1>7, <2>2, <2>3
<1>16. req[r].op # "write"
  BY <1>1
<1>17. QED
  BY <1>9, <1>10, <1>11, <1>12, <1>13, <1>14, <1>15, <1>16, HandlerStep

(* What the two ways to move on leave in pc and resp.                      *)
LEMMA Moved ==
  ASSUME IInv, NEW r \in Requests, Active(r)
  PROVE  /\ \A step \in Steps : Goto(r, step) => pc'[r] = step /\ resp'[r] = "none"
         /\ \A status \in Statuses : Respond(r, status) => pc'[r] = "done" /\ resp'[r] = status
<1>1. pc \in [Requests -> Steps] /\ resp \in [Requests -> Statuses] /\ resp[r] = "none"
  BY ActiveCall DEF IInv, TypeOK
<1>2. QED
  BY <1>1 DEF Goto, Respond

(* rename, remove: the vault is registered when they go on.                *)
LEMMA ContainsIInv ==
  ASSUME IInv, NEW r \in Requests, Contains(r) PROVE IInv'
<1> DEFINE v == req[r].vault
<1>1. Active(r) /\ pc[r] = "contains" /\ req[r].op \in {"rename", "remove"}
  BY DEF Contains, Active, IInv, StepsFit, Fits
<1>2. v \in Names /\ v \in Touches(req[r]) /\ Touches(req[r]) \subseteq Names
  BY <1>1, ActiveCall
<1>3. UNCHANGED <<dir, content, erased, reg, req, index, opened, left, contended, restarts>>
  BY DEF Contains, fsVars, runVars, walkVars
<1>4. \/ Respond(r, "404")
      \/ reg[v] # None /\ req[r].op = "rename" /\ Goto(r, "exists")
      \/ reg[v] # None /\ req[r].op = "remove" /\ Goto(r, "open_dir")
  BY <1>1 DEF Contains
<1>5. /\ {"exists", "open_dir"} \subseteq Steps \ {"new", "done"}
      /\ "404" \in Statuses \ {"none"}
  BY DEF Steps, Statuses
<1>6. /\ pc' \in [Requests -> Steps] /\ resp' \in [Requests -> Statuses]
      /\ \E step \in Steps \ {"new"} : pc' = [pc EXCEPT ![r] = step]
      /\ resp' = resp \/ \E status \in Statuses : pc'[r] = "done" /\ resp' = [resp EXCEPT ![r] = status]
  BY <1>1, <1>4, <1>5, MoveType
<1>7. /\ pc'[r] \in {"done", "exists", "open_dir"} /\ resp'[r] \in {"404", "none"}
      /\ pc'[r] = "exists" => req[r].op = "rename"
      /\ pc'[r] = "open_dir" => req[r].op = "remove"
      /\ pc'[r] # "done" => reg[v] # None
  BY <1>1, <1>4, <1>5, Moved
<1>8. TypeOK'
  BY <1>3, <1>6 DEF IInv, TypeOK, NamesVetted
<1>9. Frame(r)
  BY <1>1, <1>3, <1>6 DEF Frame
<1>10. StepsFit'
  BY <1>3, <1>7, <1>9, FrameFits DEF Fits
<1>11. Fresh' /\ OneName' /\ AckedNotesStayOnDisk'
  BY <1>3, <1>7, <1>9, DiskUntouched
<1>12. ASSUME Touches(req[r]) \cap contended = {}
       PROVE  /\ pc'[r] # "done" => Knows(r)'
              /\ \A m \in Touches(req[r]) : Calm(m)'
  <2>1. \A m \in Touches(req[r]) : Calm(m)
    BY <1>1, <1>12, CalmHere DEF Midway
  <2>2. \A m \in Touches(req[r]) : Calm(m)'
    BY <1>2, <1>3, <1>9, <2>1, CalmStays
  <2>3. pc'[r] # "done" => Registered(v)
    BY <1>2, <1>7, <2>1, CalmRegistered
  <2>4. pc'[r] # "done" => Knows(r)'
    BY <1>3, <1>7, <2>3 DEF Knows, Registered
  <2>5. QED
    BY <2>2, <2>4
<1>13. req[r].op # "write"
  BY <1>1
<1>14. QED
  BY <1>8, <1>9, <1>10, <1>11, <1>12, <1>13, HandlerStep

(* rename: the new name is free when it goes on.                           *)
LEMMA ExistsIInv ==
  ASSUME IInv, NEW r \in Requests, Exists(r) PROVE IInv'
<1> DEFINE v == req[r].vault
           n == req[r].name
<1>1. Active(r) /\ pc[r] = "exists" /\ req[r].op = "rename"
  BY DEF Exists, Active, IInv, StepsFit, Fits
<1>2. n \in Names /\ n \in Touches(req[r]) /\ Touches(req[r]) \subseteq Names
  BY <1>1, ActiveCall
<1>3. UNCHANGED <<dir, content, erased, reg, req, index, opened, left, contended, restarts>>
  BY DEF Exists, fsVars, runVars, walkVars
<1>4. Respond(r, "409") \/ (dir[n] = None /\ Goto(r, "fs_rename"))
  BY DEF Exists
<1>5. "fs_rename" \in Steps \ {"new", "done"} /\ "409" \in Statuses \ {"none"}
  BY DEF Steps, Statuses
<1>6. /\ pc' \in [Requests -> Steps] /\ resp' \in [Requests -> Statuses]
      /\ \E step \in Steps \ {"new"} : pc' = [pc EXCEPT ![r] = step]
      /\ resp' = resp \/ \E status \in Statuses : pc'[r] = "done" /\ resp' = [resp EXCEPT ![r] = status]
  BY <1>1, <1>4, <1>5, MoveType
<1>7. /\ pc'[r] \in {"done", "fs_rename"} /\ resp'[r] \in {"409", "none"}
      /\ pc'[r] # "done" => dir[n] = None
  BY <1>1, <1>4, <1>5, Moved
<1>8. TypeOK'
  BY <1>3, <1>6 DEF IInv, TypeOK, NamesVetted
<1>9. Frame(r)
  BY <1>1, <1>3, <1>6 DEF Frame
<1>10. StepsFit'
  BY <1>1, <1>3, <1>7, <1>9, FrameFits DEF Fits
<1>11. Fresh' /\ OneName' /\ AckedNotesStayOnDisk'
  BY <1>3, <1>7, <1>9, DiskUntouched
<1>12. ASSUME Touches(req[r]) \cap contended = {}
       PROVE  /\ pc'[r] # "done" => Knows(r)'
              /\ \A m \in Touches(req[r]) : Calm(m)'
  <2>1. \A m \in Touches(req[r]) : Calm(m)
    BY <1>1, <1>12, CalmHere DEF Midway
  <2>2. \A m \in Touches(req[r]) : Calm(m)'
    BY <1>2, <1>3, <1>9, <2>1, CalmStays
  <2>3. pc'[r] # "done" => Gone(n)
    BY <1>2, <1>7, <2>1, CalmAbsent
  <2>4. Registered(v)
    BY <1>1, <1>12 DEF IInv, StepsKnown, Knows
  <2>5. pc'[r] # "done" => Knows(r)'
    BY <1>3, <1>7, <2>3, <2>4 DEF Knows, Registered, Gone
  <2>6. QED
    BY <2>2, <2>5
<1>13. req[r].op # "write"
  BY <1>1
<1>14. QED
  BY <1>8, <1>9, <1>10, <1>11, <1>12, <1>13, HandlerStep

(* write_file: the vault is registered when it goes on.                    *)
LEMMA LookupIInv ==
  ASSUME IInv, NEW r \in Requests, Lookup(r) PROVE IInv'
<1> DEFINE v == req[r].vault
<1>1. Active(r) /\ pc[r] = "lookup" /\ req[r].op = "write"
  BY DEF Lookup, Active, IInv, StepsFit, Fits
<1>2. v \in Names /\ v \in Touches(req[r]) /\ Touches(req[r]) \subseteq Names
  BY <1>1, ActiveCall
<1>3. UNCHANGED <<dir, content, erased, reg, req, index, opened, left, contended, restarts>>
  BY DEF Lookup, fsVars, runVars, walkVars
<1>4. Respond(r, "404") \/ (reg[v] # None /\ Goto(r, "create_dir_all"))
  BY DEF Lookup
<1>5. "create_dir_all" \in Steps \ {"new", "done"} /\ "404" \in Statuses \ {"none"}
  BY DEF Steps, Statuses
<1>6. /\ pc' \in [Requests -> Steps] /\ resp' \in [Requests -> Statuses]
      /\ \E step \in Steps \ {"new"} : pc' = [pc EXCEPT ![r] = step]
      /\ resp' = resp \/ \E status \in Statuses : pc'[r] = "done" /\ resp' = [resp EXCEPT ![r] = status]
  BY <1>1, <1>4, <1>5, MoveType
<1>7. /\ pc'[r] \in {"done", "create_dir_all"} /\ resp'[r] \in {"404", "none"}
      /\ pc'[r] # "done" => reg[v] # None
  BY <1>1, <1>4, <1>5, Moved
<1>8. TypeOK'
  BY <1>3, <1>6 DEF IInv, TypeOK, NamesVetted
<1>9. Frame(r)
  BY <1>1, <1>3, <1>6 DEF Frame
<1>10. StepsFit'
  BY <1>1, <1>3, <1>7, <1>9, FrameFits DEF Fits
<1>11. Fresh' /\ OneName' /\ AckedNotesStayOnDisk'
  BY <1>1, <1>3, <1>7, <1>9, DiskUntouched
<1>12. ASSUME Touches(req[r]) \cap contended = {}
       PROVE  /\ pc'[r] # "done" => Knows(r)'
              /\ \A m \in Touches(req[r]) : Calm(m)'
  <2>1. \A m \in Touches(req[r]) : Calm(m)
    BY <1>1, <1>12, CalmHere DEF Midway
  <2>2. \A m \in Touches(req[r]) : Calm(m)'
    BY <1>2, <1>3, <1>9, <2>1, CalmStays
  <2>3. pc'[r] # "done" => Registered(v)
    BY <1>2, <1>7, <2>1, CalmRegistered
  <2>4. pc'[r] # "done" => Knows(r)'
    BY <1>3, <1>7, <2>3 DEF Knows, Registered
  <2>5. QED
    BY <2>2, <2>4
<1>13. QED
  BY <1>3, <1>8, <1>9, <1>10, <1>11, <1>12, HandlerStep

(* remove_vault: the entry goes after the directory has gone.              *)
LEMMA UnregisterIInv ==
  ASSUME IInv, NEW r \in Requests, Unregister(r) PROVE IInv'
<1> DEFINE v == req[r].vault
           n == req[r].name
<1>1. Active(r) /\ pc[r] = "unregister" /\ req[r].op \in {"rename", "remove"}
  BY DEF Unregister, Active, IInv, StepsFit, Fits
<1>2. /\ n \in Names /\ v \in Names /\ v \in Touches(req[r]) /\ Touches(req[r]) = {v, n}
      /\ req[r].op # "rename" => v = n
  BY <1>1, ActiveCall DEF Touches
<1>3. /\ UNCHANGED <<dir, content, erased, req, index, opened, left, contended, restarts>>
      /\ reg' = [reg EXCEPT ![v] = None]
  BY DEF Unregister, fsVars, runVars, walkVars
<1>4. \/ req[r].op = "remove" /\ Respond(r, "200")
      \/ req[r].op = "rename" /\ Goto(r, "build")
  BY <1>1 DEF Unregister
<1>5. "build" \in Steps \ {"new", "done"} /\ "200" \in Statuses \ {"none"}
  BY DEF Steps, Statuses
<1>6. /\ pc' \in [Requests -> Steps] /\ resp' \in [Requests -> Statuses]
      /\ \E step \in Steps \ {"new"} : pc' = [pc EXCEPT ![r] = step]
      /\ resp' = resp \/ \E status \in Statuses : pc'[r] = "done" /\ resp' = [resp EXCEPT ![r] = status]
  BY <1>1, <1>4, <1>5, MoveType
<1>7. /\ pc'[r] \in {"done", "build"}
      /\ pc'[r] = "done" => req[r].op = "remove"
      /\ pc'[r] = "build" => req[r].op = "rename"
  BY <1>1, <1>4, <1>5, Moved
<1>8. /\ reg' \in [Names -> Ids \cup {None}] /\ reg'[v] = None
      /\ \A m \in Names \ {v} : reg'[m] = reg[m]
  BY <1>2, <1>3 DEF IInv, TypeOK
<1>9. TypeOK'
  BY <1>3, <1>6, <1>8 DEF IInv, TypeOK, NamesVetted
<1>10. Frame(r)
  BY <1>1, <1>2, <1>3, <1>6, <1>8 DEF Frame
<1>11. StepsFit'
  BY <1>1, <1>3, <1>7, <1>10, FrameFits DEF Fits
<1>12. Fresh' /\ OneName' /\ AckedNotesStayOnDisk'
  BY <1>1, <1>3, <1>7, <1>10, DiskUntouched
<1>13. ASSUME Touches(req[r]) \cap contended = {}
       PROVE  /\ pc'[r] # "done" => Knows(r)'
              /\ pc'[r] \notin Midway => \A m \in Touches(req[r]) : Calm(m)'
  <2>1. dir[v] = None /\ (req[r].op = "rename" => Unserved(n))
    BY <1>1, <1>13 DEF IInv, StepsKnown, Knows
  <2>2. CASE pc'[r] = "done"
    <3>1. Touches(req[r]) = {v}
      BY <1>2, <1>7, <2>2
    <3>2. \A m \in Touches(req[r]) : Calm(m)'
      BY <1>3, <1>8, <2>1, <3>1 DEF Calm
    <3>3. QED
      BY <2>2, <3>2
  <2>3. CASE pc'[r] = "build"
    <3>1. v # n /\ reg'[n] = None
      BY <1>2, <1>7, <1>8, <2>1, <2>3 DEF Unserved
    <3>2. Knows(r)'
      BY <1>3, <1>7, <1>8, <2>1, <2>3, <3>1 DEF Knows, Unserved, Gone
    <3>3. QED
      BY <2>3, <3>2 DEF Midway
  <2>4. QED
    BY <1>7, <2>2, <2>3
<1>14. req[r].op # "write"
  BY <1>1
<1>15. QED
  BY <1>9, <1>10, <1>11, <1>12, <1>13, <1>14, HandlerStep

(* build_live: the directory it indexes is the one the handler made or     *)
(* moved, unless the vault is contended.                                   *)
LEMMA BuildIInv ==
  ASSUME IInv, NEW r \in Requests, Build(r) PROVE IInv'
<1> DEFINE n == req[r].name
<1>1. Active(r) /\ pc[r] = "build" /\ req[r].op \in {"create", "rename"}
  BY DEF Build, Active, IInv, StepsFit, Fits
<1>2. n \in Names
  BY <1>1, ActiveCall
<1>3. UNCHANGED <<dir, content, erased, reg, req, opened, left, contended, restarts>>
  BY DEF Build, fsVars, runVars, walkVars
<1>4. \/ dir[n] = None /\ index' = index /\ Respond(r, "panic")
      \/ index' = [index EXCEPT ![r] = dir[n]] /\ Goto(r, "insert")
  BY DEF Build
<1>5. "insert" \in Steps \ {"new", "done"} /\ "panic" \in Statuses \ {"none"}
  BY DEF Steps, Statuses
<1>6. /\ pc' \in [Requests -> Steps] /\ resp' \in [Requests -> Statuses]
      /\ \E step \in Steps \ {"new"} : pc' = [pc EXCEPT ![r] = step]
      /\ resp' = resp \/ \E status \in Statuses : pc'[r] = "done" /\ resp' = [resp EXCEPT ![r] = status]
  BY <1>1, <1>4, <1>5, MoveType
<1>7. /\ pc'[r] \in {"done", "insert"} /\ resp'[r] \in {"panic", "none"}
      /\ pc'[r] = "done" => dir[n] = None
      /\ pc'[r] = "insert" => index' = [index EXCEPT ![r] = dir[n]]
  BY <1>1, <1>4, <1>5, Moved
<1>8. /\ index' \in [Requests -> Ids \cup {None}]
      /\ \A s \in Requests \ {r} : index'[s] = index[s]
      /\ pc'[r] = "insert" => index'[r] = dir[n]
  BY <1>2, <1>4, <1>7 DEF IInv, TypeOK
<1>9. TypeOK'
  BY <1>3, <1>6, <1>8 DEF IInv, TypeOK, NamesVetted
<1>10. Frame(r)
  BY <1>1, <1>3, <1>6, <1>8 DEF Frame
<1>11. StepsFit'
  BY <1>1, <1>3, <1>7, <1>10, FrameFits DEF Fits
<1>12. Fresh' /\ OneName' /\ AckedNotesStayOnDisk'
  BY <1>1, <1>3, <1>7, <1>10, DiskUntouched
<1>13. ASSUME Touches(req[r]) \cap contended = {}
       PROVE  pc'[r] = "insert" /\ Knows(r)'
  <2>1. Unserved(n) /\ (req[r].op = "rename" => Gone(req[r].vault))
    BY <1>1, <1>13 DEF IInv, StepsKnown, Knows
  <2>2. pc'[r] = "insert"
    BY <1>7, <2>1 DEF Unserved
  <2>3. Knows(r)'
    BY <1>3, <1>8, <2>1, <2>2 DEF Knows, Unserved, Gone
  <2>4. QED
    BY <2>2, <2>3
<1>14. req[r].op # "write" /\ "insert" \in Midway
  BY <1>1 DEF Midway
<1>15. QED
  BY <1>9, <1>10, <1>11, <1>12, <1>13, <1>14, HandlerStep

(* insert_vault: the index that enters the registry watches the directory  *)
(* of that name, unless the vault is contended.                            *)
LEMMA InsertIInv ==
  ASSUME IInv, NEW r \in Requests, Insert(r) PROVE IInv'
<1> DEFINE v == req[r].vault
           n == req[r].name
<1>1. Active(r) /\ pc[r] = "insert" /\ req[r].op \in {"create", "rename"}
  BY DEF Insert, Active, IInv, StepsFit, Fits
<1>2. /\ n \in Names /\ v \in Names /\ Touches(req[r]) = {v, n}
      /\ req[r].op # "rename" => v = n
  BY <1>1, ActiveCall DEF Touches
<1>3. /\ UNCHANGED <<dir, content, erased, req, index, opened, left, contended, restarts>>
      /\ reg' = [reg EXCEPT ![n] = index[r]] /\ Respond(r, "200")
  BY DEF Insert, fsVars, runVars, walkVars
<1>4. "200" \in Statuses \ {"none"}
  BY DEF Statuses
<1>5. /\ pc' \in [Requests -> Steps] /\ resp' \in [Requests -> Statuses]
      /\ \E step \in Steps \ {"new"} : pc' = [pc EXCEPT ![r] = step]
      /\ resp' = resp \/ \E status \in Statuses : pc'[r] = "done" /\ resp' = [resp EXCEPT ![r] = status]
  BY <1>1, <1>3, <1>4, MoveType
<1>6. pc'[r] = "done"
  BY <1>1, <1>3, <1>4, Moved
<1>7. /\ reg' \in [Names -> Ids \cup {None}] /\ reg'[n] = index[r]
      /\ \A m \in Names \ {n} : reg'[m] = reg[m]
  BY <1>2, <1>3 DEF IInv, TypeOK
<1>8. TypeOK'
  BY <1>3, <1>5, <1>7 DEF IInv, TypeOK, NamesVetted
<1>9. Frame(r)
  BY <1>1, <1>2, <1>3, <1>5, <1>7 DEF Frame
<1>10. StepsFit'
  BY <1>3, <1>6, <1>9, FrameFits DEF Fits
<1>11. Fresh' /\ OneName' /\ AckedNotesStayOnDisk'
  BY <1>1, <1>3, <1>6, <1>9, DiskUntouched
<1>12. ASSUME Touches(req[r]) \cap contended = {}
       PROVE  \A m \in Touches(req[r]) : Calm(m)'
  <2>1. index[r] = dir[n] /\ (v # n => Gone(v))
    BY <1>1, <1>2, <1>12 DEF IInv, StepsKnown, Knows
  <2>2. \A m \in Touches(req[r]) : reg'[m] = dir'[m]
    BY <1>2, <1>3, <1>7, <2>1 DEF Gone
  <2>3. QED
    BY <2>2 DEF Calm
<1>13. req[r].op # "write"
  BY <1>1
<1>14. QED
  BY <1>6, <1>8, <1>9, <1>10, <1>11, <1>12, <1>13, HandlerStep

(* create: a failure after the directory was made leaves it behind, with   *)
(* no note in it.                                                          *)
LEMMA CreateObsidianIInv ==
  ASSUME IInv, NEW r \in Requests, CreateObsidian(r) PROVE IInv'
<1> DEFINE n == req[r].name
<1>1. Active(r) /\ pc[r] = "create_obsidian" /\ req[r].op = "create"
  BY DEF CreateObsidian, Active, IInv, StepsFit, Fits
<1>2. n \in Names /\ Touches(req[r]) = {n} /\ dir[n] \in Ids \cup {None} /\ None \notin Ids
  BY <1>1, ActiveCall DEF Touches, IInv, TypeOK, Ids
<1>3. UNCHANGED <<dir, erased, reg, req, index, opened, left, contended, restarts>>
  BY DEF CreateObsidian, runVars, walkVars
<1>4. \/ dir[n] # None /\ content' = [content EXCEPT ![dir[n]] = @ \cup {Obsidian}] /\ Goto(r, "build")
      \/ content' = content /\ Respond(r, "500")
  BY DEF CreateObsidian, Attempt
<1>5. "build" \in Steps \ {"new", "done"} /\ "500" \in Statuses \ {"none"}
  BY DEF Steps, Statuses
<1>6. /\ pc' \in [Requests -> Steps] /\ resp' \in [Requests -> Statuses]
      /\ \E step \in Steps \ {"new"} : pc' = [pc EXCEPT ![r] = step]
      /\ resp' = resp \/ \E status \in Statuses : pc'[r] = "done" /\ resp' = [resp EXCEPT ![r] = status]
  BY <1>1, <1>4, <1>5, MoveType
<1>7. /\ pc'[r] \in {"done", "build"}
      /\ pc'[r] = "done" => content' = content /\ resp'[r] = "500"
  BY <1>1, <1>4, <1>5, Moved
<1>8. /\ content' \in [Ids -> SUBSET Entries]
      /\ \A i \in Ids : content'[i] = content[i] \/ dir[n] = i
      /\ \A i \in Ids : content[i] \subseteq content'[i]
  BY <1>2, <1>4 DEF IInv, TypeOK, Entries
<1>9. TypeOK'
  BY <1>3, <1>6, <1>8 DEF IInv, TypeOK, NamesVetted
<1>10. Frame(r)
  BY <1>1, <1>2, <1>3, <1>6, <1>8 DEF Frame
<1>11. StepsFit'
  BY <1>1, <1>3, <1>7, <1>10, FrameFits DEF Fits
<1>12. Fresh'
  BY <1>3, <1>7, <1>10, FrameFresh
<1>13. OneName'
  BY <1>3 DEF IInv, OneName
<1>14. AckedNotesStayOnDisk'
  <2>1. \A q \in Requests, m \in Names : Holds(m, q) => Holds(m, q)'
    BY <1>3, <1>8 DEF Holds, IInv, TypeOK
  <2>2. QED
    BY <1>1, <1>3, <1>10, <2>1, FrameAcked
<1>15. ASSUME Touches(req[r]) \cap contended = {}
       PROVE  /\ pc'[r] # "done" => Knows(r)'
              /\ pc'[r] \notin Midway => \A m \in Touches(req[r]) : Calm(m)'
  <2>1. Unserved(n) /\ dir[n] = r /\ content[r] \cap Requests = {}
    BY <1>1, <1>15 DEF IInv, StepsKnown, Knows
  <2>2. CASE pc'[r] = "build"
    <3>1. Knows(r)'
      BY <1>1, <1>3, <2>1, <2>2 DEF Knows, Unserved
    <3>2. QED
      BY <2>2, <3>1 DEF Midway
  <2>3. CASE pc'[r] = "done"
    <3>1. \A m \in Touches(req[r]) : Calm(m)'
      BY <1>1, <1>2, <1>3, <1>7, <2>1, <2>3 DEF Calm, LeftBehind, Unserved
    <3>2. QED
      BY <2>3, <3>1
  <2>4. QED
    BY <1>7, <2>2, <2>3
<1>16. req[r].op # "write"
  BY <1>1
<1>17. QED
  BY <1>9, <1>10, <1>11, <1>12, <1>13, <1>14, <1>15, <1>16, HandlerStep

(* rename: the directory and its notes move; what it replaces is empty.    *)
LEMMA FsRenameIInv ==
  ASSUME IInv, NEW r \in Requests, FsRename(r) PROVE IInv'
<1> DEFINE v == req[r].vault
           n == req[r].name
<1>1. Active(r) /\ pc[r] = "fs_rename" /\ req[r].op = "rename"
  BY DEF FsRename, Active, IInv, StepsFit, Fits
<1>2. n \in Names /\ v \in Names /\ Touches(req[r]) = {v, n}
  BY <1>1, ActiveCall DEF Touches
<1>3. UNCHANGED <<content, erased, reg, req, index, opened, left, contended, restarts>>
  BY DEF FsRename, runVars, walkVars
<1>4. \/ /\ dir[v] # None /\ (dir[n] \notin {None, dir[v]} => content[dir[n]] = {})
         /\ dir' = [dir EXCEPT ![v] = None, ![n] = dir[v]] /\ Goto(r, "unregister")
      \/ dir' = dir /\ Respond(r, "500")
  BY DEF FsRename, Attempt
<1>5. "unregister" \in Steps \ {"new", "done"} /\ "500" \in Statuses \ {"none"}
  BY DEF Steps, Statuses
<1>6. /\ pc' \in [Requests -> Steps] /\ resp' \in [Requests -> Statuses]
      /\ \E step \in Steps \ {"new"} : pc' = [pc EXCEPT ![r] = step]
      /\ resp' = resp \/ \E status \in Statuses : pc'[r] = "done" /\ resp' = [resp EXCEPT ![r] = status]
  BY <1>1, <1>4, <1>5, MoveType
<1>7. /\ pc'[r] \in {"done", "unregister"}
      /\ pc'[r] = "done" => dir' = dir
      /\ pc'[r] = "unregister" =>
           /\ dir[v] # None /\ (dir[n] \notin {None, dir[v]} => content[dir[n]] = {})
           /\ dir' = [dir EXCEPT ![v] = None, ![n] = dir[v]]
  BY <1>1, <1>4, <1>5, Moved
<1>8. /\ dir' \in [Names -> Ids \cup {None}]
      /\ \A m \in Names \ {v, n} : dir'[m] = dir[m]
      /\ pc'[r] = "unregister" => dir'[n] = dir[v] /\ (v # n => dir'[v] = None)
  BY <1>2, <1>4, <1>7 DEF IInv, TypeOK
<1>9. TypeOK'
  <2>1. n \in ValidNames
    BY <1>1 DEF IInv, NamesChecked
  <2>2. \A m \in Names \ {n} : dir'[m] \in {None, dir[m]}
    BY <1>2, <1>7, <1>8
  <2>3. NamesVetted'
    BY <1>3, <2>1, <2>2 DEF IInv, TypeOK, NamesVetted
  <2> QED
    BY <1>3, <1>6, <1>8, <2>3 DEF IInv, TypeOK
<1>10. Frame(r)
  BY <1>1, <1>2, <1>3, <1>6, <1>8 DEF Frame
<1>11. StepsFit'
  BY <1>1, <1>3, <1>7, <1>10, FrameFits DEF Fits
<1>12. Fresh'
  <2>1. \A m \in Names : dir'[m] = None \/ \E k \in Names : dir'[m] = dir[k]
    BY <1>2, <1>7, <1>8
  <2>2. QED
    BY <1>7, <1>10, <2>1, FrameFresh
<1>13. OneName'
  BY <1>2, <1>7, <1>8 DEF IInv, OneName
<1>14. AckedNotesStayOnDisk'
  <2>1. ASSUME NEW q \in Requests, NEW m \in Names, Holds(m, q)
        PROVE  \E k \in Names : Holds(k, q)'
    <3>1. CASE pc'[r] = "done"
      BY <1>3, <1>7, <2>1, <3>1 DEF Holds
    <3>2. CASE pc'[r] = "unregister" /\ m = v
      BY <1>2, <1>3, <1>8, <2>1, <3>2 DEF Holds
    <3>3. CASE pc'[r] = "unregister" /\ m # v
      <4>1. m # n
        BY <1>2, <1>7, <2>1, <3>3 DEF Holds, IInv, OneName
      <4>2. QED
        BY <1>3, <1>8, <2>1, <3>3, <4>1 DEF Holds
    <3>4. QED
      BY <1>7, <3>1, <3>2, <3>3
  <2>2. QED
    BY <1>1, <1>3, <1>10, <2>1, FrameAcked
<1>15. ASSUME Touches(req[r]) \cap contended = {}
       PROVE  /\ pc'[r] # "done" => Knows(r)'
              /\ pc'[r] \notin Midway => \A m \in Touches(req[r]) : Calm(m)'
  <2>1. Registered(v) /\ Gone(n)
    BY <1>1, <1>15 DEF IInv, StepsKnown, Knows
  <2>2. CASE pc'[r] = "unregister"
    <3>1. dir'[v] = None /\ dir'[n] # None /\ reg[n] = None
      BY <1>7, <1>8, <2>1, <2>2 DEF Registered, Gone
    <3>2. Knows(r)'
      BY <1>3, <2>2, <3>1 DEF Knows, Unserved
    <3>3. QED
      BY <2>2, <3>2 DEF Midway
  <2>3. CASE pc'[r] = "done"
    <3>1. \A m \in Touches(req[r]) : Calm(m)'
      BY <1>2, <1>3, <1>7, <2>1, <2>3 DEF Calm, Registered, Gone
    <3>2. QED
      BY <2>3, <3>1
  <2>4. QED
    BY <1>7, <2>2, <2>3
<1>16. req[r].op # "write"
  BY <1>1
<1>17. QED
  BY <1>9, <1>10, <1>11, <1>12, <1>13, <1>14, <1>15, <1>16, HandlerStep

(* remove: what it opens is the directory of the vault.                    *)
LEMMA OpenDirIInv ==
  ASSUME IInv, NEW r \in Requests, OpenDir(r) PROVE IInv'
<1> DEFINE v == req[r].vault
<1>1. Active(r) /\ pc[r] = "open_dir" /\ req[r].op = "remove"
  BY DEF OpenDir, Active, IInv, StepsFit, Fits
<1>2. /\ v \in Names /\ Touches(req[r]) = {v} /\ dir[v] \in Ids \cup {None}
      /\ dir[v] # None => content[dir[v]] \in SUBSET Entries
  BY <1>1, ActiveCall DEF Touches, IInv, TypeOK
<1>3. UNCHANGED <<dir, content, erased, reg, req, index, contended, restarts>>
  BY DEF OpenDir, fsVars
<1>4. \/ /\ dir[v] # None /\ Goto(r, "delete")
         /\ opened' = [opened EXCEPT ![r] = dir[v]] /\ left' = [left EXCEPT ![r] = content[dir[v]]]
      \/ opened' = opened /\ left' = left /\ Respond(r, "500")
  BY DEF OpenDir, Attempt, walkVars
<1>5. "delete" \in Steps \ {"new", "done"} /\ "500" \in Statuses \ {"none"}
  BY DEF Steps, Statuses
<1>6. /\ pc' \in [Requests -> Steps] /\ resp' \in [Requests -> Statuses]
      /\ \E step \in Steps \ {"new"} : pc' = [pc EXCEPT ![r] = step]
      /\ resp' = resp \/ \E status \in Statuses : pc'[r] = "done" /\ resp' = [resp EXCEPT ![r] = status]
  BY <1>1, <1>4, <1>5, MoveType
<1>7. pc'[r] \in {"done", "delete"} /\ resp'[r] \in {"500", "none"}
  BY <1>1, <1>4, <1>5, Moved
<1>8. opened' \in [Requests -> Ids \cup {None}] /\ left' \in [Requests -> SUBSET Entries]
  BY <1>2, <1>4 DEF IInv, TypeOK
<1>9. TypeOK'
  BY <1>3, <1>6, <1>8 DEF IInv, TypeOK, NamesVetted
<1>10. Frame(r)
  BY <1>1, <1>3, <1>6 DEF Frame
<1>11. StepsFit'
  BY <1>1, <1>3, <1>7, <1>10, FrameFits DEF Fits
<1>12. Fresh' /\ OneName' /\ AckedNotesStayOnDisk'
  BY <1>3, <1>7, <1>10, DiskUntouched
<1>13. ASSUME Touches(req[r]) \cap contended = {}
       PROVE  /\ pc'[r] # "done" => Knows(r)'
              /\ \A m \in Touches(req[r]) : Calm(m)'
  <2>1. Registered(v)
    BY <1>1, <1>13 DEF IInv, StepsKnown, Knows
  <2>2. pc'[r] # "done" => Knows(r)'
    BY <1>1, <1>3, <1>7, <2>1 DEF Knows, Registered
  <2>3. \A m \in Touches(req[r]) : Calm(m)'
    BY <1>2, <1>3, <2>1 DEF Calm, Registered
  <2>4. QED
    BY <2>2, <2>3
<1>14. req[r].op # "write"
  BY <1>1
<1>15. QED
  BY <1>9, <1>10, <1>11, <1>12, <1>13, <1>14, HandlerStep

(* remove: the notes it deletes are erased, and no others.                 *)
LEMMA DeleteEntryIInv ==
  ASSUME IInv, NEW r \in Requests, DeleteEntry(r) PROVE IInv'
<1> DEFINE v == req[r].vault
           d == opened[r]
<1>1. Active(r) /\ pc[r] = "delete" /\ req[r].op = "remove"
  BY DEF DeleteEntry, Active, IInv, StepsFit, Fits
<1>2. v \in Names /\ Touches(req[r]) = {v} /\ d \in Ids \cup {None}
  BY <1>1, ActiveCall DEF Touches, IInv, TypeOK
<1>3. UNCHANGED <<dir, reg, req, index, contended, restarts>>
  BY DEF DeleteEntry
<1>4. PICK entry \in left[r] :
        \/ /\ content' = [content EXCEPT ![d] = @ \ {entry}]
           /\ erased' = erased \cup ((content[d] \cap {entry}) \ {Obsidian})
           /\ left' = [left EXCEPT ![r] = @ \ {entry}]
           /\ opened' = opened /\ Goto(r, "delete")
        \/ /\ content' = content /\ erased' = erased
           /\ left' = [left EXCEPT ![r] = {}]
           /\ opened' = [opened EXCEPT ![r] = None] /\ Respond(r, "500")
  BY DEF DeleteEntry, Close
<1>5. "delete" \in Steps \ {"new", "done"} /\ "500" \in Statuses \ {"none"}
  BY DEF Steps, Statuses
<1>6. /\ pc' \in [Requests -> Steps] /\ resp' \in [Requests -> Statuses]
      /\ \E step \in Steps \ {"new"} : pc' = [pc EXCEPT ![r] = step]
      /\ resp' = resp \/ \E status \in Statuses : pc'[r] = "done" /\ resp' = [resp EXCEPT ![r] = status]
  BY <1>1, <1>4, <1>5, MoveType
<1>7. pc'[r] \in {"done", "delete"} /\ resp'[r] \in {"500", "none"}
  BY <1>1, <1>4, <1>5, Moved
<1>8. opened' \in [Requests -> Ids \cup {None}] /\ left' \in [Requests -> SUBSET Entries]
  BY <1>4 DEF IInv, TypeOK
<1>9. /\ content' \in [Ids -> SUBSET Entries]
      /\ erased \subseteq erased' /\ erased' \subseteq Requests
      /\ \A i \in Ids : content'[i] \subseteq content[i] /\ (content[i] \ content'[i]) \ {Obsidian} \subseteq erased'
  <2>1. entry \in Requests \cup {Obsidian} /\ content \in [Ids -> SUBSET Entries] /\ erased \subseteq Requests
    BY DEF IInv, TypeOK, Entries
  <2>2. QED
    BY <1>4, <2>1
<1>10. TypeOK'
  BY <1>3, <1>6, <1>8, <1>9 DEF IInv, TypeOK, NamesVetted
<1>11. Frame(r)
  BY <1>1, <1>3, <1>6, <1>9 DEF Frame
<1>12. StepsFit'
  BY <1>1, <1>3, <1>7, <1>11, FrameFits DEF Fits
<1>13. Fresh'
  BY <1>3, <1>7, <1>11, FrameFresh
<1>14. OneName'
  BY <1>3 DEF IInv, OneName
<1>15. AckedNotesStayOnDisk'
  <2>1. \A q \in Requests, m \in Names : Holds(m, q) => q \in erased' \/ Holds(m, q)'
    BY <1>3, <1>9 DEF Holds, IInv, TypeOK
  <2>2. QED
    BY <1>1, <1>9, <1>11, <2>1, FrameAcked
<1>16. ASSUME Touches(req[r]) \cap contended = {}
       PROVE  /\ pc'[r] # "done" => Knows(r)'
              /\ \A m \in Touches(req[r]) : Calm(m)'
  <2>1. Registered(v)
    BY <1>1, <1>16 DEF IInv, StepsKnown, Knows
  <2>2. pc'[r] # "done" => Knows(r)'
    BY <1>1, <1>3, <1>7, <2>1 DEF Knows, Registered
  <2>3. \A m \in Touches(req[r]) : Calm(m)'
    BY <1>2, <1>3, <2>1 DEF Calm, Registered
  <2>4. QED
    BY <2>2, <2>3
<1>17. req[r].op # "write"
  BY <1>1
<1>18. QED
  BY <1>10, <1>11, <1>12, <1>13, <1>14, <1>15, <1>16, <1>17, HandlerStep

(* remove: the directory goes only if it is empty by then.                 *)
LEMMA RemoveDirIInv ==
  ASSUME IInv, NEW r \in Requests, RemoveDir(r) PROVE IInv'
<1> DEFINE v == req[r].vault
<1>1. Active(r) /\ pc[r] = "delete" /\ req[r].op = "remove"
  BY DEF RemoveDir, Active, IInv, StepsFit, Fits
<1>2. v \in Names /\ Touches(req[r]) = {v}
  BY <1>1, ActiveCall DEF Touches
<1>3. /\ UNCHANGED <<content, erased, reg, req, index, contended, restarts>>
      /\ opened' = [opened EXCEPT ![r] = None] /\ left' = [left EXCEPT ![r] = {}]
  BY DEF RemoveDir, Close
<1>4. \/ /\ dir[v] # None => content[dir[v]] = {}
         /\ dir' = [dir EXCEPT ![v] = None] /\ Goto(r, "unregister")
      \/ dir' = dir /\ Respond(r, "500")
  BY DEF RemoveDir, Attempt
<1>5. "unregister" \in Steps \ {"new", "done"} /\ "500" \in Statuses \ {"none"}
  BY DEF Steps, Statuses
<1>6. /\ pc' \in [Requests -> Steps] /\ resp' \in [Requests -> Statuses]
      /\ \E step \in Steps \ {"new"} : pc' = [pc EXCEPT ![r] = step]
      /\ resp' = resp \/ \E status \in Statuses : pc'[r] = "done" /\ resp' = [resp EXCEPT ![r] = status]
  BY <1>1, <1>4, <1>5, MoveType
<1>7. /\ pc'[r] \in {"done", "unregister"}
      /\ pc'[r] = "done" => dir' = dir
      /\ pc'[r] = "unregister" =>
           (dir[v] # None => content[dir[v]] = {}) /\ dir' = [dir EXCEPT ![v] = None]
  BY <1>1, <1>4, <1>5, Moved
<1>8. /\ dir' \in [Names -> Ids \cup {None}]
      /\ \A m \in Names \ {v} : dir'[m] = dir[m]
      /\ dir'[v] = dir[v] \/ (dir'[v] = None /\ (dir[v] # None => content[dir[v]] = {}))
      /\ pc'[r] = "unregister" => dir'[v] = None
  BY <1>2, <1>4, <1>7 DEF IInv, TypeOK
<1>9. opened' \in [Requests -> Ids \cup {None}] /\ left' \in [Requests -> SUBSET Entries]
  BY <1>3 DEF IInv, TypeOK
<1>10. TypeOK'
  <2>1. \A m \in Names : dir'[m] \in {None, dir[m]}
    BY <1>8
  <2>2. NamesVetted'
    BY <1>3, <2>1 DEF IInv, TypeOK, NamesVetted
  <2> QED
    BY <1>3, <1>6, <1>8, <1>9, <2>2 DEF IInv, TypeOK
<1>11. Frame(r)
  BY <1>1, <1>2, <1>3, <1>6, <1>8 DEF Frame
<1>12. StepsFit'
  BY <1>1, <1>3, <1>7, <1>11, FrameFits DEF Fits
<1>13. Fresh'
  <2>1. \A m \in Names : dir'[m] = None \/ dir'[m] = dir[m]
    BY <1>8
  <2>2. QED
    BY <1>7, <1>11, <2>1, FrameFresh
<1>14. OneName'
  BY <1>2, <1>8 DEF IInv, OneName
<1>15. AckedNotesStayOnDisk'
  <2>1. \A q \in Requests, m \in Names : Holds(m, q) => Holds(m, q)'
    BY <1>3, <1>8 DEF Holds
  <2>2. QED
    BY <1>1, <1>3, <1>11, <2>1, FrameAcked
<1>16. ASSUME Touches(req[r]) \cap contended = {}
       PROVE  /\ pc'[r] # "done" => Knows(r)'
              /\ pc'[r] \notin Midway => \A m \in Touches(req[r]) : Calm(m)'
  <2>1. Registered(v)
    BY <1>1, <1>16 DEF IInv, StepsKnown, Knows
  <2>2. pc'[r] = "unregister" => Knows(r)'
    BY <1>1, <1>3, <1>8 DEF Knows
  <2>3. pc'[r] = "done" => \A m \in Touches(req[r]) : Calm(m)'
    BY <1>2, <1>3, <1>7, <2>1 DEF Calm, Registered
  <2>4. QED
    BY <1>7, <2>2, <2>3 DEF Midway
<1>17. req[r].op # "write"
  BY <1>1
<1>18. QED
  BY <1>10, <1>11, <1>12, <1>13, <1>14, <1>15, <1>16, <1>17, HandlerStep

(* write_file: a missing directory is made only on a contended vault.      *)
LEMMA CreateDirAllIInv ==
  ASSUME IInv, NEW r \in Requests, CreateDirAll(r) PROVE IInv'
<1> DEFINE v == req[r].vault
<1>1. Active(r) /\ pc[r] = "create_dir_all" /\ req[r].op = "write"
  BY DEF CreateDirAll, Active, IInv, StepsFit, Fits
<1>2. v \in Names /\ Touches(req[r]) = {v} /\ r \in Ids /\ r # None
  BY <1>1, ActiveCall DEF Touches, Ids
<1>3. UNCHANGED <<content, erased, reg, req, index, opened, left, contended, restarts>>
  BY DEF CreateDirAll, runVars, walkVars
<1>4. \/ dir' = [dir EXCEPT ![v] = IF @ = None THEN r ELSE @] /\ Goto(r, "open")
      \/ dir' = dir /\ Respond(r, "500")
  BY DEF CreateDirAll
<1>5. "open" \in Steps \ {"new", "done"} /\ "500" \in Statuses \ {"none"}
  BY DEF Steps, Statuses
<1>6. /\ pc' \in [Requests -> Steps] /\ resp' \in [Requests -> Statuses]
      /\ \E step \in Steps \ {"new"} : pc' = [pc EXCEPT ![r] = step]
      /\ resp' = resp \/ \E status \in Statuses : pc'[r] = "done" /\ resp' = [resp EXCEPT ![r] = status]
  BY <1>1, <1>4, <1>5, MoveType
<1>7. pc'[r] \in {"done", "open"} /\ resp'[r] \in {"none", "500"}
  BY <1>1, <1>4, <1>5, Moved
<1>8. /\ dir' \in [Names -> Ids \cup {None}]
      /\ \A m \in Names \ {v} : dir'[m] = dir[m]
      /\ dir'[v] = dir[v] \/ (dir[v] = None /\ dir'[v] = r)
      /\ dir[v] # None => dir' = dir
  BY <1>2, <1>4 DEF IInv, TypeOK
<1>9. TypeOK'
  <2>1. \A m \in Names : dir'[m] = dir[m] \/ dir'[m] = r
    BY <1>8
  <2>2. NamesVetted'
    BY <1>1, <1>3, <2>1 DEF IInv, TypeOK, NamesVetted
  <2> QED
    BY <1>3, <1>6, <1>8, <2>2 DEF IInv, TypeOK
<1>10. Frame(r)
  BY <1>1, <1>2, <1>3, <1>6, <1>8 DEF Frame
<1>11. StepsFit'
  BY <1>1, <1>3, <1>7, <1>10, FrameFits DEF Fits
<1>12. Fresh'
  <2>1. \A m \in Names : dir'[m] = r \/ dir'[m] = dir[m]
    BY <1>8
  <2>2. QED
    BY <1>7, <1>10, <2>1, FrameFresh
<1>13. OneName'
  <2>1. \A m \in Names : dir[m] # r
    BY <1>1 DEF IInv, Fresh
  <2>2. QED
    BY <1>2, <1>8, <2>1 DEF IInv, OneName
<1>14. AckedNotesStayOnDisk'
  <2>1. \A q \in Requests, m \in Names : Holds(m, q) => Holds(m, q)'
    BY <1>3, <1>8 DEF Holds
  <2>2. QED
    BY <1>3, <1>7, <1>10, <2>1, FrameAcked
<1>15. ASSUME Touches(req[r]) \cap contended = {}
       PROVE  /\ pc'[r] # "done" => Knows(r)'
              /\ \A m \in Touches(req[r]) : Calm(m)'
              /\ dir' = dir /\ reg' = reg
  <2>1. Registered(v)
    BY <1>1, <1>15 DEF IInv, StepsKnown, Knows
  <2>2. dir' = dir /\ reg' = reg
    BY <1>3, <1>8, <2>1 DEF Registered
  <2>3. pc'[r] # "done" => Knows(r)'
    BY <1>1, <1>3, <1>7, <2>1, <2>2 DEF Knows, Registered
  <2>4. \A m \in Touches(req[r]) : Calm(m)'
    BY <1>2, <2>1, <2>2 DEF Calm, Registered
  <2>5. QED
    BY <2>2, <2>3, <2>4
<1>16. QED
  BY <1>9, <1>10, <1>11, <1>12, <1>13, <1>14, <1>15, HandlerStep

(* write_file: the note is on disk before the 200.                         *)
LEMMA OpenIInv ==
  ASSUME IInv, NEW r \in Requests, Open(r) PROVE IInv'
<1> DEFINE v == req[r].vault
<1>1. Active(r) /\ pc[r] = "open" /\ req[r].op = "write"
  BY DEF Open, Active, IInv, StepsFit, Fits
<1>2. v \in Names /\ Touches(req[r]) = {v} /\ dir[v] \in Ids \cup {None} /\ None \notin Ids
  BY <1>1, ActiveCall DEF Touches, IInv, TypeOK, Ids
<1>3. UNCHANGED <<dir, erased, reg, req, index, opened, left, contended, restarts>>
  BY DEF Open, runVars, walkVars
<1>4. /\ \E status \in {"200", "404", "500"} : Respond(r, status)
      /\ content' = content \/ (dir[v] # None /\ content' = [content EXCEPT ![dir[v]] = @ \cup {r}])
      /\ \/ Respond(r, "404") \/ Respond(r, "500")
         \/ dir[v] # None /\ content' = [content EXCEPT ![dir[v]] = @ \cup {r}]
  BY DEF Open, Attempt
<1>5. {"200", "404", "500"} \subseteq Statuses \ {"none"}
  BY DEF Statuses
<1>6. /\ pc' \in [Requests -> Steps] /\ resp' \in [Requests -> Statuses]
      /\ \E step \in Steps \ {"new"} : pc' = [pc EXCEPT ![r] = step]
      /\ resp' = resp \/ \E status \in Statuses : pc'[r] = "done" /\ resp' = [resp EXCEPT ![r] = status]
  BY <1>1, <1>4, <1>5, MoveType
<1>7. /\ pc'[r] = "done"
      /\ resp'[r] = "200" => dir[v] # None /\ content' = [content EXCEPT ![dir[v]] = @ \cup {r}]
  BY <1>1, <1>4, <1>5, Moved
<1>8. /\ content' \in [Ids -> SUBSET Entries]
      /\ \A i \in Ids : content'[i] = content[i] \/ dir[v] = i
      /\ \A i \in Ids : content[i] \subseteq content'[i]
      /\ resp'[r] = "200" => dir[v] # None /\ r \in content'[dir[v]]
  BY <1>2, <1>4, <1>7 DEF IInv, TypeOK, Entries
<1>9. TypeOK'
  BY <1>3, <1>6, <1>8 DEF IInv, TypeOK, NamesVetted
<1>10. Frame(r)
  BY <1>1, <1>2, <1>3, <1>6, <1>8 DEF Frame
<1>11. StepsFit'
  BY <1>1, <1>3, <1>7, <1>10, FrameFits DEF Fits
<1>12. Fresh'
  BY <1>3, <1>7, <1>10, FrameFresh
<1>13. OneName'
  BY <1>3 DEF IInv, OneName
<1>14. AckedNotesStayOnDisk'
  <2>1. \A q \in Requests, m \in Names : Holds(m, q) => Holds(m, q)'
    BY <1>3, <1>8 DEF Holds, IInv, TypeOK
  <2>2. resp'[r] = "200" => \E m \in Names : Holds(m, r)'
    BY <1>2, <1>3, <1>8 DEF Holds
  <2>3. QED
    BY <1>3, <1>10, <2>1, <2>2, FrameAcked
<1>15. ASSUME Touches(req[r]) \cap contended = {}
       PROVE  \A m \in Touches(req[r]) : Calm(m)'
  <2>1. Registered(v)
    BY <1>1, <1>15 DEF IInv, StepsKnown, Knows
  <2>2. QED
    BY <1>2, <1>3, <2>1 DEF Calm, Registered
<1>16. QED
  BY <1>3, <1>7, <1>9, <1>10, <1>11, <1>12, <1>13, <1>14, <1>15, HandlerStep

-----------------------------------------------------------------------------
(* A call that starts makes contended all the names of the operations it   *)
(* meets, and its own if it meets any or a contended name.                 *)
LEMMA ContendedGrows ==
  ASSUME IInv, NEW call \in Calls
  PROVE  /\ contended \subseteq Contended(call) /\ Contended(call) \subseteq Names
         /\ \A s \in Requests : Active(s) /\ Clash(call, req[s]) =>
              Touches(call) \subseteq Contended(call) /\ Touches(req[s]) \subseteq Contended(call)
         /\ Touches(call) \subseteq Contended(call) \/ Touches(call) \cap Contended(call) = {}
         /\ \A x \in Contended(call) :
              \/ x \in contended \/ x \in Touches(call)
              \/ \E s \in Requests : Active(s) /\ Clash(call, req[s]) /\ x \in Touches(req[s])
<1> DEFINE met == {s \in Requests : Active(s) /\ Clash(call, req[s])}
           grown == Touches(call) \cup UNION {Touches(req[s]) : s \in met}
<1>1. \/ (met # {} \/ Touches(call) \cap contended # {}) /\ Contended(call) = contended \cup grown
      \/ met = {} /\ Touches(call) \cap contended = {} /\ Contended(call) = contended
  BY DEF Contended
<1>2. contended \subseteq Names /\ grown \subseteq Names
  BY CallsType, ActiveCall DEF IInv, TypeOK
<1>3. \A s \in met : Touches(req[s]) \subseteq grown
  OBVIOUS
<1>4. QED
  BY <1>1, <1>2, <1>3

(* A write is a matter of one vault.                                       *)
LEMMA WritesTouchOne ==
  ASSUME NEW c \in Calls, c.op = "write", NEW x \in Touches(c) PROVE Touches(c) = {x}
BY CallsType DEF Touches

(* A request arrives: it knows nothing yet, and the vaults it shares with  *)
(* others become contended.                                                *)
LEMMA StartIInv ==
  ASSUME IInv, NEW r \in Requests, NEW call \in Calls, Start(r, call) PROVE IInv'
<1>1. /\ pc[r] = "new" /\ ~Active(r) /\ resp[r] = "none"
      /\ req' = [req EXCEPT ![r] = call] /\ contended' = Contended(call)
      /\ UNCHANGED <<dir, content, erased, reg, index, opened, left, restarts>>
  BY DEF Start, fsVars, walkVars, Active, IInv, StepsFit
<1>2. /\ pc \in [Requests -> Steps] /\ resp \in [Requests -> Statuses] /\ contended \subseteq Names
      /\ req \in [Requests -> Calls \cup {None}]
  BY DEF IInv, TypeOK
<1>3. call.op \in Ops
  BY CallsType
<1>4. /\ Entry(call.op) \in {"create_dir", "lookup", "contains"}
      /\ Entry(call.op) = "create_dir" => call.op = "create"
      /\ Entry(call.op) = "lookup" => call.op = "write"
      /\ Entry(call.op) = "contains" => call.op \in {"rename", "remove"}
  BY <1>3, EntryType
<1>5. Respond(r, "400") \/ Goto(r, Entry(call.op))
  BY DEF Start
<1>6. {"create_dir", "lookup", "contains", "done"} \subseteq Steps /\ "400" \in Statuses
  BY DEF Steps, Statuses
<1>7. \/ pc' = [pc EXCEPT ![r] = "done"] /\ resp' = [resp EXCEPT ![r] = "400"]
      \/ pc' = [pc EXCEPT ![r] = Entry(call.op)] /\ resp' = resp
  BY <1>5 DEF Respond, Goto
<1>8. /\ pc' \in [Requests -> Steps] /\ resp' \in [Requests -> Statuses]
      /\ \A s \in Requests \ {r} : pc'[s] = pc[s] /\ resp'[s] = resp[s] /\ req'[s] = req[s]
      /\ req'[r] = call /\ req' \in [Requests -> Calls \cup {None}]
  BY <1>1, <1>2, <1>4, <1>6, <1>7
<1>9. \/ pc'[r] = "done" /\ resp'[r] = "400"
      \/ pc'[r] = Entry(call.op) /\ resp'[r] = "none"
  BY <1>1, <1>2, <1>7
<1>10. contended \subseteq contended' /\ contended' \subseteq Names
  BY <1>1, ContendedGrows
<1>11. TypeOK'
  <2>1. \A m \in Names : dir[m] # r
    BY <1>1 DEF IInv, Fresh
  <2>2. NamesVetted'
    BY <1>1, <1>8, <2>1 DEF IInv, TypeOK, NamesVetted
  <2> QED
    BY <1>1, <1>8, <1>10, <2>2 DEF IInv, TypeOK
<1>12. StepsFit'
  <2>1. ASSUME NEW s \in Requests \ {r}
        PROVE  /\ pc'[s] = "new" => req'[s] = None /\ resp'[s] = "none"
               /\ pc'[s] # "new" => req'[s] \in Calls
               /\ pc'[s] # "done" => resp'[s] = "none"
               /\ Fits(s)'
    BY <1>8 DEF IInv, StepsFit, Fits
  <2>2. /\ pc'[r] # "new" /\ req'[r] \in Calls
        /\ pc'[r] # "done" => resp'[r] = "none"
    BY <1>4, <1>8, <1>9
  <2>3. Fits(r)'
    BY <1>4, <1>8, <1>9 DEF Fits
  <2>4. QED
    BY <2>1, <2>2, <2>3 DEF StepsFit
<1>13. Fresh' /\ OneName' /\ NamesChecked'
  <2>1. Fresh'
    BY <1>1, <1>8 DEF IInv, Fresh
  <2>2. OneName'
    BY <1>1 DEF IInv, OneName
  <2>3. pc'[r] # "done" => call.op \notin {"create", "rename"} \/ call.name \in ValidNames
    BY <1>1, <1>2, <1>6 DEF Start, Respond
  <2>4. NamesChecked'
    BY <1>8, <2>3 DEF IInv, NamesChecked, Active
  <2> QED
    BY <2>1, <2>2, <2>4
<1>14. AckedNotesStayOnDisk'
  <2> SUFFICES ASSUME NEW q \in Requests, Acked(q)'
               PROVE  q \in erased' \/ \E m \in Names : Holds(m, q)'
    BY DEF AckedNotesStayOnDisk
  <2>1. q # r
    BY <1>9 DEF Acked
  <2>2. Acked(q)
    BY <1>8, <2>1 DEF Acked
  <2>3. QED
    BY <1>1, <2>2 DEF IInv, AckedNotesStayOnDisk, Holds
<1>15. ContentionKnown'
  <2> SUFFICES ASSUME NEW a \in Requests, Active(a)'
               PROVE  /\ \A b \in Requests \ {a} :
                           Active(b)' /\ Clash(req'[a], req'[b]) => Touches(req'[a]) \subseteq contended'
                      /\ \/ Touches(req'[a]) \subseteq contended'
                         \/ Touches(req'[a]) \cap contended' = {}
    BY DEF ContentionKnown, Clash, Touches
  <2>0. \A s \in Requests \ {r} : Active(s)' = Active(s)
    BY <1>8 DEF Active
  <2>1. CASE a = r
    <3>1. ASSUME NEW b \in Requests \ {a}, Active(b)', Clash(req'[a], req'[b])
          PROVE  Touches(call) \subseteq contended'
      BY <1>1, <1>8, <2>0, <2>1, <3>1, ContendedGrows
    <3>2. Touches(call) \subseteq contended' \/ Touches(call) \cap contended' = {}
      BY <1>1, ContendedGrows
    <3>3. QED
      BY <1>8, <2>1, <3>1, <3>2
  <2>2. CASE a # r
    <3>1. Active(a) /\ req'[a] = req[a] /\ req[a] \in Calls
      BY <1>8, <2>0, <2>2, ActiveCall
    <3>2. Clash(call, req[a]) => Touches(req[a]) \subseteq contended'
      BY <1>1, <3>1, ContendedGrows
    <3>3. ASSUME NEW b \in Requests \ {a}, Active(b)', Clash(req'[a], req'[b])
          PROVE  Touches(req[a]) \subseteq contended'
      <4>1. CASE b = r
        <5>1. Clash(req[a], call)
          BY <1>8, <3>1, <3>3, <4>1
        <5>2. Clash(call, req[a])
          BY <5>1 DEF Clash
        <5>3. QED
          BY <3>2, <5>2
      <4>2. CASE b # r
        <5>1. Active(b) /\ Clash(req[a], req[b])
          BY <1>8, <2>0, <3>1, <3>3, <4>2
        <5>2. QED
          BY <1>10, <3>1, <5>1 DEF IInv, ContentionKnown
      <4>3. QED
        BY <4>1, <4>2
    <3>4. ASSUME NEW x \in Touches(req[a]), x \in contended'
          PROVE  Touches(req[a]) \subseteq contended'
      <4>1. CASE x \in contended
        BY <1>10, <3>1, <3>4, <4>1 DEF IInv, ContentionKnown
      <4>2. CASE x \in Touches(call)
        <5>1. CASE Clash(call, req[a])
          BY <3>2, <5>1
        <5>2. CASE ~Clash(call, req[a])
          <6>1. req[a].op = "write"
            BY <3>4, <4>2, <5>2 DEF Clash
          <6>2. QED
            BY <3>1, <3>4, <6>1, WritesTouchOne
        <5>3. QED
          BY <5>1, <5>2
      <4>3. ASSUME NEW s \in Requests, Active(s), Clash(call, req[s]), x \in Touches(req[s])
            PROVE  Touches(req[a]) \subseteq contended'
        <5>1. CASE s = a
          BY <3>2, <4>3, <5>1
        <5>2. CASE s # a /\ Clash(req[a], req[s])
          BY <1>10, <3>1, <4>3, <5>2 DEF IInv, ContentionKnown
        <5>3. CASE ~Clash(req[a], req[s])
          <6>1. req[a].op = "write"
            BY <3>4, <4>3, <5>3 DEF Clash
          <6>2. QED
            BY <3>1, <3>4, <6>1, WritesTouchOne
        <5>4. QED
          BY <5>1, <5>2, <5>3
      <4>4. QED
        BY <1>1, <3>4, <4>1, <4>2, <4>3, ContendedGrows
    <3>5. QED
      BY <3>1, <3>3, <3>4
  <2>3. QED
    BY <2>1, <2>2
<1>16. CalmUnlessMidway'
  <2> SUFFICES ASSUME NEW n \in Names \ contended'
               PROVE  Calm(n)' \/ \E s \in Requests : pc'[s] \in Midway /\ n \in Touches(req'[s])
    BY DEF CalmUnlessMidway, Touches
  <2>1. CASE Calm(n)
    <3>1. CASE reg[n] = dir[n]
      BY <1>1, <3>1 DEF Calm
    <3>2. CASE LeftBehind(n) /\ content[dir[n]] \cap Requests = {}
      <4>1. dir[n] \in Requests \ {r}
        BY <1>1, <3>2 DEF LeftBehind
      <4>2. QED
        BY <1>1, <1>8, <3>2, <4>1 DEF Calm, LeftBehind
    <3>3. QED
      BY <2>1, <3>1, <3>2 DEF Calm
  <2>2. ASSUME NEW s \in Requests, pc[s] \in Midway, n \in Touches(req[s])
        PROVE  pc'[s] \in Midway /\ n \in Touches(req'[s])
    BY <1>1, <1>8, <2>2 DEF Midway
  <2>3. QED
    BY <1>10, <2>1, <2>2 DEF IInv, CalmUnlessMidway
<1>17. StepsKnown'
  <2> SUFFICES ASSUME NEW s \in Requests, Active(s)', Touches(req'[s]) \cap contended' = {}
               PROVE  Knows(s)'
    BY DEF StepsKnown, Touches
  <2>1. CASE s = r
    BY <1>4, <1>9, <2>1 DEF Knows, Active
  <2>2. CASE s # r
    <3>1. Active(s) /\ Touches(req[s]) \cap contended = {}
      BY <1>8, <1>10, <2>2 DEF Active
    <3>2. Knows(s)
      BY <3>1 DEF IInv, StepsKnown
    <3>3. pc'[s] = pc[s] /\ req'[s] = req[s]
      BY <1>8, <2>2
    <3>4. QED
      BY <1>1, <3>2, <3>3 DEF Knows, Registered, Gone, Unserved
  <2>3. QED
    BY <2>1, <2>2
<1>18. QED
  BY <1>11, <1>12, <1>13, <1>14, <1>15, <1>16, <1>17 DEF IInv

(* A restart finds every directory of the vault root and has no handler.   *)
LEMMA RestartIInv == ASSUME IInv, Restart PROVE IInv'
<1>1. /\ UNCHANGED <<dir, content, erased, req, index>> /\ reg' = dir
      /\ opened' = [r \in Requests |-> None] /\ left' = [r \in Requests |-> {}]
      /\ contended' = {} /\ restarts' \in 0..MaxRestarts
  BY DEF Restart, Discovered, fsVars, IInv, TypeOK
<1>2. "done" \in Steps /\ "lost" \in Statuses
  BY DEF Steps, Statuses
<1>3. /\ pc' = [r \in Requests |-> IF Active(r) THEN "done" ELSE pc[r]]
      /\ resp' = [r \in Requests |-> IF Active(r) THEN "lost" ELSE resp[r]]
  BY DEF Restart
<1>4. \A r \in Requests :
        /\ pc'[r] \in Steps /\ resp'[r] \in Statuses /\ pc'[r] \in {"new", "done"}
        /\ pc'[r] = "new" => pc[r] = "new" /\ resp'[r] = resp[r]
        /\ pc'[r] # "new" => pc[r] # "new"
        /\ resp'[r] # resp[r] => resp'[r] = "lost"
  BY <1>2, <1>3 DEF IInv, TypeOK, Active
<1>5. TypeOK'
  BY <1>1, <1>3, <1>4 DEF IInv, TypeOK, NamesVetted
<1>6. StepsFit'
  BY <1>1, <1>4 DEF IInv, StepsFit, Fits
<1>7. Fresh' /\ OneName'
  <2>1. Fresh'
    BY <1>1, <1>4 DEF IInv, Fresh
  <2>2. QED
    BY <1>1, <2>1 DEF IInv, OneName
<1>8. ContentionKnown' /\ StepsKnown' /\ NamesChecked'
  BY <1>4 DEF ContentionKnown, StepsKnown, NamesChecked, Active
<1>9. CalmUnlessMidway'
  BY <1>1 DEF CalmUnlessMidway, Calm
<1>10. AckedNotesStayOnDisk'
  <2>1. \A q \in Requests : Acked(q)' => Acked(q)
    BY <1>1, <1>4 DEF Acked
  <2>2. QED
    BY <1>1, <2>1 DEF IInv, AckedNotesStayOnDisk, Holds
<1>11. QED
  BY <1>5, <1>6, <1>7, <1>8, <1>9, <1>10 DEF IInv

-----------------------------------------------------------------------------
(* The registry and the handlers keep the invariant, whatever the number   *)
(* of names and requests and however they overlap, fail or are cut short.  *)
THEOREM IInvCorrect == Spec => []IInv
<1>1. IInv /\ [Next]_vars => IInv'
  <2> SUFFICES ASSUME IInv, [Next]_vars PROVE IInv'
    OBVIOUS
  <2>1. ASSUME NEW r \in Requests, Handler(r) PROVE IInv'
    BY <2>1, CreateDirIInv, CreateObsidianIInv, ContainsIInv, ExistsIInv, FsRenameIInv,
       OpenDirIInv, DeleteEntryIInv, RemoveDirIInv, UnregisterIInv, BuildIInv, InsertIInv, LookupIInv,
       CreateDirAllIInv, OpenIInv DEF Handler
  <2>2. CASE UNCHANGED vars
    BY <2>2 DEF vars, IInv, TypeOK, NamesVetted, NamesChecked, StepsFit, Fits, Fresh, OneName, ContentionKnown, Active, Touches,
       Clash, CalmUnlessMidway, Calm, LeftBehind, Midway, StepsKnown, Knows, Registered, Gone,
       Unserved, AckedNotesStayOnDisk, Acked, Holds
  <2>3. QED
    BY <2>1, <2>2, StartIInv, RestartIInv DEF Next
<1>2. QED
  BY <1>1, InitIInv, PTL DEF Spec

(* TypeOK, with the names that create and rename give: for every instance. *)
THEOREM TypeCorrect == Spec => []TypeOK
<1>1. IInv => TypeOK
  BY DEF IInv
<1>2. QED
  BY <1>1, IInvCorrect, PTL

(* write_file, "honest + durable": an acknowledged note is on disk until a *)
(* remove deletes it, however requests overlap, fail or are cut short.     *)
THEOREM NotesStayOnDisk == Spec => []AckedNotesStayOnDisk
<1>1. IInv => AckedNotesStayOnDisk
  BY DEF IInv
<1>2. QED
  BY <1>1, IInvCorrect, PTL

(* VaultRegistry: a vault on which requests have not overlapped and nobody *)
(* is working has an index of its directory exactly if it has one.         *)
THEOREM RegistryFollowsDisk == Spec => []RegistryServesDisk
<1>1. IInv => RegistryServesDisk
  <2>1. ASSUME NEW r \in Requests, NEW n \in Names, pc[r] \in Midway, n \in Touches(req[r])
        PROVE  Busy(n)
    BY <2>1 DEF Busy, Active, Midway
  <2>2. QED
    BY <2>1 DEF IInv, CalmUnlessMidway, Calm, RegistryServesDisk
<1>2. QED
  BY <1>1, IInvCorrect, PTL

(* insert_vault: build_live finds the directory it was called for, unless  *)
(* another request was under way on the vault.                             *)
THEOREM BuildFindsRoot == Spec => []VaultRootIsThere
<1>1. IInv => VaultRootIsThere
  <2> SUFFICES ASSUME IInv, NEW r \in Requests, pc[r] = "build", req[r].name \notin contended
               PROVE  dir[req[r].name] # None
    BY DEF VaultRootIsThere
  <2>1. Active(r)
    BY DEF Active
  <2>2. Touches(req[r]) \cap contended = {}
    BY <2>1, ActiveCall DEF IInv, ContentionKnown
  <2>3. QED
    BY <2>1, <2>2 DEF IInv, StepsKnown, Knows, Unserved
<1>2. QED
  BY <1>1, IInvCorrect, PTL

(* write_file: once nothing is under way, an acknowledged note that no     *)
(* remove has deleted is in a vault the registry serves, or in a contended *)
(* one: a directory a failed creation left behind holds no note.           *)
THEOREM NotesAreServed == Spec => []AckedNotesAreServed
<1>1. IInv => AckedNotesAreServed
  <2> SUFFICES ASSUME IInv, Quiet, NEW q \in Requests, Acked(q), q \notin erased
               PROVE  \E n \in Names : Holds(n, q) /\ (reg[n] = dir[n] \/ n \in contended)
    BY DEF AckedNotesAreServed
  <2>1. PICK n \in Names : Holds(n, q)
    BY DEF IInv, AckedNotesStayOnDisk
  <2>2. n \notin contended => Calm(n)
    BY DEF IInv, CalmUnlessMidway, Quiet, Active, Midway
  <2>3. QED
    BY <2>1, <2>2 DEF Calm, Holds
<1>2. QED
  BY <1>1, IInvCorrect, PTL

=============================================================================
