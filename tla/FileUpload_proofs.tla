-------------------------- MODULE FileUpload_proofs --------------------------
(***************************************************************************)
(* The properties of FileUpload, for every set of uploads with any headers *)
(* and every set of downloads.                                             *)
(***************************************************************************)
EXTENDS FileUpload, TLAPS

(* An attempt that will not touch its final file any more.                 *)
Settled(u) == step[u] \in {"registered", "done", "lost"}

(* u has answered with the row r or is going to.                           *)
Holds(u, r) ==
  \/ answer[u] = r
  \/ step[u] = "duplicate" /\ prior[u] = r
  \/ step[u] = "registered" /\ u = r

(* Rows that are there, or were when some call learned of them.            *)
Inserted == rows \cup {r \in Upload : \E u \in Upload : Holds(u, r)}

RowsInv ==
  /\ \A u \in rows : Settled(u) /\ Intact(u) /\ Header[u].chan \in exists
  /\ \A u \in Upload : step[u] = "renamed" => Intact(u)
  /\ \A u, v \in rows : SameKey(u, v) => u = v

InsertedInv ==
  /\ \A r \in Inserted : r \in rows \/ Header[r].chan \notin exists
  /\ \A r, q \in Inserted : SameKey(r, q) /\ Header[r].chan = Header[q].chan => r = q

HoldsInv ==
  \A u, r \in Upload : Holds(u, r) =>
    SameKey(u, r) /\ (answer[u] = r => SameRequest(u, r))

DownloadInv ==
  \A d \in Download :
    /\ download[d].state # "broken"
    /\ download[d].state \in {"allowed", "verified"} =>
         /\ download[d].file \in Upload
         /\ Intact(download[d].file) /\ Settled(download[d].file)

(* NothingLeftBehind and the first part of RowsHaveBytes need each other:  *)
(* a row's attempt is settled, so that no cleanup meets a row's file.      *)
IInv ==
  /\ TypeOK
  /\ RowsInv
  /\ InsertedInv
  /\ HoldsInv
  /\ NothingLeftBehind
  /\ DownloadInv

-----------------------------------------------------------------------------
LEMMA TypeStep ==
  ASSUME TypeOK, [Next]_vars
  PROVE  TypeOK'
<1> USE HeaderAssumption DEF TypeOK, FileState, Idle, calls, directory, database
<1>1. CASE UNCHANGED vars
  BY <1>1 DEF vars
<1>2. ASSUME NEW u \in Upload, Attempt(u) PROVE TypeOK'
  <2> USE DEF Goto, Return, Found, Existing
  <2>1. CASE Check(u)
    <3>1. answer' \in [Upload -> Upload \cup {"none", "error"}]
      BY <2>1 DEF Check
    <3>2. step' \in [Upload -> {"new", "receiving", "received", "renamed", "registered",
                                "duplicate", "failed", "done", "lost"}]
      BY <2>1 DEF Check
    <3>3. part' \in [Upload -> FileState]
      BY <2>1 DEF Check
    <3> QED BY <2>1, <3>1, <3>2, <3>3 DEF Check
  <2>2. ASSUME NEW x \in Content, Receive(u, x) PROVE TypeOK'
    BY <2>2 DEF Receive
  <2>3. CASE Reject(u)
    BY <2>3 DEF Reject
  <2>4. CASE Rename(u)
    BY <2>4 DEF Rename
  <2>5. CASE Register(u)
    <3>1. prior' \in [Upload -> Upload] /\ rows' \subseteq Upload
      BY <2>5 DEF Register
    <3>2. step' \in [Upload -> {"new", "receiving", "received", "renamed", "registered",
                                "duplicate", "failed", "done", "lost"}]
      BY <2>5 DEF Register
    <3> QED BY <2>5, <3>1, <3>2 DEF Register
  <2>6. CASE RegisterFails(u)
    BY <2>6 DEF RegisterFails
  <2>7. CASE Discard(u)
    BY <2>7 DEF Discard
  <2>8. CASE DropCopy(u)
    BY <2>8 DEF DropCopy
  <2>9. CASE Publish(u)
    BY <2>9 DEF Publish
  <2> QED BY <1>2, <2>1, <2>2, <2>3, <2>4, <2>5, <2>6, <2>7, <2>8, <2>9 DEF Attempt
<1>3. ASSUME NEW d \in Download, NEW v \in User, NEW f \in Upload, Allow(d, v, f)
      PROVE TypeOK'
  BY <1>3 DEF Allow
<1>4. ASSUME NEW d \in Download, Open(d) PROVE TypeOK'
  <2>1. download[d] \in [state : {"allowed", "verified", "broken"}, file : Upload]
    BY <1>4 DEF Open
  <2> QED BY <1>4, <2>1 DEF Open
<1>5. ASSUME NEW c \in Chan, DeleteChannel(c) PROVE TypeOK'
  BY <1>5 DEF DeleteChannel
<1>6. ASSUME NEW c \in Chan, NEW v \in User, ChangeMember(c, v) PROVE TypeOK'
  BY <1>6 DEF ChangeMember
<1>7. CASE Crash
  BY <1>7 DEF Crash
<1> QED BY <1>1, <1>2, <1>3, <1>4, <1>5, <1>6, <1>7 DEF Next

(* Every variable of FileUpload keeps its type.                            *)
THEOREM TypeCorrect == Spec => []TypeOK
<1>1. Init => TypeOK
  BY HeaderAssumption DEF Init, TypeOK, FileState, Idle
<1> QED BY <1>1, TypeStep, PTL DEF Spec

-----------------------------------------------------------------------------
LEMMA InitIInv == Init => IInv
<1> SUFFICES ASSUME Init PROVE IInv
  OBVIOUS
<1>1. TypeOK
  BY HeaderAssumption DEF Init, TypeOK, FileState, Idle
<1>2. \A u, r \in Upload : ~Holds(u, r)
  BY HeaderAssumption DEF Init, Holds
<1>3. Inserted = {}
  BY <1>2 DEF Inserted, Init
<1> QED BY <1>1, <1>2, <1>3
        DEF Init, IInv, RowsInv, InsertedInv, HoldsInv, NothingLeftBehind, DownloadInv, Idle

(* The steps of an upload.                                                 *)
LEMMA AttemptStep ==
  ASSUME IInv, NEW u \in Upload, Attempt(u), TypeOK'
  PROVE  IInv'
<1> USE HeaderAssumption DEF IInv, calls, directory, database
<1> DEFINE Kept == Inserted' \subseteq Inserted
<1>1. CASE Check(u)
  <2> USE <1>1 DEF Check, Return, Goto, Existing, Found, TypeOK, SameKey, SameRequest
  <2>1. RowsInv'
    BY DEF RowsInv, Settled, Intact
  <2>2. HoldsInv'
    BY DEF HoldsInv, Holds
  <2>3. Kept
    BY DEF Inserted, Holds
  <2>4. InsertedInv'
    BY <2>3 DEF InsertedInv
  <2>5. NothingLeftBehind'
    <3> SUFFICES ASSUME NEW v \in Upload
                 PROVE  /\ part[v]' # NoFile => step[v]' \in {"receiving", "received", "lost"}
                        /\ final[v]' # NoFile /\ v \notin rows' =>
                             \/ step[v]' \in {"renamed", "failed", "duplicate", "lost"}
                             \/ Header[v].chan \notin exists'
      BY DEF NothingLeftBehind
    <3>1. final' = final /\ rows' = rows /\ exists' = exists
      BY DEF Check
    <3>2. CASE v = u
      <4>1. \/ part' = part
            \/ step'[u] = "receiving"
        BY DEF Check
      <4>2. step[u] = "new"
        BY DEF Check
      <4>3. part[u] = NoFile /\ (final[u] # NoFile /\ u \notin rows => Header[u].chan \notin exists)
        BY <4>2 DEF NothingLeftBehind
      <4> QED BY <3>1, <3>2, <4>1, <4>3
    <3>3. CASE v # u
      <4>1. step'[v] = step[v] /\ part'[v] = part[v]
        BY <3>3
      <4> QED BY <3>1, <4>1 DEF NothingLeftBehind
    <3> QED BY <3>2, <3>3
  <2>6. DownloadInv'
    <3>1. download' = download /\ final' = final
      BY DEF Check
    <3>2. \A v \in Upload : Settled(v) => Settled(v)'
      BY DEF Settled
    <3> QED BY <3>1, <3>2 DEF DownloadInv, Intact
  <2> QED BY <2>1, <2>2, <2>4, <2>5, <2>6
<1>2. ASSUME NEW x \in Content, Receive(u, x) PROVE IInv'
  <2> USE <1>2 DEF Receive, Goto, TypeOK, SameKey, SameRequest
  <2>1. RowsInv'
    BY DEF RowsInv, Settled, Intact
  <2>2. HoldsInv'
    BY DEF HoldsInv, Holds
  <2>3. Kept
    BY DEF Inserted, Holds
  <2>4. InsertedInv'
    BY <2>3 DEF InsertedInv
  <2>5. NothingLeftBehind'
    <3> SUFFICES ASSUME NEW v \in Upload
                 PROVE  /\ part[v]' # NoFile => step[v]' \in {"receiving", "received", "lost"}
                        /\ final[v]' # NoFile /\ v \notin rows' =>
                             \/ step[v]' \in {"renamed", "failed", "duplicate", "lost"}
                             \/ Header[v].chan \notin exists'
      BY DEF NothingLeftBehind
    <3> QED BY DEF NothingLeftBehind
  <2>6. DownloadInv'
    BY DEF DownloadInv, Settled, Intact
  <2> QED BY <2>1, <2>2, <2>4, <2>5, <2>6
<1>3. CASE Reject(u)
  <2> USE <1>3 DEF Reject, Return, Goto, TypeOK, SameKey, SameRequest
  <2>1. RowsInv'
    BY DEF RowsInv, Settled, Intact
  <2>2. HoldsInv'
    BY DEF HoldsInv, Holds
  <2>3. Kept
    BY DEF Inserted, Holds
  <2>4. InsertedInv'
    BY <2>3 DEF InsertedInv
  <2>5. NothingLeftBehind'
    <3> SUFFICES ASSUME NEW v \in Upload
                 PROVE  /\ part[v]' # NoFile => step[v]' \in {"receiving", "received", "lost"}
                        /\ final[v]' # NoFile /\ v \notin rows' =>
                             \/ step[v]' \in {"renamed", "failed", "duplicate", "lost"}
                             \/ Header[v].chan \notin exists'
      BY DEF NothingLeftBehind
    <3> QED BY DEF NothingLeftBehind
  <2>6. DownloadInv'
    BY DEF DownloadInv, Settled, Intact
  <2> QED BY <2>1, <2>2, <2>4, <2>5, <2>6
<1>4. CASE Rename(u)
  <2> USE <1>4 DEF Rename, Goto, TypeOK, SameKey, SameRequest
  <2>1. RowsInv'
    BY DEF RowsInv, Settled, Intact
  <2>2. HoldsInv'
    BY DEF HoldsInv, Holds
  <2>3. Kept
    BY DEF Inserted, Holds
  <2>4. InsertedInv'
    BY <2>3 DEF InsertedInv
  <2>5. NothingLeftBehind'
    <3> SUFFICES ASSUME NEW v \in Upload
                 PROVE  /\ part[v]' # NoFile => step[v]' \in {"receiving", "received", "lost"}
                        /\ final[v]' # NoFile /\ v \notin rows' =>
                             \/ step[v]' \in {"renamed", "failed", "duplicate", "lost"}
                             \/ Header[v].chan \notin exists'
      BY DEF NothingLeftBehind
    <3> QED BY DEF NothingLeftBehind
  <2>6. DownloadInv'
    BY DEF DownloadInv, Settled, Intact
  <2> QED BY <2>1, <2>2, <2>4, <2>5, <2>6
<1>5. CASE Register(u)
  <2> USE <1>5 DEF Register, Existing, Permitted, MayUse, Goto, TypeOK, SameKey, SameRequest
  <2>1. /\ u \notin rows /\ Header[u].chan \in exists
        /\ rows' \subseteq rows \cup {u}
        /\ u \in rows' => \A v \in rows : ~SameKey(u, v)
    BY DEF RowsInv, Settled
  <2>2. RowsInv'
    <3>1. ASSUME NEW v \in rows'
          PROVE  Settled(v)' /\ Intact(v)' /\ Header[v].chan \in exists'
      <4>1. final' = final /\ exists' = exists
        BY DEF Register
      <4>2. CASE v \in rows
        <5>1. Settled(v) /\ Intact(v) /\ Header[v].chan \in exists
          BY <4>2 DEF RowsInv
        <5>2. step'[v] = step[v]
          BY <2>1, <4>2
        <5> QED BY <4>1, <5>1, <5>2 DEF Settled, Intact
      <4>3. CASE v = u /\ v \notin rows
        BY <2>1, <3>1, <4>1, <4>3 DEF RowsInv, Settled, Intact
      <4> QED BY <2>1, <3>1, <4>2, <4>3
    <3>2. \A v \in Upload : step'[v] = "renamed" => Intact(v)'
      BY DEF RowsInv, Intact
    <3>3. \A v, w \in rows' : SameKey(v, w) => v = w
      BY <2>1 DEF RowsInv
    <3> QED BY <3>1, <3>2, <3>3 DEF RowsInv
  <2>3. HoldsInv'
    BY DEF HoldsInv, Holds
  <2>4. /\ Inserted' \subseteq Inserted \cup {u}
        /\ u \in Inserted' => u \in Inserted \/ u \in rows'
    <3>1. ASSUME NEW w \in Upload, NEW r \in Upload, Holds(w, r)'
          PROVE  Holds(w, r) \/ r \in rows \/ (r = u /\ u \in rows')
      <4>1. CASE w = u
        BY <3>1, <4>1 DEF Holds
      <4>2. CASE w # u
        BY <3>1, <4>2 DEF Holds
      <4> QED BY <4>1, <4>2
    <3> QED BY <2>1, <3>1 DEF Inserted
  <2>5. InsertedInv'
    <3>1. \A r \in Inserted' : r \in rows' \/ Header[r].chan \notin exists'
      BY <2>4 DEF InsertedInv
    <3>2. ASSUME NEW r \in Inserted', NEW q \in Inserted', SameKey(r, q),
                 Header[r].chan = Header[q].chan
          PROVE  r = q
      <4>1. CASE r \in Inserted /\ q \in Inserted
        BY <3>2, <4>1 DEF InsertedInv
      <4>2. CASE r = u /\ u \notin Inserted
        BY <3>2, <4>2, <2>1, <2>4 DEF InsertedInv
      <4>3. CASE q = u /\ u \notin Inserted
        BY <3>2, <4>3, <2>1, <2>4 DEF InsertedInv
      <4> QED BY <2>4, <4>1, <4>2, <4>3
    <3> QED BY <3>1, <3>2 DEF InsertedInv
  <2>6. NothingLeftBehind'
    <3> SUFFICES ASSUME NEW v \in Upload
                 PROVE  /\ part[v]' # NoFile => step[v]' \in {"receiving", "received", "lost"}
                        /\ final[v]' # NoFile /\ v \notin rows' =>
                             \/ step[v]' \in {"renamed", "failed", "duplicate", "lost"}
                             \/ Header[v].chan \notin exists'
      BY DEF NothingLeftBehind
    <3> QED BY DEF NothingLeftBehind
  <2>7. DownloadInv'
    BY DEF DownloadInv, Settled, Intact
  <2> QED BY <2>2, <2>3, <2>5, <2>6, <2>7
<1>6. CASE RegisterFails(u)
  <2> USE <1>6 DEF RegisterFails, Goto, TypeOK, SameKey, SameRequest
  <2>1. RowsInv'
    BY DEF RowsInv, Settled, Intact
  <2>2. HoldsInv'
    BY DEF HoldsInv, Holds
  <2>3. Kept
    BY DEF Inserted, Holds
  <2>4. InsertedInv'
    BY <2>3 DEF InsertedInv
  <2>5. NothingLeftBehind'
    <3> SUFFICES ASSUME NEW v \in Upload
                 PROVE  /\ part[v]' # NoFile => step[v]' \in {"receiving", "received", "lost"}
                        /\ final[v]' # NoFile /\ v \notin rows' =>
                             \/ step[v]' \in {"renamed", "failed", "duplicate", "lost"}
                             \/ Header[v].chan \notin exists'
      BY DEF NothingLeftBehind
    <3> QED BY DEF NothingLeftBehind
  <2>6. DownloadInv'
    BY DEF DownloadInv, Settled, Intact
  <2> QED BY <2>1, <2>2, <2>4, <2>5, <2>6
<1>7. CASE Discard(u)
  <2> USE <1>7 DEF Discard, Return, Goto, TypeOK, SameKey, SameRequest
  <2>1. RowsInv'
    BY DEF RowsInv, Settled, Intact
  <2>2. HoldsInv'
    BY DEF HoldsInv, Holds
  <2>3. Kept
    BY DEF Inserted, Holds
  <2>4. InsertedInv'
    BY <2>3 DEF InsertedInv
  <2>5. NothingLeftBehind'
    <3> SUFFICES ASSUME NEW v \in Upload
                 PROVE  /\ part[v]' # NoFile => step[v]' \in {"receiving", "received", "lost"}
                        /\ final[v]' # NoFile /\ v \notin rows' =>
                             \/ step[v]' \in {"renamed", "failed", "duplicate", "lost"}
                             \/ Header[v].chan \notin exists'
      BY DEF NothingLeftBehind
    <3> QED BY DEF NothingLeftBehind
  <2>6. DownloadInv'
    BY DEF DownloadInv, Settled, Intact
  <2> QED BY <2>1, <2>2, <2>4, <2>5, <2>6
<1>8. CASE DropCopy(u)
  <2> USE <1>8 DEF DropCopy, Return, Found, Goto, TypeOK, SameKey, SameRequest
  <2>1. RowsInv'
    BY DEF RowsInv, Settled, Intact
  <2>2. HoldsInv'
    BY DEF HoldsInv, Holds
  <2>3. Kept
    BY DEF Inserted, Holds
  <2>4. InsertedInv'
    BY <2>3 DEF InsertedInv
  <2>5. NothingLeftBehind'
    <3> SUFFICES ASSUME NEW v \in Upload
                 PROVE  /\ part[v]' # NoFile => step[v]' \in {"receiving", "received", "lost"}
                        /\ final[v]' # NoFile /\ v \notin rows' =>
                             \/ step[v]' \in {"renamed", "failed", "duplicate", "lost"}
                             \/ Header[v].chan \notin exists'
      BY DEF NothingLeftBehind
    <3> QED BY DEF NothingLeftBehind
  <2>6. DownloadInv'
    BY DEF DownloadInv, Settled, Intact
  <2> QED BY <2>1, <2>2, <2>4, <2>5, <2>6
<1>9. CASE Publish(u)
  <2> USE <1>9 DEF Publish, Return, Goto, TypeOK, SameKey, SameRequest
  <2>1. RowsInv'
    BY DEF RowsInv, Settled, Intact
  <2>2. HoldsInv'
    BY DEF HoldsInv, Holds
  <2>3. Kept
    BY DEF Inserted, Holds
  <2>4. InsertedInv'
    BY <2>3 DEF InsertedInv
  <2>5. NothingLeftBehind'
    <3> SUFFICES ASSUME NEW v \in Upload
                 PROVE  /\ part[v]' # NoFile => step[v]' \in {"receiving", "received", "lost"}
                        /\ final[v]' # NoFile /\ v \notin rows' =>
                             \/ step[v]' \in {"renamed", "failed", "duplicate", "lost"}
                             \/ Header[v].chan \notin exists'
      BY DEF NothingLeftBehind
    <3> QED BY DEF NothingLeftBehind, RowsInv, Settled
  <2>6. DownloadInv'
    BY DEF DownloadInv, Settled, Intact
  <2> QED BY <2>1, <2>2, <2>4, <2>5, <2>6
<1> QED BY <1>1, <1>2, <1>3, <1>4, <1>5, <1>6, <1>7, <1>8, <1>9 DEF Attempt

(* Every step keeps the invariant.                                         *)
LEMMA NextIInv ==
  ASSUME IInv, [Next]_vars
  PROVE  IInv'
<1> USE HeaderAssumption
<1>0. TypeOK /\ TypeOK'
  BY TypeStep DEF IInv
<1>1. CASE UNCHANGED vars
  BY <1>1 DEF vars, calls, directory, database, IInv, RowsInv, InsertedInv, HoldsInv,
              NothingLeftBehind, DownloadInv, Inserted, Holds, Settled, Intact, TypeOK
<1>2. ASSUME NEW u \in Upload, Attempt(u) PROVE IInv'
  BY <1>0, <1>2, AttemptStep
<1>3. ASSUME NEW d \in Download, NEW v \in User, NEW f \in Upload, Allow(d, v, f)
      PROVE IInv'
  <2> USE <1>3 DEF Allow, database, directory, calls
  <2>1. DownloadInv'
    BY <1>0 DEF DownloadInv, IInv, RowsInv, Settled, Intact, TypeOK
  <2>2. RowsInv' /\ InsertedInv' /\ HoldsInv' /\ NothingLeftBehind'
    BY DEF IInv, RowsInv, InsertedInv, HoldsInv, NothingLeftBehind, Inserted, Holds,
           Settled, Intact
  <2> QED BY <1>0, <2>1, <2>2 DEF IInv
<1>4. ASSUME NEW d \in Download, Open(d) PROVE IInv'
  <2> USE <1>4 DEF Open, database, directory, calls
  <2>1. DownloadInv'
    <3>1. /\ Intact(download[d].file) /\ Settled(download[d].file)
          /\ download[d].file \in Upload
      BY DEF IInv, DownloadInv
    <3>2. download' = [download EXCEPT ![d] = IF @.state = "allowed"
                                            THEN [@ EXCEPT !.state = "verified"] ELSE Idle]
      BY <3>1
    <3>3. /\ download'[d].state \in {"verified", "idle"}
          /\ download'[d].state = "verified" => download'[d].file = download[d].file
          /\ \A e \in Download : e # d => download'[e] = download[e]
      BY <1>0, <3>2 DEF TypeOK, Idle
    <3>4. \A v \in Upload : Intact(v)' = Intact(v) /\ Settled(v)' = Settled(v)
      BY DEF Intact, Settled
    <3> QED BY <3>1, <3>3, <3>4 DEF IInv, DownloadInv
  <2>2. RowsInv' /\ InsertedInv' /\ HoldsInv' /\ NothingLeftBehind'
    BY DEF IInv, RowsInv, InsertedInv, HoldsInv, NothingLeftBehind, Inserted, Holds,
           Settled, Intact
  <2> QED BY <1>0, <2>1, <2>2 DEF IInv
<1>5. ASSUME NEW c \in Chan, DeleteChannel(c) PROVE IInv'
  <2> USE <1>5 DEF DeleteChannel, directory, calls
  <2>1. RowsInv'
    BY <1>0 DEF IInv, RowsInv, Settled, Intact
  <2>2. Inserted' \subseteq Inserted
    BY DEF Inserted, Holds
  <2>3. InsertedInv'
    BY <2>2 DEF IInv, InsertedInv
  <2>4. HoldsInv' /\ NothingLeftBehind' /\ DownloadInv'
    BY DEF IInv, HoldsInv, Holds, NothingLeftBehind, DownloadInv, Settled, Intact
  <2> QED BY <1>0, <2>1, <2>3, <2>4 DEF IInv
<1>6. ASSUME NEW c \in Chan, NEW v \in User, ChangeMember(c, v) PROVE IInv'
  BY <1>0, <1>6 DEF ChangeMember, directory, calls, IInv, RowsInv, InsertedInv, HoldsInv,
              NothingLeftBehind, DownloadInv, Inserted, Holds, Settled, Intact
<1>7. CASE Crash
  <2> USE <1>7 DEF Crash, database, directory
  <2>1. RowsInv' /\ HoldsInv' /\ NothingLeftBehind'
    BY <1>0 DEF IInv, RowsInv, HoldsInv, Holds, NothingLeftBehind, Settled, Intact, TypeOK
  <2>2. Inserted' \subseteq Inserted
    BY <1>0 DEF Inserted, Holds, TypeOK
  <2>3. InsertedInv'
    BY <2>2 DEF IInv, InsertedInv
  <2>4. DownloadInv'
    BY DEF DownloadInv, Idle
  <2> QED BY <1>0, <2>1, <2>3, <2>4 DEF IInv
<1> QED BY <1>1, <1>2, <1>3, <1>4, <1>5, <1>6, <1>7 DEF Next

(* The inductive invariant holds in every reachable state.                 *)
THEOREM Invariance == Spec => []IInv
BY InitIInv, NextIInv, PTL DEF Spec

-----------------------------------------------------------------------------
(* Metadata implies bytes: a row's file is complete and as declared, and a *)
(* row is the only one of its user and key, whatever retries, failures and *)
(* crashes there are.                                                      *)
THEOREM RowsAlwaysHaveBytes == Spec => []RowsHaveBytes
<1>1. IInv => RowsHaveBytes
  BY DEF IInv, RowsInv, RowsHaveBytes
<1> QED BY <1>1, Invariance, PTL

(* What an upload answers is its own row, there until the channel is       *)
(* deleted, and the same row for every retry.                              *)
THEOREM AnswersAreAlwaysStored == Spec => []AnswersAreStored
<1>1. ASSUME IInv PROVE AnswersAreStored
  <2> USE HeaderAssumption DEF IInv
  <2>1. ASSUME NEW u \in Upload, answer[u] \in Upload
        PROVE  /\ SameKey(u, answer[u]) /\ SameRequest(u, answer[u])
               /\ answer[u] \in Inserted
               /\ answer[u] \in rows \/ Header[u].chan \notin exists
    BY <2>1, <1>1 DEF HoldsInv, Holds, Inserted, InsertedInv, SameRequest
  <2>2. ASSUME NEW u \in Upload, NEW v \in Upload, answer[u] \in Upload,
               answer[v] \in Upload, SameKey(u, v), SameRequest(u, v)
        PROVE  answer[u] = answer[v]
    <3>1. /\ SameKey(u, answer[u]) /\ SameRequest(u, answer[u]) /\ answer[u] \in Inserted
          /\ SameKey(v, answer[v]) /\ SameRequest(v, answer[v]) /\ answer[v] \in Inserted
      BY <2>1, <2>2
    <3>2. SameKey(answer[u], answer[v]) /\ Header[answer[u]].chan = Header[answer[v]].chan
      BY <2>2, <3>1 DEF SameKey, SameRequest
    <3> QED BY <1>1, <3>1, <3>2 DEF InsertedInv
  <2> QED BY <2>1, <2>2 DEF AnswersAreStored
<1> QED BY <1>1, Invariance, PTL

(* Files that no row refers to belong to running or killed uploads or to   *)
(* deleted channels.                                                       *)
THEOREM NothingIsLeftBehind == Spec => []NothingLeftBehind
BY Invariance, PTL DEF IInv

(* An authorized download finds the bytes it was allowed.                  *)
THEOREM DownloadsAlwaysFindBytes == Spec => []DownloadsFindBytes
<1>1. IInv => DownloadsFindBytes
  BY DEF IInv, DownloadInv, DownloadsFindBytes
<1> QED BY <1>1, Invariance, PTL

=============================================================================
