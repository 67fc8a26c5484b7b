----------------------------- MODULE FileUpload -----------------------------
(***************************************************************************)
(* Uploads and downloads: server/application/files.py over two stores that *)
(* share no transaction, the table files and the storage directory.  An    *)
(* upload receives the bytes in a temporary file, renames it to a name of  *)
(* its own, and then commits the metadata; downloads go by the metadata.   *)
(*                                                                         *)
(* An attempt u is one call of UploadFile.  Its header is fixed, so the    *)
(* attempt names the file id, the row and the final file it may create.    *)
(***************************************************************************)
EXTENDS FiniteSets, Naturals

CONSTANTS
  User, Chan, Key,
  Content,    \* all that _same_request compares besides the channel
  Upload,     \* attempts; two of one user and key are a call and its retry
  Header,     \* Header[u]: whose, under which key, where, what
  Download    \* calls of DownloadFile

NoFile == [content |-> "none"]
Bytes(x) == [content |-> "whole", of |-> x]
Cut == [content |-> "cut"]     \* fewer or more bytes than declared, or other ones

ASSUME HeaderAssumption ==
  /\ Header \in [Upload -> [user : User, key : Key, chan : Chan, content : Content]]
  /\ "none" \notin Upload /\ "error" \notin Upload

VARIABLES
  exists,     \* the channels with a row
  member,     \* channel_members: pairs of channel and user
  rows,       \* the attempts whose metadata row is in the table files
  part,       \* part[u]: the temporary file of u
  final,      \* final[u]: the file <id>.bin of u
  step,       \* step[u]: how far the attempt is; "lost" when it died
  prior,      \* prior[u]: the row u found under its own key, or u
  answer,     \* answer[u]: the row the client got, "none" or "error"
  download    \* download[d]: its progress, and the row it was allowed

database == <<exists, member, rows>>
directory == <<part, final>>
calls == <<step, prior, answer>>
vars == <<database, directory, calls, download>>

FileState == {NoFile, Cut} \cup {Bytes(x) : x \in Content}

Idle == [state |-> "idle"]

Init ==
  /\ exists = Chan
  /\ member \in SUBSET (Chan \X User)
  /\ rows = {}
  /\ part = [u \in Upload |-> NoFile]
  /\ final = [u \in Upload |-> NoFile]
  /\ step = [u \in Upload |-> "new"]
  /\ prior = [u \in Upload |-> u]
  /\ answer = [u \in Upload |-> "none"]
  /\ download = [d \in Download |-> Idle]

-----------------------------------------------------------------------------
(* _authorize_channel                                                      *)
MayUse(c, v) == c \in exists /\ <<c, v>> \in member

Permitted(u) == MayUse(Header[u].chan, Header[u].user)

SameKey(u, v) == Header[u].user = Header[v].user /\ Header[u].key = Header[v].key

(* get_by_client_request                                                   *)
Existing(u) == {v \in rows : SameKey(u, v)}

SameRequest_KeyOnly(u, v) == SameKey(u, v)

(* _same_request                                                           *)
SameRequest(u, v) ==
  Header[u].chan = Header[v].chan /\ Header[u].content = Header[v].content

(* What a call answers that found v under its key: v, or CONFLICT.         *)
Found(u, v) == IF SameRequest(u, v) THEN v ELSE "error"

Goto(u, s) == step' = [step EXCEPT ![u] = s]

Return(u, a) ==
  /\ Goto(u, "done")
  /\ answer' = [answer EXCEPT ![u] = a]

-----------------------------------------------------------------------------
(* The first transaction, which only reads: a known key is answered at     *)
(* once, anything else opens a temporary file.                             *)
Check(u) ==
  /\ step[u] = "new"
  /\ \/ /\ ~Permitted(u)
        /\ Return(u, "error")
        /\ UNCHANGED part
     \/ /\ Permitted(u)
        /\ \E v \in Existing(u) : Return(u, Found(u, v))
        /\ UNCHANGED part
     \/ /\ Permitted(u)
        /\ Existing(u) = {}
        /\ Goto(u, "receiving")
        /\ part' = [part EXCEPT ![u] = Cut]
        /\ UNCHANGED answer
  /\ UNCHANGED <<database, final, prior, download>>

(* The chunks: what arrives may be the declared content or anything else.  *)
Receive(u, x) ==
  /\ step[u] = "receiving"
  /\ part' = [part EXCEPT ![u] = Bytes(x)]
  /\ Goto(u, "received")
  /\ UNCHANGED <<database, final, prior, answer, download>>

Reject_KeepsPart(u) ==
  /\ \/ step[u] = "receiving"
     \/ step[u] = "received" /\ part[u] # Bytes(Header[u].content)
  /\ Return(u, "error")
  /\ UNCHANGED <<database, directory, prior, download>>

(* Too many bytes, too few, another checksum, or a stream that broke: the  *)
(* finally clause removes the temporary file.                              *)
Reject(u) ==
  /\ \/ step[u] = "receiving"
     \/ step[u] = "received" /\ part[u] # Bytes(Header[u].content)
  /\ part' = [part EXCEPT ![u] = NoFile]
  /\ Return(u, "error")
  /\ UNCHANGED <<database, final, prior, download>>

Rename_Unverified(u) ==
  /\ step[u] = "received"
  /\ final' = [final EXCEPT ![u] = part[u]]
  /\ part' = [part EXCEPT ![u] = NoFile]
  /\ Goto(u, "renamed")
  /\ UNCHANGED <<database, prior, answer, download>>

(* Size and checksum agree with the header: os.replace.                    *)
Rename(u) ==
  /\ step[u] = "received"
  /\ part[u] = Bytes(Header[u].content)
  /\ final' = [final EXCEPT ![u] = part[u]]
  /\ part' = [part EXCEPT ![u] = NoFile]
  /\ Goto(u, "renamed")
  /\ UNCHANGED <<database, prior, answer, download>>

(* The immediate transaction: authorize again, INSERT OR IGNORE, look up   *)
(* what is there if nothing was inserted, commit.                          *)
Register(u) ==
  /\ step[u] = "renamed"
  /\ Permitted(u)
  /\ \/ /\ Existing(u) = {}
        /\ rows' = rows \cup {u}
        /\ Goto(u, "registered")
        /\ UNCHANGED prior
     \/ \E v \in Existing(u) :
          /\ prior' = [prior EXCEPT ![u] = v]
          /\ Goto(u, "duplicate")
          /\ UNCHANGED rows
  /\ UNCHANGED <<exists, member, directory, answer, download>>

(* The transaction raises: the channel or the membership is gone, or the   *)
(* writer slot did not come in time.                                       *)
RegisterFails(u) ==
  /\ step[u] = "renamed"
  /\ Goto(u, "failed")
  /\ UNCHANGED <<database, directory, prior, answer, download>>

(* The except clause                                                       *)
Discard(u) ==
  /\ step[u] = "failed"
  /\ final' = [final EXCEPT ![u] = NoFile]
  /\ Return(u, "error")
  /\ UNCHANGED <<database, part, prior, download>>

DropCopy_OfPrior(u) ==
  /\ step[u] = "duplicate"
  /\ final' = [final EXCEPT ![prior[u]] = NoFile]
  /\ Return(u, Found(u, prior[u]))
  /\ UNCHANGED <<database, part, prior, download>>

(* The key was used while the chunks arrived: the bytes of this attempt    *)
(* go, and the row that is there answers.                                  *)
DropCopy(u) ==
  /\ step[u] = "duplicate"
  /\ final' = [final EXCEPT ![u] = NoFile]
  /\ Return(u, Found(u, prior[u]))
  /\ UNCHANGED <<database, part, prior, download>>

(* Publish the file event and answer.                                      *)
Publish(u) ==
  /\ step[u] = "registered"
  /\ Return(u, u)
  /\ UNCHANGED <<database, directory, prior, download>>

Attempt(u) ==
  \/ Check(u) \/ (\E x \in Content : Receive(u, x)) \/ Reject(u) \/ Rename(u)
  \/ Register(u) \/ RegisterFails(u) \/ Discard(u) \/ DropCopy(u) \/ Publish(u)

-----------------------------------------------------------------------------
(* authorize_download finds the row and the membership in one transaction. *)
Allow(d, v, f) ==
  /\ download[d] = Idle
  /\ f \in rows
  /\ MayUse(Header[f].chan, v)
  /\ download' = [download EXCEPT ![d] = [state |-> "allowed", file |-> f]]
  /\ UNCHANGED <<database, directory, calls>>

Intact(f) == final[f] = Bytes(Header[f].content)

(* It then reads the file to verify it (INTERNAL if that fails), and the   *)
(* handler opens it once more to send it.                                  *)
Open(d) ==
  /\ download[d].state \in {"allowed", "verified"}
  /\ download' = [download EXCEPT ![d] =
       CASE ~Intact(@.file) -> [@ EXCEPT !.state = "broken"]
         [] Intact(@.file) /\ @.state = "allowed" -> [@ EXCEPT !.state = "verified"]
         [] OTHER -> Idle]
  /\ UNCHANGED <<database, directory, calls>>

-----------------------------------------------------------------------------
(* delete_channel: the rows go by cascade, the bytes stay.                 *)
DeleteChannel(c) ==
  /\ exists' = exists \ {c}
  /\ member' = {p \in member : p[1] # c}
  /\ rows' = {u \in rows : Header[u].chan # c}
  /\ UNCHANGED <<directory, calls, download>>

ChangeMember(c, v) ==
  /\ c \in exists
  /\ member' = IF <<c, v>> \in member THEN member \ {<<c, v>>} ELSE member \cup {<<c, v>>}
  /\ UNCHANGED <<exists, rows, directory, calls, download>>

(* The process dies.  What is committed and what is in the directory stay; *)
(* nothing at the next start looks at the directory.                       *)
Crash ==
  /\ step' = [u \in Upload |-> IF step[u] \in {"new", "done"} THEN step[u] ELSE "lost"]
  /\ download' = [d \in Download |-> Idle]
  /\ UNCHANGED <<database, directory, prior, answer>>

Next ==
  \/ \E u \in Upload : Attempt(u)
  \/ \E d \in Download :
       \/ \E v \in User, f \in Upload : Allow(d, v, f)
       \/ Open(d)
  \/ \E c \in Chan :
       \/ DeleteChannel(c)
       \/ \E v \in User : ChangeMember(c, v)
  \/ Crash

Spec == Init /\ [][Next]_vars

-----------------------------------------------------------------------------
(* Every variable keeps its type.                                          *)
TypeOK ==
  /\ exists \subseteq Chan
  /\ member \subseteq Chan \X User
  /\ rows \subseteq Upload
  /\ part \in [Upload -> FileState]
  /\ final \in [Upload -> FileState]
  /\ step \in [Upload -> {"new", "receiving", "received", "renamed", "registered",
                          "duplicate", "failed", "done", "lost"}]
  /\ prior \in [Upload -> Upload]
  /\ answer \in [Upload -> Upload \cup {"none", "error"}]
  /\ download \in [Download -> {Idle} \cup
                     [state : {"allowed", "verified", "broken"}, file : Upload]]

(* Metadata implies bytes: the file behind a row is complete and as its    *)
(* header declared it, whatever retries, failures and crashes there are,   *)
(* and a row is the only one of its user and key.                          *)
RowsHaveBytes ==
  /\ \A u \in rows : Intact(u)
  /\ \A u, v \in rows : SameKey(u, v) => u = v

(* The row that an upload answered with holds what that call sent, to the  *)
(* channel it named, and is there until the channel is deleted; retries of *)
(* one request all get the same row.                                       *)
AnswersAreStored ==
  /\ \A u \in Upload : answer[u] \in Upload =>
       /\ SameKey(u, answer[u])
       /\ SameRequest(u, answer[u])
       /\ answer[u] \in rows \/ Header[u].chan \notin exists
  /\ \A u, v \in Upload :
       /\ {answer[u], answer[v]} \subseteq Upload
       /\ SameKey(u, v) /\ SameRequest(u, v)
       => answer[u] = answer[v]

(* A file of the directory that no row refers to belongs to an upload that *)
(* is still running, to one that died with the process, or to a channel    *)
(* that was deleted.  An upload that ends leaves nothing else behind.      *)
NothingLeftBehind ==
  \A u \in Upload :
    /\ part[u] # NoFile => step[u] \in {"receiving", "received", "lost"}
    /\ final[u] # NoFile /\ u \notin rows =>
         \/ step[u] \in {"renamed", "failed", "duplicate", "lost"}
         \/ Header[u].chan \notin exists

(* A download that was authorized finds the bytes, twice, although the     *)
(* channel may be deleted and the user removed in between.                 *)
DownloadsFindBytes ==
  \A d \in Download : download[d].state # "broken"

=============================================================================
