-------------------------- MODULE BotFeeds_proofs --------------------------
(***************************************************************************)
(* Theorems of BotFeeds, for any number of giveaways, any number of        *)
(* attempts and any budgets: nothing is posted twice unless an answer was  *)
(* lost, a VOD post that is on record stands and none is off the record,   *)
(* and no giveaway, result or change of a split is passed over.            *)
(***************************************************************************)
EXTENDS BotFeeds, TLAPS, FiniteSetTheorems, WellFoundedInduction

----------------------------------------------------------------------------
(* The inductive invariant.  Each of its parts relates the state of one    *)
(* feed to where the poller is.                                            *)

VodAt == {"vod delete", "vod remove", "vod confirm", "vod create", "vod claim", "vod post",
          "vod record"}
GiveAt == {"give ack", "give acks", "give list", "give next", "give send", "give cursor"}
ResultAt == {"results", "result next", "result edit", "result winner"}
SplitAt == {"split retry", "split discover", "split read", "split thread", "split delete",
            "split cursors", "split create", "split thread id", "split edit", "split close",
            "split save"}
At == {"idle"} \cup VodAt \cup GiveAt \cup ResultAt \cup SplitAt

PollerOK ==
  /\ DOMAIN poller = DOMAIN Asleep
  /\ poller.at \in At
  /\ poller.then \in {"idle", "give list", "give cursor"}
  /\ poller.queue \subseteq Giveaway /\ poller.todo \subseteq Giveaway
  /\ poller.at \in {"give send", "give cursor"} => poller.item \in Giveaway
  /\ poller.at = "give acks" /\ poller.then = "give cursor" => poller.item \in Giveaway
  /\ poller.at = "give acks" => poller.then # "idle"

PostRow == [deleted : BOOLEAN, locked : BOOLEAN, shows : Nat]
VodTypes ==
  /\ vod \in [status : {"none", "pending", "attempted", "created", "deleted"}, thread : Nat,
              archived : BOOLEAN, posts : Seq(PostRow)]
  /\ vod.thread \in 0..Len(vod.posts)

VodOK ==
  LET standing == Standing(vod.posts)
      excused == "restored while deleting" \in history
  IN  /\ vod.status \in {"none", "pending", "deleted"} => standing = {}
      /\ vod.status = "attempted" => standing \subseteq {Len(vod.posts)}
      /\ vod.status = "created" => /\ standing \subseteq {vod.thread} /\ vod.thread # 0
                                   /\ vod.archived \/ vod.thread \in standing \/ excused
      /\ poller.at \in {"vod remove", "vod confirm"} =>
           /\ vod.status = "created" /\ poller.read.thread = vod.thread
           /\ vod.archived \/ excused
      /\ poller.at = "vod confirm" => standing = {}
      /\ poller.at = "vod post" => vod.status = "attempted" /\ standing = {}
      /\ poller.at = "vod record" =>
           vod.status = "attempted" /\ standing = {Len(vod.posts)} /\ Len(vod.posts) # 0

MemoryTypes ==
  /\ memory \in [cursor : Nat, posted : SUBSET Giveaway, unacked : [Giveaway -> Nat],
                 announced : SUBSET Giveaway, splitCursor : Nat, attempts : Nat]
  /\ memory.announced \subseteq memory.posted
  /\ memory.attempts \in 0..(MaxAttempts - 1)

GiveawayTypes ==
  giveaway \in [Giveaway -> [is : {"absent", "open", "drawn", "cancelled"}, message : Nat,
                             sent : Nat, shown : SUBSET Nat, winners : Nat]]

MessagesOK ==
  /\ \A g \in Giveaway : {giveaway[g].message, memory.unacked[g]} \subseteq 0..giveaway[g].sent
  /\ "message lost" \in history
     \/ \A g \in Giveaway : giveaway[g].sent <= (IF g \in memory.posted THEN 1 ELSE 0)
ResultsOK ==
  /\ poller.at = "give send" => poller.item \notin memory.posted
  /\ poller.at \in {"result next", "result edit", "result winner"} =>
       poller.todo \subseteq memory.posted
  /\ poller.at \in {"result edit", "result winner"} => poller.item \in memory.posted
  /\ poller.at = "result edit" => poller.read.message \in Nat

SplitTypes ==
  /\ split \in [version : Nat, final : BOOLEAN, archived : BOOLEAN, linked : BOOLEAN,
                thread : Nat, summary : Nat, posts : Seq(PostRow)]
  /\ {split.thread, split.summary} \subseteq 0..Len(split.posts)
  /\ memory.splitCursor \in 0..split.version

\* The row that was read is the split's, in all but what users change.
HoldsRow == {"split thread", "split delete", "split cursors", "split create", "split thread id",
             "split edit", "split close", "split save"}
SplitOK ==
  LET standing == Standing(split.posts)
  IN  /\ poller.at \in SplitAt => poller.item \in 0..split.version
      /\ poller.at \in HoldsRow =>
           /\ DOMAIN poller.read = DOMAIN split \ {"posts"}
           /\ poller.read.version \in Nat /\ poller.read.thread = split.thread
           /\ poller.read.summary \in 0..Len(split.posts)
      /\ "post lost" \in history
         \/ /\ poller.at = "split create" => standing = {}
            /\ poller.at = "split thread id" => standing \subseteq {Len(split.posts)}
            /\ poller.at # "split thread id" => standing \subseteq {split.thread}

IInv ==
  /\ PollerOK
  /\ VodTypes /\ VodOK
  /\ MemoryTypes /\ GiveawayTypes /\ MessagesOK /\ ResultsOK
  /\ SplitTypes /\ SplitOK
----------------------------------------------------------------------------
(* Lemmas on posts, on First and on the poller's record.                   *)

LEMMA GiveawaysAreNat == Giveaway \subseteq Nat
BY FS_CardinalityType, FeedsAssumption DEF FeedsAssumption

LEMMA FirstIsLeast ==
  ASSUME NEW S \in SUBSET Giveaway, S # {}
  PROVE  First(S) \in S /\ \A y \in S : First(S) <= y
<1>1. S \subseteq Nat
  BY GiveawaysAreNat
<1>2. PICK x \in S : \A y \in S : ~(<<y, x>> \in OpToRel(<, Nat))
  BY <1>1, NatLessThanWellFounded, WFMin
<1>3. \A y \in S : x <= y
  <2> TAKE y \in S
  <2>1. <<y, x>> \in Nat \X Nat
    BY <1>1
  <2>2. ~(y < x)
    BY <1>2, <2>1 DEF OpToRel
  <2> QED BY <1>1, <2>2
<1> QED BY <1>3 DEF First

LEMMA FirstIsIn ==
  ASSUME NEW S \in SUBSET Giveaway, S # {}
  PROVE  First(S) \in S
BY FirstIsLeast

LEMMA PostAdded ==
  ASSUME NEW posts \in Seq(PostRow), NEW version \in Nat
  PROVE  /\ Append(posts, NewPost(version)) \in Seq(PostRow)
         /\ Len(Append(posts, NewPost(version))) = Len(posts) + 1
         /\ Standing(Append(posts, NewPost(version))) = Standing(posts) \cup {Len(posts) + 1}
<1>1. NewPost(version) \in PostRow /\ ~NewPost(version).deleted
  BY DEF NewPost, PostRow
<1> DEFINE more == Append(posts, NewPost(version))
<1>2. /\ more \in Seq(PostRow) /\ Len(more) = Len(posts) + 1
      /\ \A i \in 1..Len(posts) : more[i] = posts[i]
      /\ more[Len(posts) + 1] = NewPost(version)
  BY <1>1
<1>3. DOMAIN posts = 1..Len(posts) /\ DOMAIN more = 1..(Len(posts) + 1) /\ Len(posts) \in Nat
  BY <1>2
<1> HIDE DEF more
<1>4. Standing(more) = Standing(posts) \cup {Len(posts) + 1}
  BY <1>1, <1>2, <1>3 DEF Standing
<1> QED BY <1>2, <1>4 DEF more

LEMMA PostRemoved ==
  ASSUME NEW posts \in Seq(PostRow), NEW i
  PROVE  /\ [posts EXCEPT ![i].deleted = TRUE] \in Seq(PostRow)
         /\ Len([posts EXCEPT ![i].deleted = TRUE]) = Len(posts)
         /\ Standing([posts EXCEPT ![i].deleted = TRUE]) = Standing(posts) \ {i}
<1> DEFINE fewer == [posts EXCEPT ![i].deleted = TRUE]
<1>1. \A p \in PostRow : /\ [p EXCEPT !.deleted = TRUE] \in PostRow
                         /\ [p EXCEPT !.deleted = TRUE].deleted
  BY DEF PostRow
<1>2. DOMAIN posts = 1..Len(posts) /\ \A j \in DOMAIN posts : posts[j] \in PostRow
  OBVIOUS
<1>3. /\ DOMAIN fewer = DOMAIN posts
      /\ \A j \in DOMAIN posts :
           fewer[j] = IF j = i THEN [posts[j] EXCEPT !.deleted = TRUE] ELSE posts[j]
  OBVIOUS
<1>4. fewer \in [1..Len(posts) -> PostRow]
  BY <1>1, <1>2, <1>3
<1>5. fewer \in Seq(PostRow) /\ Len(fewer) = Len(posts)
  BY <1>2, <1>3, <1>4
<1> HIDE DEF fewer
<1>6. Standing(fewer) = Standing(posts) \ {i}
  BY <1>1, <1>2, <1>3 DEF Standing
<1> QED BY <1>5, <1>6 DEF fewer

\* Locking a post, or showing another version in it, neither adds nor removes one.
SamePosts(posts, other) ==
  other \in Seq(PostRow) /\ Len(other) = Len(posts) /\ Standing(other) = Standing(posts)

LEMMA PostChanged ==
  ASSUME NEW posts \in Seq(PostRow), NEW i, NEW row \in PostRow,
         i \in DOMAIN posts => row.deleted = posts[i].deleted
  PROVE  SamePosts(posts, [posts EXCEPT ![i] = row])
<1> DEFINE other == [posts EXCEPT ![i] = row]
<1>1. DOMAIN posts = 1..Len(posts) /\ \A j \in DOMAIN posts : posts[j] \in PostRow
  OBVIOUS
<1>2. /\ DOMAIN other = DOMAIN posts
      /\ \A j \in DOMAIN posts : other[j] = IF j = i THEN row ELSE posts[j]
  OBVIOUS
<1>3. other \in [1..Len(posts) -> PostRow]
  BY <1>1, <1>2
<1>4. other \in Seq(PostRow) /\ Len(other) = Len(posts)
  BY <1>1, <1>2, <1>3
<1> HIDE DEF other
<1>5. Standing(other) = Standing(posts)
  BY <1>1, <1>2 DEF Standing
<1> QED BY <1>4, <1>5 DEF other, SamePosts

LEMMA PostLocked ==
  ASSUME NEW posts \in Seq(PostRow), NEW i
  PROVE  SamePosts(posts, [posts EXCEPT ![i].locked = TRUE])
<1> DEFINE row == [posts[i] EXCEPT !.locked = TRUE]
<1>1. CASE i \in DOMAIN posts
  <2>1. posts[i] \in PostRow
    BY <1>1
  <2>2. row \in PostRow /\ row.deleted = posts[i].deleted
    BY <2>1 DEF PostRow
  <2>3. [posts EXCEPT ![i].locked = TRUE] = [posts EXCEPT ![i] = row]
    OBVIOUS
  <2> QED BY <2>2, <2>3, PostChanged
<1>2. CASE i \notin DOMAIN posts
  <2>1. [posts EXCEPT ![i].locked = TRUE] = posts
    BY <1>2
  <2> QED BY <2>1 DEF SamePosts
<1> QED BY <1>1, <1>2

LEMMA PostShown ==
  ASSUME NEW posts \in Seq(PostRow), NEW i, NEW version \in Nat
  PROVE  SamePosts(posts, [posts EXCEPT ![i].shows = version])
<1> DEFINE row == [posts[i] EXCEPT !.shows = version]
<1>1. CASE i \in DOMAIN posts
  <2>1. posts[i] \in PostRow
    BY <1>1
  <2>2. row \in PostRow /\ row.deleted = posts[i].deleted
    BY <2>1 DEF PostRow
  <2>3. [posts EXCEPT ![i].shows = version] = [posts EXCEPT ![i] = row]
    OBVIOUS
  <2> QED BY <2>2, <2>3, PostChanged
<1>2. CASE i \notin DOMAIN posts
  <2>1. [posts EXCEPT ![i].shows = version] = posts
    BY <1>2
  <2> QED BY <2>1 DEF SamePosts
<1> QED BY <1>1, <1>2

LEMMA AtMostOne ==
  ASSUME NEW S, NEW x, S \subseteq {x}
  PROVE  Cardinality(S) <= 1
<1>1. IsFiniteSet({x}) /\ Cardinality({x}) = 1
  BY FS_Singleton
<1> QED BY <1>1, FS_Subset

\* Where the poller is after Goes, Enters and Reads.
LEMMA PollerGoes ==
  ASSUME PollerOK, NEW to, Goes(to)
  PROVE  /\ DOMAIN poller' = DOMAIN Asleep /\ poller'.at = to
         /\ poller'.queue = poller.queue /\ poller'.todo = poller.todo
         /\ poller'.item = poller.item /\ poller'.then = poller.then
         /\ poller'.read = poller.read /\ poller'.blocked = poller.blocked
BY DEF PollerOK, Goes, Asleep

LEMMA PollerEnters ==
  ASSUME NEW to, Enters(to)
  PROVE  /\ DOMAIN poller' = DOMAIN Asleep /\ poller'.at = to
         /\ poller'.queue = {} /\ poller'.todo = {} /\ poller'.item = 0
         /\ poller'.then = "idle" /\ poller'.read = <<>> /\ poller'.blocked = FALSE
BY DEF Enters, Asleep

LEMMA PollerReads ==
  ASSUME PollerOK, NEW to, NEW row, Reads(to, row)
  PROVE  /\ DOMAIN poller' = DOMAIN Asleep /\ poller'.at = to
         /\ poller'.queue = poller.queue /\ poller'.todo = poller.todo
         /\ poller'.item = poller.item /\ poller'.then = poller.then
         /\ poller'.read = row /\ poller'.blocked = poller.blocked
BY DEF PollerOK, Reads, Asleep

LEMMA ZeroInRange ==
  ASSUME NEW n \in Nat
  PROVE  0 \in 0..n
OBVIOUS

LEMMA AtLeastItself == \A n \in Nat : n >= n
OBVIOUS

LEMMA ZeroOrOne == \A n \in Nat : n <= 0 \/ n <= 1 => n <= 1
OBVIOUS

LEMMA AtMostOneIsNotMore ==
  ASSUME NEW n \in Nat, n <= 1
  PROVE  ~(n > 1)
OBVIOUS

LEMMA LenIsNat ==
  ASSUME NEW posts \in Seq(PostRow)
  PROVE  Len(posts) \in Nat
OBVIOUS

LEMMA InitIsSound == Init => IInv
<1> SUFFICES ASSUME Init PROVE IInv
  OBVIOUS
<1>1. Standing(<<>>) = {}
  BY DEF Standing
<1>2. PollerOK
  BY DEF Init, PollerOK, Asleep, At
<1>3. VodTypes /\ VodOK
  BY <1>1 DEF Init, VodTypes, VodOK, Asleep
<1>4. MemoryTypes /\ GiveawayTypes /\ MessagesOK /\ ResultsOK
  BY FeedsAssumption DEF Init, MemoryTypes, GiveawayTypes, MessagesOK, ResultsOK, Asleep,
                         FeedsAssumption, NoMessage
<1>5. /\ split.version = 0 /\ split.thread = 0 /\ split.summary = 0 /\ split.posts = <<>>
      /\ split.final = FALSE /\ split.archived = FALSE /\ split.linked \in BOOLEAN
      /\ DOMAIN split = {"version", "final", "archived", "linked", "thread", "summary", "posts"}
      /\ memory.splitCursor = 0
  BY DEF Init, NoMessage
<1>6. split \in [version : Nat, final : BOOLEAN, archived : BOOLEAN, linked : BOOLEAN,
                thread : Nat, summary : Nat, posts : Seq(PostRow)]
  <2>1. <<>> \in Seq(PostRow) /\ 0 \in Nat /\ FALSE \in BOOLEAN
    OBVIOUS
  <2>2. /\ split \in [version : {0}, final : {FALSE}, archived : {FALSE}, linked : BOOLEAN,
                       thread : {0}, summary : {0}, posts : {<<>>}]
    BY DEF Init, NoMessage
  <2> HIDE DEF PostRow
  <2>3. {<<>>} \subseteq Seq(PostRow) /\ {0} \subseteq Nat /\ {FALSE} \subseteq BOOLEAN
    BY <2>1
  <2> QED BY <2>2, <2>3
<1>7. SplitTypes
  BY <1>5, <1>6 DEF SplitTypes
<1>8. SplitOK
  BY <1>1, <1>5 DEF Init, SplitOK, Asleep, SplitAt, HoldsRow
<1> QED BY <1>2, <1>3, <1>4, <1>7, <1>8 DEF IInv

----------------------------------------------------------------------------
(* A step of another feed, or of nobody, leaves a feed's part of the       *)
(* invariant alone.                                                        *)

LEMMA PollerMoves ==
  ASSUME PollerOK, NEW to \in At \ {"give send", "give cursor", "give acks"},
         \/ Goes(to) \/ Enters(to) \/ \E row : Reads(to, row)
  PROVE  PollerOK' /\ poller'.at = to
<1>1. CASE Goes(to)
  BY <1>1, PollerGoes DEF PollerOK
<1>2. CASE Enters(to)
  BY <1>2, PollerEnters DEF PollerOK
<1>3. CASE \E row : Reads(to, row)
  BY <1>3, PollerReads DEF PollerOK
<1> QED BY <1>1, <1>2, <1>3

VodHot == {"vod remove", "vod confirm", "vod post", "vod record"}
LEMMA VodElsewhere ==
  ASSUME VodTypes, VodOK, vod' = vod, history \subseteq history',
         poller' = poller \/ poller'.at \notin VodHot
  PROVE  VodTypes' /\ VodOK'
<1>1. VodTypes'
  BY DEF VodTypes
<1>2. VodOK'
  BY DEF VodOK, VodHot
<1> QED BY <1>1, <1>2

GiveHot == {"give send", "result next", "result edit", "result winner"}
LEMMA GiveElsewhere ==
  ASSUME GiveawayTypes, MessagesOK, ResultsOK, giveaway' = giveaway, history \subseteq history',
         memory'.posted = memory.posted, memory'.unacked = memory.unacked,
         poller' = poller \/ poller'.at \notin GiveHot
  PROVE  GiveawayTypes' /\ MessagesOK' /\ ResultsOK'
<1>1. GiveawayTypes'
  BY DEF GiveawayTypes
<1>2. MessagesOK'
  BY DEF MessagesOK
<1>3. ResultsOK'
  BY DEF ResultsOK, GiveHot
<1> QED BY <1>1, <1>2, <1>3

LEMMA SplitElsewhere ==
  ASSUME SplitTypes, SplitOK, split' = split, history \subseteq history',
         memory'.splitCursor = memory.splitCursor,
         \/ poller' = poller
         \/ /\ poller'.at \in SplitAt => poller'.at = "split retry" /\ poller'.item = 0
            /\ poller.at = "split thread id" => "post lost" \in history'
  PROVE  SplitTypes' /\ SplitOK'
<1>1. SplitTypes'
  BY DEF SplitTypes
<1>2. CASE poller' = poller
  BY <1>1, <1>2 DEF SplitOK
<1>3. CASE poller' # poller
  <2>1. /\ poller'.at \notin HoldsRow
        /\ poller'.at \in SplitAt => poller'.item = 0
        /\ poller.at = "split thread id" => "post lost" \in history'
    BY <1>3 DEF SplitAt, HoldsRow
  <2>2. split.version \in Nat
    BY DEF SplitTypes
  <2>3. \/ "post lost" \in history'
        \/ Standing(split.posts) \subseteq {split.thread}
    BY <2>1 DEF SplitOK
  <2>4. poller'.at \in SplitAt => poller'.item \in 0..split.version
    <3>1. 0 \in 0..split.version
      BY <2>2, ZeroInRange
    <3> QED BY <2>1, <3>1
  <2>5. poller'.at # "split create" /\ poller'.at # "split thread id"
    BY <2>1 DEF HoldsRow
  <2>6. SplitOK'
    BY <2>1, <2>3, <2>4, <2>5 DEF SplitOK, SplitAt, HoldsRow
  <2> QED BY <1>1, <2>6
<1> QED BY <1>2, <1>3

----------------------------------------------------------------------------
(* The steps on VOD posts.                                                 *)

VodResult == /\ PollerOK' /\ VodTypes' /\ VodOK'
             /\ poller.at \in VodAt /\ poller'.at \in VodAt \cup {"give ack"}

LEMMA VodWithPosts ==
  ASSUME VodTypes, NEW posts \in Seq(PostRow), Len(posts) >= Len(vod.posts),
         vod' = [vod EXCEPT !.posts = posts]
  PROVE  /\ VodTypes' /\ vod'.posts = posts /\ vod'.status = vod.status
         /\ vod'.thread = vod.thread /\ vod'.archived = vod.archived
<1>1. vod.posts \in Seq(PostRow)
  BY DEF VodTypes
<1>2. Len(vod.posts) \in Nat /\ Len(posts) \in Nat
  BY <1>1
<1>3. /\ vod'.posts = posts /\ vod'.status = vod.status
      /\ vod'.thread = vod.thread /\ vod'.archived = vod.archived
  BY DEF VodTypes
<1>4. VodTypes'
  BY <1>2, <1>3 DEF VodTypes
<1> QED BY <1>3, <1>4

LEMMA VodPosted ==
  ASSUME VodTypes, Standing(vod.posts) = {},
         vod' = [vod EXCEPT !.posts = Append(vod.posts, NewPost(0))]
  PROVE  /\ VodTypes' /\ vod'.status = vod.status
         /\ vod'.thread = vod.thread /\ vod'.archived = vod.archived
         /\ Standing(vod'.posts) = {Len(vod'.posts)} /\ Len(vod'.posts) # 0
<1> DEFINE more == Append(vod.posts, NewPost(0))
<1>1. vod.posts \in Seq(PostRow)
  BY DEF VodTypes
<1>2. /\ more \in Seq(PostRow) /\ Len(more) = Len(vod.posts) + 1
      /\ Standing(more) = Standing(vod.posts) \cup {Len(vod.posts) + 1}
  BY <1>1, PostAdded
<1>3. Len(vod.posts) \in Nat
  BY <1>1
<1> HIDE DEF more
<1>4. vod' = [vod EXCEPT !.posts = more]
  BY DEF more
<1>5. /\ VodTypes' /\ vod'.posts = more /\ vod'.status = vod.status
      /\ vod'.thread = vod.thread /\ vod'.archived = vod.archived
  BY <1>2, <1>3, <1>4, VodWithPosts
<1>6. Len(more) # 0 /\ Standing(more) = {Len(more)}
  BY <1>2, <1>3
<1> QED BY <1>5, <1>6

LEMMA ListArchivedVodsKeeps ==
  ASSUME IInv, ListArchivedVods
  PROVE  VodResult
<1> USE DEF IInv, ListArchivedVods
<1>1. VodTypes' /\ poller.at \in VodAt
  BY DEF VodTypes, VodAt
<1>2. CASE vod.archived /\ vod.status = "created" /\ vod.thread # 0
  <2>1. Reads("vod remove", Row(vod))
    BY <1>2
  <2>2. PollerOK' /\ poller'.at = "vod remove"
    BY <2>1, PollerMoves DEF At, VodAt
  <2>3. poller'.read = Row(vod)
    BY <2>1, PollerReads
  <2>4. Row(vod).thread = vod.thread
    BY DEF Row, VodTypes
  <2>5. VodOK'
    BY <1>2, <2>2, <2>3, <2>4 DEF VodOK
  <2> QED BY <1>1, <2>2, <2>5 DEF VodResult, VodAt
<1>3. CASE ~(vod.archived /\ vod.status = "created" /\ vod.thread # 0)
  <2>1. PollerOK' /\ poller'.at = "vod create"
    BY <1>3, PollerMoves DEF At, VodAt
  <2>2. VodOK'
    BY <2>1, VodElsewhere DEF VodHot
  <2> QED BY <1>1, <2>1, <2>2 DEF VodResult, VodAt
<1> QED BY <1>2, <1>3

LEMMA RemoveVodKeeps ==
  ASSUME IInv, RemoveVod
  PROVE  VodResult
<1> DEFINE fewer == [vod.posts EXCEPT ![poller.read.thread].deleted = TRUE]
<1>1. /\ PollerOK' /\ poller'.at = "vod confirm" /\ poller'.read = poller.read
      /\ poller.at = "vod remove"
  BY PollerMoves, PollerGoes DEF At, VodAt, IInv, RemoveVod
<1>2. VodTypes /\ VodOK /\ vod.posts \in Seq(PostRow)
  BY DEF IInv, VodTypes
<1>3. /\ fewer \in Seq(PostRow) /\ Len(fewer) = Len(vod.posts)
      /\ Standing(fewer) = Standing(vod.posts) \ {poller.read.thread}
  BY <1>2, PostRemoved
<1>4. poller.read.thread = vod.thread
  BY <1>1, <1>2 DEF VodOK
<1>5. Len(fewer) >= Len(vod.posts)
  BY <1>2, <1>3
<1>6. vod' = [vod EXCEPT !.posts = fewer] /\ history' = history
  BY DEF RemoveVod
<1> HIDE DEF fewer
<1>7. /\ VodTypes' /\ vod'.posts = fewer /\ vod'.status = vod.status
      /\ vod'.thread = vod.thread /\ vod'.archived = vod.archived
  BY <1>2, <1>3, <1>5, <1>6, VodWithPosts
<1>8. VodOK'
  BY <1>1, <1>2, <1>3, <1>4, <1>6, <1>7 DEF VodOK
<1> QED BY <1>1, <1>7, <1>8 DEF VodResult, VodAt

LEMMA ConfirmVodRemovedKeeps ==
  ASSUME IInv, ConfirmVodRemoved
  PROVE  VodResult
<1> USE DEF IInv, ConfirmVodRemoved
<1>1. PollerOK' /\ poller'.at = "vod create"
  BY PollerMoves DEF At, VodAt
<1>2. VodTypes'
  BY DEF VodTypes
<1>3. VodOK'
  BY <1>1 DEF VodOK, VodTypes
<1> QED BY <1>1, <1>2, <1>3 DEF VodResult, VodAt

LEMMA ClaimVodKeeps ==
  ASSUME IInv, ClaimVod
  PROVE  VodResult
<1> USE DEF IInv, ClaimVod
<1>1. PollerOK' /\ poller'.at \in {"vod post", "give ack"}
  BY PollerMoves DEF At, VodAt, GiveAt
<1>2. VodTypes'
  BY DEF VodTypes
<1>3. CASE vod.status = "pending" /\ Eligible
  <2>1. poller'.at = "vod post" /\ vod' = [vod EXCEPT !.status = "attempted"]
    BY <1>3, PollerGoes
  <2> QED BY <1>1, <1>2, <1>3, <2>1 DEF VodOK, VodTypes, VodResult, VodAt
<1>4. CASE ~(vod.status = "pending" /\ Eligible)
  <2>1. poller'.at = "give ack" /\ vod' = vod
    BY <1>4, PollerEnters
  <2> QED BY <1>1, <1>2, <2>1, VodElsewhere DEF VodHot, VodResult, VodAt
<1> QED BY <1>3, <1>4

LEMMA PostVodKeeps ==
  ASSUME IInv, PostVod
  PROVE  VodResult
<1>1. PollerOK' /\ poller'.at = "vod record" /\ poller.at = "vod post"
  BY PollerMoves DEF At, VodAt, IInv, PostVod
<1>2. VodTypes /\ vod.status = "attempted" /\ Standing(vod.posts) = {}
  BY <1>1 DEF IInv, VodOK
<1>3. /\ VodTypes' /\ vod'.status = vod.status
      /\ Standing(vod'.posts) = {Len(vod'.posts)} /\ Len(vod'.posts) # 0
  BY <1>2, VodPosted DEF PostVod
<1>4. VodOK'
  BY <1>1, <1>2, <1>3 DEF VodOK
<1> QED BY <1>1, <1>3, <1>4 DEF VodResult, VodAt

LEMMA RecordVodKeeps ==
  ASSUME IInv, RecordVod
  PROVE  VodResult
<1> DEFINE n == Len(vod.posts)
<1>1. PollerOK' /\ poller'.at = "give ack" /\ poller.at = "vod record"
  BY PollerMoves DEF At, GiveAt, IInv, RecordVod
<1>2. VodTypes /\ vod.posts \in Seq(PostRow)
  BY DEF IInv, VodTypes
<1>3. n \in Nat
  BY <1>2
<1>4. vod.status = "attempted" /\ Standing(vod.posts) = {n} /\ n # 0
  BY <1>1 DEF IInv, VodOK
<1>5. vod' = [vod EXCEPT !.status = "created", !.thread = n]
  BY <1>4 DEF RecordVod
<1> HIDE DEF n
<1>6. /\ vod'.status = "created" /\ vod'.thread = n /\ vod'.posts = vod.posts
      /\ vod'.archived = vod.archived
  BY <1>2, <1>5 DEF VodTypes
<1>7. VodTypes'
  <2>1. n = Len(vod'.posts)
    BY <1>6 DEF n
  <2>2. vod' \in [status : {"none", "pending", "attempted", "created", "deleted"},
                  thread : Nat, archived : BOOLEAN, posts : Seq(PostRow)]
    BY <1>2, <1>3, <1>5 DEF VodTypes
  <2>3. vod'.thread \in 0..Len(vod'.posts)
    BY <1>3, <1>6, <2>1
  <2> QED BY <2>2, <2>3 DEF VodTypes
<1>8. VodOK'
  BY <1>1, <1>4, <1>6 DEF VodOK
<1> QED BY <1>1, <1>7, <1>8 DEF VodResult, VodAt

LEMMA VodAnswerLostKeeps ==
  ASSUME IInv, VodAnswerLost
  PROVE  VodResult
<1> USE DEF IInv, VodAnswerLost
<1>1. PollerOK' /\ poller'.at = "give ack"
  BY PollerMoves DEF At, GiveAt
<1>2. CASE vod.status = "pending" /\ vod' = [vod EXCEPT !.status = "attempted"]
           /\ poller.at = "vod claim"
  <2>1. VodTypes'
    BY <1>2 DEF VodTypes
  <2> QED BY <1>1, <1>2, <2>1 DEF VodOK, VodTypes, VodResult, VodAt
<1>3. CASE poller.at = "vod post" /\ vod' = [vod EXCEPT !.posts = Append(@, NewPost(0))]
  <2>1. VodTypes /\ vod.status = "attempted" /\ Standing(vod.posts) = {}
    BY <1>3 DEF VodOK
  <2>2. /\ VodTypes' /\ vod'.status = vod.status
        /\ Standing(vod'.posts) = {Len(vod'.posts)} /\ Len(vod'.posts) # 0
    BY <1>3, <2>1, VodPosted
  <2>3. VodOK'
    BY <1>1, <2>1, <2>2 DEF VodOK
  <2> QED BY <1>1, <1>3, <2>2, <2>3 DEF VodResult, VodAt
<1> QED BY <1>2, <1>3

LEMMA VodsResult ==
  ASSUME IInv, Vods
  PROVE  VodResult
<1>1. CASE VodRemovalFails
  <2>1. PollerOK' /\ poller'.at = "vod create"
    BY <1>1, PollerMoves DEF IInv, VodRemovalFails, At, VodAt
  <2>2. VodTypes' /\ VodOK'
    BY <1>1, <2>1, VodElsewhere DEF IInv, VodRemovalFails, VodHot
  <2> QED BY <1>1, <2>1, <2>2 DEF VodRemovalFails, VodResult, VodAt
<1>2. CASE ListPendingVods
  <2>1. poller.at = "vod create" /\ vod' = vod /\ history' = history
    BY <1>2 DEF ListPendingVods
  <2>2. PollerOK' /\ poller'.at \in {"vod claim", "give ack"}
    BY <1>2, PollerMoves DEF IInv, ListPendingVods, At, VodAt, GiveAt
  <2>3. VodTypes' /\ VodOK'
    BY <2>1, <2>2, VodElsewhere DEF IInv, VodHot
  <2> QED BY <2>1, <2>2, <2>3 DEF VodResult, VodAt
<1>3. CASE VodFails
  <2>1. PollerOK' /\ poller'.at = "give ack"
    BY <1>3, PollerMoves DEF IInv, VodFails, At, GiveAt
  <2>2. VodTypes' /\ VodOK'
    BY <1>3, <2>1, VodElsewhere DEF IInv, VodFails, VodHot
  <2> QED BY <1>3, <2>1, <2>2 DEF VodFails, VodResult, VodAt
<1> QED
  BY <1>1, <1>2, <1>3, ListArchivedVodsKeeps, RemoveVodKeeps, ConfirmVodRemovedKeeps,
     ClaimVodKeeps, PostVodKeeps, RecordVodKeeps, VodAnswerLostKeeps DEF Vods

LEMMA VodsKeep ==
  ASSUME IInv, Vods
  PROVE  IInv'
<1>1. VodResult
  BY VodsResult
<1>2. giveaway' = giveaway /\ split' = split /\ memory' = memory /\ history' = history
  BY DEF Vods, ListArchivedVods, RemoveVod, ConfirmVodRemoved, VodRemovalFails, ListPendingVods,
         ClaimVod, PostVod, RecordVod, VodFails, VodAnswerLost
<1>3. MemoryTypes'
  BY <1>2 DEF IInv, MemoryTypes
<1>4. GiveawayTypes' /\ MessagesOK' /\ ResultsOK'
  BY <1>1, <1>2, GiveElsewhere DEF IInv, VodResult, VodAt, GiveHot
<1>5. SplitTypes' /\ SplitOK'
  BY <1>1, <1>2, SplitElsewhere DEF IInv, VodResult, VodAt, SplitAt
<1> QED BY <1>1, <1>3, <1>4, <1>5 DEF VodResult, IInv

----------------------------------------------------------------------------
(* The steps on giveaways.                                                 *)

GiveResult ==
  /\ PollerOK' /\ MemoryTypes' /\ GiveawayTypes' /\ MessagesOK' /\ ResultsOK'
  /\ poller.at \in GiveAt \cup ResultAt
  /\ \/ poller'.at \in GiveAt \cup ResultAt
     \/ poller'.at = "split retry" /\ poller'.item = 0

\* Steps that change neither the giveaways nor the memory.
LEMMA GiveQuietKeeps ==
  ASSUME IInv, giveaway' = giveaway, memory' = memory, history \subseteq history', PollerOK',
         poller'.at \notin GiveHot
  PROVE  MemoryTypes' /\ GiveawayTypes' /\ MessagesOK' /\ ResultsOK'
<1>1. MemoryTypes'
  BY DEF IInv, MemoryTypes
<1> QED BY <1>1, GiveElsewhere DEF IInv

LEMMA AcksKeep ==
  ASSUME IInv, BeginGiveaways \/ AckFails \/ EndAcks
  PROVE  GiveResult
<1> USE DEF IInv
<1>1. giveaway' = giveaway /\ memory' = memory /\ history' = history
  BY DEF BeginGiveaways, AckFails, EndAcks
<1>2. CASE BeginGiveaways
  <2>1. PollerOK' /\ poller'.at = "give acks"
    BY <1>2 DEF BeginGiveaways, PollerOK, Asleep, Unacked, At, GiveAt
  <2> QED BY <1>1, <1>2, <2>1, GiveQuietKeeps DEF BeginGiveaways, GiveResult, GiveAt, GiveHot
<1>3. CASE AckFails
  <2>1. PollerOK' /\ poller'.at = "give acks"
    BY <1>3 DEF AckFails, PollerOK, Asleep
  <2> QED BY <1>1, <1>3, <2>1, GiveQuietKeeps DEF AckFails, GiveResult, GiveAt, GiveHot
<1>4. CASE EndAcks
  <2>1. PollerOK' /\ poller'.at \in {"give list", "give cursor"}
    BY <1>4, PollerGoes DEF EndAcks, PollerOK, At, GiveAt
  <2> QED BY <1>1, <1>4, <2>1, GiveQuietKeeps DEF EndAcks, GiveResult, GiveAt, GiveHot
<1> QED BY <1>2, <1>3, <1>4

LEMMA AckGiveawayKeeps ==
  ASSUME IInv, AckGiveaway
  PROVE  GiveResult
<1> DEFINE g == First(poller.todo)
<1>1. g \in Giveaway
  BY FirstIsIn DEF AckGiveaway, IInv, PollerOK
<1>2. /\ giveaway' = [giveaway EXCEPT ![g].message = memory.unacked[g]]
      /\ memory' = [memory EXCEPT !.unacked[g] = NoMessage]
      /\ poller' = [poller EXCEPT !.todo = @ \ {g}]
      /\ poller.at = "give acks" /\ history' = history
  BY DEF AckGiveaway
<1> HIDE DEF g
<1>3. PollerOK' /\ poller'.at = "give acks"
  BY <1>2 DEF IInv, PollerOK, Asleep
<1>4. MemoryTypes /\ GiveawayTypes /\ MessagesOK
  BY DEF IInv
<1>5. MemoryTypes'
  BY <1>2, <1>4 DEF MemoryTypes, NoMessage
<1>6. memory.unacked[g] \in Nat
  BY <1>1, <1>4 DEF MemoryTypes
<1>7. GiveawayTypes'
  BY <1>1, <1>2, <1>4, <1>6 DEF GiveawayTypes
<1>8. \A h \in Giveaway :
        /\ giveaway'[h].sent = giveaway[h].sent
        /\ giveaway'[h].message = IF h = g THEN memory.unacked[g] ELSE giveaway[h].message
        /\ memory'.unacked[h] = IF h = g THEN 0 ELSE memory.unacked[h]
  BY <1>1, <1>2, <1>4 DEF GiveawayTypes, MemoryTypes, NoMessage
<1>9. memory'.posted = memory.posted
  BY <1>2, <1>4 DEF MemoryTypes
<1>10. \A h \in Giveaway : giveaway[h].sent \in Nat
  BY <1>4 DEF GiveawayTypes
<1>11. MessagesOK'
  <2>1. ASSUME NEW h \in Giveaway
        PROVE  {giveaway'[h].message, memory'.unacked[h]} \subseteq 0..giveaway'[h].sent
    <3>1. {giveaway[h].message, memory.unacked[h]} \subseteq 0..giveaway[h].sent
      BY <1>4 DEF MessagesOK
    <3>2. 0 \in 0..giveaway[h].sent
      BY <1>10
    <3> QED BY <1>8, <3>1, <3>2
  <2>2. \/ "message lost" \in history'
        \/ \A h \in Giveaway : giveaway'[h].sent <= (IF h \in memory'.posted THEN 1 ELSE 0)
    BY <1>2, <1>4, <1>8, <1>9 DEF MessagesOK
  <2> QED BY <2>1, <2>2 DEF MessagesOK
<1>12. ResultsOK'
  BY <1>3 DEF ResultsOK
<1> QED BY <1>2, <1>3, <1>5, <1>7, <1>11, <1>12 DEF GiveResult, GiveAt

\* What is sent: one more of g, and nothing else.
LEMMA OneMoreSent ==
  ASSUME GiveawayTypes, NEW g \in Giveaway, giveaway' = [giveaway EXCEPT ![g].sent = @ + 1]
  PROVE  /\ GiveawayTypes'
         /\ \A h \in Giveaway :
              /\ giveaway[h].sent \in Nat /\ giveaway'[h].message = giveaway[h].message
              /\ giveaway'[h].sent = IF h = g THEN giveaway[h].sent + 1 ELSE giveaway[h].sent
<1>1. \A h \in Giveaway : giveaway[h].sent \in Nat
  BY DEF GiveawayTypes
<1>2. GiveawayTypes'
  BY <1>1 DEF GiveawayTypes
<1>3. \A h \in Giveaway :
        /\ giveaway'[h].message = giveaway[h].message
        /\ giveaway'[h].sent = IF h = g THEN giveaway[h].sent + 1 ELSE giveaway[h].sent
  BY DEF GiveawayTypes
<1> QED BY <1>1, <1>2, <1>3

LEMMA InRange ==
  ASSUME NEW n \in Nat, NEW i \in 0..n
  PROVE  i \in Nat
OBVIOUS

LEMMA WiderRange ==
  ASSUME NEW m \in Nat, NEW n \in Nat, m <= n
  PROVE  0..m \subseteq 0..n
OBVIOUS

LEMMA SendGiveawayKeeps ==
  ASSUME IInv, SendGiveaway
  PROVE  GiveResult
<1> DEFINE g == poller.item
<1>1. /\ poller.at = "give send" /\ history' = history
      /\ giveaway' = [giveaway EXCEPT ![g].sent = @ + 1]
      /\ memory' = [memory EXCEPT !.posted = @ \cup {g}, !.unacked[g] = giveaway[g].sent + 1]
      /\ poller' = [poller EXCEPT !.at = "give acks", !.todo = Unacked', !.then = "give cursor"]
  BY DEF SendGiveaway, StartAcks
<1>2. PollerOK /\ MemoryTypes /\ GiveawayTypes /\ MessagesOK /\ ResultsOK
  BY DEF IInv
<1>3. g \in Giveaway /\ g \notin memory.posted
  BY <1>1, <1>2 DEF PollerOK, ResultsOK
<1>4. PollerOK' /\ poller'.at = "give acks"
  <2>1. Unacked' \subseteq Giveaway
    BY DEF Unacked
  <2> QED BY <1>1, <1>2, <1>3, <2>1 DEF PollerOK, Asleep, At, GiveAt
<1> HIDE DEF g
<1>5. /\ GiveawayTypes'
      /\ \A h \in Giveaway :
           /\ giveaway[h].sent \in Nat /\ giveaway'[h].message = giveaway[h].message
           /\ giveaway'[h].sent = IF h = g THEN giveaway[h].sent + 1 ELSE giveaway[h].sent
  BY <1>1, <1>2, <1>3, OneMoreSent
<1>6. giveaway[g].sent + 1 \in Nat
  BY <1>3, <1>5
<1>7. /\ memory'.posted = memory.posted \cup {g}
      /\ \A h \in Giveaway :
           memory'.unacked[h] = IF h = g THEN giveaway[h].sent + 1 ELSE memory.unacked[h]
  BY <1>1, <1>2, <1>3 DEF MemoryTypes
<1>8. MemoryTypes'
  BY <1>1, <1>2, <1>3, <1>6 DEF MemoryTypes
<1>9. MessagesOK'
  <2>1. ASSUME NEW h \in Giveaway
        PROVE  {giveaway'[h].message, memory'.unacked[h]} \subseteq 0..giveaway'[h].sent
    <3>1. {giveaway[h].message, memory.unacked[h]} \subseteq 0..giveaway[h].sent
      BY <1>2 DEF MessagesOK
    <3>2. giveaway[h].sent \in Nat /\ giveaway'[h].sent \in Nat
          /\ giveaway[h].sent <= giveaway'[h].sent
      BY <1>5
    <3>3. 0..giveaway[h].sent \subseteq 0..giveaway'[h].sent
      BY <3>2, WiderRange
    <3>4. h = g => memory'.unacked[h] \in 0..giveaway'[h].sent
      BY <1>5, <1>7
    <3> QED BY <1>5, <1>7, <3>1, <3>3, <3>4
  <2>2. \/ "message lost" \in history'
        \/ \A h \in Giveaway : giveaway'[h].sent <= (IF h \in memory'.posted THEN 1 ELSE 0)
    <3>1. \/ "message lost" \in history'
          \/ \A h \in Giveaway : giveaway[h].sent <= (IF h \in memory.posted THEN 1 ELSE 0)
      BY <1>1, <1>2 DEF MessagesOK
    <3>2. ASSUME NEW h \in Giveaway, giveaway[h].sent <= (IF h \in memory.posted THEN 1 ELSE 0)
          PROVE  giveaway'[h].sent <= (IF h \in memory'.posted THEN 1 ELSE 0)
      <4>1. CASE h = g
        BY <1>3, <1>5, <1>7, <3>2, <4>1
      <4>2. CASE h # g
        BY <1>3, <1>5, <1>7, <3>2, <4>2
      <4> QED BY <4>1, <4>2
    <3> QED BY <3>1, <3>2
  <2> QED BY <2>1, <2>2 DEF MessagesOK
<1>10. ResultsOK'
  BY <1>4 DEF ResultsOK
<1> QED BY <1>1, <1>4, <1>5, <1>8, <1>9, <1>10 DEF GiveResult, GiveAt

LEMMA SendGiveawayLostKeeps ==
  ASSUME IInv, SendGiveawayLost
  PROVE  GiveResult
<1> DEFINE g == poller.item
<1>1. /\ poller.at = "give send" /\ "message lost" \in history' /\ memory' = memory
      /\ giveaway' = [giveaway EXCEPT ![g].sent = @ + 1]
      /\ poller' = [poller EXCEPT !.at = "give next", !.blocked = TRUE]
  BY DEF SendGiveawayLost, Mishap
<1>2. PollerOK /\ MemoryTypes /\ GiveawayTypes /\ MessagesOK
  BY DEF IInv
<1>3. g \in Giveaway
  BY <1>1, <1>2 DEF PollerOK
<1>4. PollerOK' /\ poller'.at = "give next"
  BY <1>1, <1>2 DEF PollerOK, Asleep, At, GiveAt
<1> HIDE DEF g
<1>5. /\ GiveawayTypes'
      /\ \A h \in Giveaway :
           /\ giveaway[h].sent \in Nat /\ giveaway'[h].message = giveaway[h].message
           /\ giveaway'[h].sent = IF h = g THEN giveaway[h].sent + 1 ELSE giveaway[h].sent
  BY <1>1, <1>2, <1>3, OneMoreSent
<1>6. MemoryTypes'
  BY <1>1, <1>2 DEF MemoryTypes
<1>7. MessagesOK'
  <2>1. ASSUME NEW h \in Giveaway
        PROVE  {giveaway'[h].message, memory'.unacked[h]} \subseteq 0..giveaway'[h].sent
    <3>1. {giveaway[h].message, memory.unacked[h]} \subseteq 0..giveaway[h].sent
      BY <1>2 DEF MessagesOK
    <3>2. giveaway[h].sent \in Nat /\ giveaway'[h].sent \in Nat
          /\ giveaway[h].sent <= giveaway'[h].sent
      BY <1>5
    <3>3. 0..giveaway[h].sent \subseteq 0..giveaway'[h].sent
      BY <3>2, WiderRange
    <3> QED BY <1>1, <1>5, <3>1, <3>3
  <2> QED BY <1>1, <2>1 DEF MessagesOK
<1>8. ResultsOK'
  BY <1>4 DEF ResultsOK
<1> QED BY <1>1, <1>4, <1>5, <1>6, <1>7, <1>8 DEF GiveResult, GiveAt

\* Steps on the giveaways themselves that send nothing and record nothing.
LEMMA MessagesStay ==
  ASSUME GiveawayTypes, MessagesOK, GiveawayTypes', history \subseteq history',
         memory'.posted = memory.posted, memory'.unacked = memory.unacked,
         \A g \in Giveaway : /\ giveaway'[g].sent = giveaway[g].sent
                             /\ giveaway'[g].message = giveaway[g].message
  PROVE  MessagesOK'
<1>1. \A g \in Giveaway :
        {giveaway'[g].message, memory'.unacked[g]} \subseteq 0..giveaway'[g].sent
  BY DEF MessagesOK
<1>2. \/ "message lost" \in history'
      \/ \A g \in Giveaway : giveaway'[g].sent <= (IF g \in memory'.posted THEN 1 ELSE 0)
  BY DEF MessagesOK
<1> QED BY <1>1, <1>2 DEF MessagesOK

LEMMA AnnounceKeeps ==
  ASSUME MemoryTypes, NEW g \in memory.posted, Announce(g)
  PROVE  /\ MemoryTypes'
         /\ memory'.posted = memory.posted /\ memory'.unacked = memory.unacked
         /\ memory'.splitCursor = memory.splitCursor
BY DEF MemoryTypes, Announce

LEMMA ListsKeep ==
  ASSUME IInv, ListGiveaways \/ ListGiveawaysFails \/ SendGiveawayFails \/ EndResults
  PROVE  GiveResult
<1>1. /\ giveaway' = giveaway /\ memory' = memory /\ history' = history
      /\ poller.at \in GiveAt \cup ResultAt
  BY DEF ListGiveaways, ListGiveawaysFails, SendGiveawayFails, EndResults, GiveAt, ResultAt
<1>2. PollerOK
  BY DEF IInv
<1>3. CASE ListGiveaways
  <2>1. PollerOK' /\ poller'.at = "give next"
    BY <1>2, <1>3 DEF ListGiveaways, PollerOK, Asleep, NewGiveaways, At, GiveAt
  <2> QED BY <1>1, <2>1, GiveQuietKeeps DEF GiveResult, GiveAt, GiveHot
<1>4. CASE ListGiveawaysFails
  <2>1. PollerOK' /\ poller'.at = "results"
    BY <1>2, <1>4, PollerMoves DEF ListGiveawaysFails, At, ResultAt
  <2> QED BY <1>1, <2>1, GiveQuietKeeps DEF GiveResult, ResultAt, GiveHot
<1>5. CASE SendGiveawayFails
  <2>1. PollerOK' /\ poller'.at = "give next"
    BY <1>2, <1>5 DEF SendGiveawayFails, PollerOK, Asleep, At, GiveAt
  <2> QED BY <1>1, <2>1, GiveQuietKeeps DEF GiveResult, GiveAt, GiveHot
<1>6. CASE EndResults
  <2>1. PollerOK' /\ poller'.at = "split retry" /\ poller'.item = 0
    BY <1>2, <1>6, PollerMoves, PollerEnters DEF EndResults, At, SplitAt
  <2> QED BY <1>1, <2>1, GiveQuietKeeps DEF GiveResult, GiveHot
<1> QED BY <1>3, <1>4, <1>5, <1>6

LEMMA NextGiveawayKeeps ==
  ASSUME IInv, NextGiveaway
  PROVE  GiveResult
<1>1. /\ giveaway' = giveaway /\ memory' = memory /\ history' = history
      /\ poller.at = "give next"
  BY DEF NextGiveaway
<1>2. PollerOK
  BY DEF IInv
<1>3. CASE poller.queue = {}
  <2>1. PollerOK' /\ poller'.at = "results"
    BY <1>2, <1>3, PollerMoves DEF NextGiveaway, At, ResultAt
  <2> QED BY <1>1, <2>1, GiveQuietKeeps DEF GiveResult, GiveAt, ResultAt, GiveHot
<1>4. CASE poller.queue # {}
  <2> DEFINE g == First(poller.queue)
  <2>1. g \in Giveaway
    BY <1>2, <1>4, FirstIsIn DEF PollerOK
  <2>2. poller' = [poller EXCEPT !.item = g, !.queue = @ \ {g},
                     !.at = IF g \in memory.posted THEN "give cursor" ELSE "give send"]
    BY <1>4 DEF NextGiveaway
  <2> HIDE DEF g
  <2>3. /\ PollerOK' /\ poller'.item = g
        /\ poller'.at = IF g \in memory.posted THEN "give cursor" ELSE "give send"
    BY <1>2, <2>1, <2>2 DEF PollerOK, Asleep, At, GiveAt
  <2>4. MemoryTypes' /\ GiveawayTypes' /\ MessagesOK'
    BY <1>1 DEF IInv, MemoryTypes, GiveawayTypes, MessagesOK
  <2>5. ResultsOK'
    BY <1>1, <2>3 DEF ResultsOK
  <2> QED BY <1>1, <2>3, <2>4, <2>5 DEF GiveResult, GiveAt
<1> QED BY <1>3, <1>4

LEMMA MoveCursorKeeps ==
  ASSUME IInv, MoveCursor
  PROVE  GiveResult
<1>1. PollerOK' /\ poller'.at = "give next" /\ poller.at = "give cursor"
  BY PollerMoves DEF IInv, MoveCursor, At, GiveAt
<1>2. giveaway' = giveaway /\ history' = history
  BY DEF MoveCursor
<1>3. poller.item \in Nat /\ MemoryTypes
  <2>1. poller.item \in Giveaway
    BY <1>1 DEF IInv, PollerOK
  <2> QED BY <2>1, GiveawaysAreNat DEF IInv
<1>4. /\ MemoryTypes' /\ memory'.posted = memory.posted /\ memory'.unacked = memory.unacked
  BY <1>3 DEF MoveCursor, MemoryTypes
<1>5. GiveawayTypes' /\ MessagesOK' /\ ResultsOK'
  BY <1>1, <1>2, <1>4, GiveElsewhere DEF IInv, GiveHot
<1> QED BY <1>1, <1>4, <1>5 DEF GiveResult, GiveAt

LEMMA BeginResultsKeeps ==
  ASSUME IInv, BeginResults
  PROVE  GiveResult
<1>1. /\ giveaway' = giveaway /\ memory' = memory /\ history' = history
      /\ poller.at = "results" /\ PollerOK /\ MemoryTypes
  BY DEF IInv, BeginResults
<1>2. poller'.at = "result next" /\ poller'.todo = memory.posted \ memory.announced
  BY <1>1 DEF BeginResults, PollerOK, Asleep
<1>3. PollerOK'
  BY <1>1 DEF BeginResults, PollerOK, MemoryTypes, Asleep, At, ResultAt
<1>4. MemoryTypes' /\ GiveawayTypes' /\ MessagesOK'
  BY <1>1 DEF IInv, MemoryTypes, GiveawayTypes, MessagesOK
<1>5. ResultsOK'
  BY <1>1, <1>2 DEF ResultsOK
<1> QED BY <1>1, <1>2, <1>3, <1>4, <1>5 DEF GiveResult, ResultAt

LEMMA ReadResultKeeps ==
  ASSUME IInv, ReadResult
  PROVE  GiveResult
<1> DEFINE g == First(poller.todo)
           closed == giveaway[g].is # "open"
           bare == closed /\ giveaway[g].message = NoMessage
<1>1. /\ poller.at = "result next" /\ giveaway' = giveaway
      /\ poller' = [poller EXCEPT !.todo = @ \ {g}, !.item = g, !.read = Row(giveaway[g]),
                      !.at = IF closed /\ ~bare THEN "result edit" ELSE @]
      /\ IF bare THEN Announce(g) /\ Mishap("drawn unrecorded")
         ELSE memory' = memory /\ history' = history
  BY DEF ReadResult
<1>2. PollerOK /\ MemoryTypes /\ GiveawayTypes /\ MessagesOK /\ ResultsOK
  BY DEF IInv
<1>3. g \in poller.todo /\ g \in Giveaway /\ poller.todo \subseteq memory.posted
  BY <1>1, <1>2, FirstIsIn DEF ReadResult, PollerOK, ResultsOK
<1> HIDE DEF g
<1>4. Row(giveaway[g]).message = giveaway[g].message /\ giveaway[g].message \in Nat
  BY <1>2, <1>3 DEF Row, GiveawayTypes
<1>5. /\ poller'.at \in {"result next", "result edit"} /\ poller'.item = g
      /\ poller'.todo \subseteq memory.posted /\ poller'.read.message \in Nat
  BY <1>1, <1>2, <1>3, <1>4 DEF PollerOK, Asleep
<1> HIDE DEF bare, closed
<1>6. PollerOK'
  BY <1>1, <1>2, <1>3 DEF PollerOK, Asleep, At, ResultAt
<1>7. /\ MemoryTypes' /\ history \subseteq history'
      /\ memory'.posted = memory.posted /\ memory'.unacked = memory.unacked
  <2>1. CASE bare
    BY <1>1, <1>2, <1>3, <2>1, AnnounceKeeps DEF Mishap
  <2>2. CASE ~bare
    BY <1>1, <1>2, <2>2 DEF MemoryTypes
  <2> QED BY <2>1, <2>2
<1>8. GiveawayTypes' /\ MessagesOK'
  BY <1>1, <1>2, <1>7, MessagesStay DEF GiveawayTypes
<1>9. ResultsOK'
  BY <1>3, <1>5, <1>7 DEF ResultsOK
<1> QED BY <1>1, <1>5, <1>6, <1>7, <1>8, <1>9 DEF GiveResult, ResultAt

\* The steps that end a giveaway's result, one way or another.
LEMMA ResultEnds ==
  ASSUME IInv, poller.at \in {"result edit", "result winner"}, Goes("result next"),
         Announce(poller.item), history \subseteq history', GiveawayTypes',
         \A g \in Giveaway : /\ giveaway'[g].sent = giveaway[g].sent
                             /\ giveaway'[g].message = giveaway[g].message
  PROVE  GiveResult
<1>1. PollerOK /\ MemoryTypes /\ GiveawayTypes /\ MessagesOK /\ ResultsOK
  BY DEF IInv
<1>2. PollerOK' /\ poller'.at = "result next" /\ poller'.todo = poller.todo
  BY <1>1, PollerMoves, PollerGoes DEF At, ResultAt
<1>3. poller.item \in memory.posted
  BY <1>1 DEF ResultsOK
<1>4. /\ MemoryTypes' /\ memory'.posted = memory.posted /\ memory'.unacked = memory.unacked
  BY <1>1, <1>3, AnnounceKeeps
<1>5. MessagesOK'
  BY <1>1, <1>4, MessagesStay
<1>6. ResultsOK'
  BY <1>1, <1>2, <1>4 DEF ResultsOK
<1> QED BY <1>2, <1>4, <1>5, <1>6 DEF GiveResult, ResultAt

LEMMA ResultsKeep ==
  ASSUME IInv, EditResult \/ ChannelUnreached \/ ResultFails \/ PostWinner \/ WinnerFails
  PROVE  GiveResult
<1>1. PollerOK /\ MemoryTypes /\ GiveawayTypes /\ MessagesOK /\ ResultsOK
  BY DEF IInv
<1>2. CASE EditResult
  <2> DEFINE g == poller.item
  <2>1. /\ poller.at = "result edit" /\ history' = history
        /\ giveaway' = [giveaway EXCEPT ![g].shown = @ \cup {poller.read.message}]
        /\ IF poller.read.is = "drawn" THEN Goes("result winner") /\ memory' = memory
           ELSE Goes("result next") /\ Announce(g)
    BY <1>2 DEF EditResult
  <2>2. g \in Giveaway /\ poller.read.message \in Nat
    BY <1>1, <2>1 DEF ResultsOK, MemoryTypes
  <2>3. /\ GiveawayTypes'
        /\ \A h \in Giveaway : /\ giveaway'[h].sent = giveaway[h].sent
                               /\ giveaway'[h].message = giveaway[h].message
    BY <1>1, <2>1, <2>2 DEF GiveawayTypes
  <2>4. CASE poller.read.is = "drawn"
    <3>1. /\ PollerOK' /\ poller'.at = "result winner" /\ memory' = memory
          /\ poller'.item = g /\ poller'.todo = poller.todo
      BY <1>1, <2>1, <2>4, PollerMoves, PollerGoes DEF At, ResultAt
    <3>2. MemoryTypes'
      BY <1>1, <3>1 DEF MemoryTypes
    <3>3. MessagesOK'
      BY <1>1, <2>1, <2>3, <3>1, MessagesStay
    <3>4. ResultsOK'
      BY <1>1, <2>1, <3>1 DEF ResultsOK
    <3> QED BY <2>1, <2>3, <3>1, <3>2, <3>3, <3>4 DEF GiveResult, ResultAt
  <2>5. CASE poller.read.is # "drawn"
    BY <2>1, <2>3, <2>5, ResultEnds
  <2> QED BY <2>4, <2>5
<1>3. CASE ChannelUnreached
  BY <1>1, <1>3, ResultEnds DEF ChannelUnreached, Mishap, GiveawayTypes
<1>4. CASE ResultFails
  <2>1. /\ giveaway' = giveaway /\ memory' = memory /\ history' = history
        /\ poller.at \in {"result next", "result edit"}
    BY <1>4 DEF ResultFails
  <2>2. PollerOK' /\ poller'.at = "result next" /\ poller'.todo \subseteq poller.todo
    <3>1. CASE Goes("result next")
      BY <1>1, <3>1, PollerMoves, PollerGoes DEF At, ResultAt
    <3>2. CASE poller.at = "result next" /\ poller' = [poller EXCEPT !.todo = @ \ {First(@)}]
      BY <1>1, <3>2 DEF PollerOK, Asleep
    <3> QED BY <1>4, <3>1, <3>2 DEF ResultFails
  <2>3. MemoryTypes' /\ GiveawayTypes' /\ MessagesOK'
    BY <2>1 DEF IInv, MemoryTypes, GiveawayTypes, MessagesOK
  <2>4. ResultsOK'
    BY <1>1, <2>1, <2>2 DEF ResultsOK
  <2> QED BY <2>1, <2>2, <2>3, <2>4 DEF GiveResult, ResultAt
<1>5. CASE PostWinner
  <2>1. giveaway' = [giveaway EXCEPT ![poller.item].winners = @ + 1]
    BY <1>5 DEF PostWinner
  <2>2. poller.item \in Giveaway
    BY <1>1, <1>5 DEF PostWinner, ResultsOK, MemoryTypes
  <2>3. giveaway[poller.item].winners + 1 \in Nat
    BY <1>1, <2>2 DEF GiveawayTypes
  <2>4. /\ GiveawayTypes'
        /\ \A h \in Giveaway : /\ giveaway'[h].sent = giveaway[h].sent
                               /\ giveaway'[h].message = giveaway[h].message
    BY <1>1, <2>1, <2>2, <2>3 DEF GiveawayTypes
  <2> QED BY <1>5, <2>4, ResultEnds DEF PostWinner
<1>6. CASE WinnerFails
  BY <1>1, <1>6, ResultEnds DEF WinnerFails, GiveawayTypes
<1> QED BY <1>2, <1>3, <1>4, <1>5, <1>6

LEMMA GivesResult ==
  ASSUME IInv, Giveaways
  PROVE  GiveResult
BY AcksKeep, AckGiveawayKeeps, ListsKeep, NextGiveawayKeeps, SendGiveawayKeeps,
   SendGiveawayLostKeeps, MoveCursorKeeps, BeginResultsKeeps, ReadResultKeeps, ResultsKeep
DEF Giveaways

\* Nothing a giveaway needs touches what the poller knows of the splits.
LEMMA GivesLeaveSplits ==
  ASSUME IInv, Giveaways
  PROVE  memory'.splitCursor = memory.splitCursor /\ memory'.attempts = memory.attempts
<1>1. MemoryTypes
  BY DEF IInv
<1> QED
  BY <1>1 DEF MemoryTypes, Giveaways, BeginGiveaways, AckGiveaway, AckFails, EndAcks,
       ListGiveaways, ListGiveawaysFails, NextGiveaway, SendGiveaway, SendGiveawayFails,
       SendGiveawayLost, MoveCursor, BeginResults, ReadResult, EditResult, ChannelUnreached,
       ResultFails, PostWinner, WinnerFails, EndResults, Announce

LEMMA GivesKeep ==
  ASSUME IInv, Giveaways
  PROVE  IInv'
<1>1. GiveResult
  BY GivesResult
<1>2. vod' = vod /\ split' = split /\ history \subseteq history'
  BY DEF Giveaways, BeginGiveaways, AckGiveaway, AckFails, EndAcks, ListGiveaways,
         ListGiveawaysFails, NextGiveaway, SendGiveaway, SendGiveawayFails, SendGiveawayLost,
         MoveCursor, BeginResults, ReadResult, EditResult, ChannelUnreached, ResultFails,
         PostWinner, WinnerFails, EndResults, Mishap
<1>3. memory'.splitCursor = memory.splitCursor
  BY GivesLeaveSplits
<1>4. VodTypes' /\ VodOK'
  BY <1>1, <1>2, VodElsewhere DEF IInv, GiveResult, GiveAt, ResultAt, VodHot
<1>5. SplitTypes' /\ SplitOK'
  <2>1. poller'.at \in SplitAt => poller'.at = "split retry" /\ poller'.item = 0
    BY <1>1 DEF GiveResult, GiveAt, ResultAt, SplitAt
  <2>2. poller.at # "split thread id"
    BY <1>1 DEF GiveResult, GiveAt, ResultAt
  <2> QED BY <1>2, <1>3, <2>1, <2>2, SplitElsewhere DEF IInv
<1> QED BY <1>1, <1>4, <1>5 DEF GiveResult, IInv

----------------------------------------------------------------------------
(* The steps on split posts.                                               *)

SplitRow == [version : Nat, final : BOOLEAN, archived : BOOLEAN, linked : BOOLEAN,
             thread : Nat, summary : Nat, posts : Seq(PostRow)]
SplitResult ==
  /\ PollerOK' /\ MemoryTypes' /\ SplitTypes' /\ SplitOK'
  /\ memory'.posted = memory.posted /\ memory'.unacked = memory.unacked
  /\ poller.at \in SplitAt /\ poller'.at \in SplitAt \cup {"idle"}

LEMMA EndsKeeps ==
  ASSUME PollerOK, MemoryTypes, poller.item \in Nat, Ends(Synced) \/ Ends(Failed)
  PROVE  /\ PollerOK' /\ poller'.at = "split discover" /\ poller'.item = 0
         /\ MemoryTypes'
         /\ memory'.posted = memory.posted /\ memory'.unacked = memory.unacked
         /\ memory'.splitCursor = IF poller.item = 0 THEN memory.splitCursor ELSE poller.item
<1>1. PollerOK' /\ poller'.at = "split discover" /\ poller'.item = 0
  BY PollerMoves, PollerEnters DEF Ends, At, SplitAt
<1>2. PICK outcome \in {Synced, Failed} :
        memory' = IF poller.item = 0 THEN outcome
                  ELSE [outcome EXCEPT !.splitCursor = poller.item]
  BY DEF Ends
<1>3. PICK n \in 0..(MaxAttempts - 1) : outcome = [memory EXCEPT !.attempts = n]
  <2>1. memory.attempts \in 0..(MaxAttempts - 1) /\ MaxAttempts \in Nat \ {0}
    BY FeedsAssumption DEF MemoryTypes, FeedsAssumption
  <2>2. CASE outcome = Synced
    BY <2>1, <2>2 DEF Synced
  <2>3. CASE outcome = Failed
    <3> DEFINE n == IF memory.attempts + 1 >= MaxAttempts THEN 0 ELSE memory.attempts + 1
    <3>1. n \in 0..(MaxAttempts - 1)
      BY <2>1
    <3>2. outcome = [memory EXCEPT !.attempts = n]
      BY <2>3 DEF Failed
    <3> QED BY <3>1, <3>2
  <2> QED BY <1>2, <2>2, <2>3
<1>4. /\ outcome \in [cursor : Nat, posted : SUBSET Giveaway, unacked : [Giveaway -> Nat],
                      announced : SUBSET Giveaway, splitCursor : Nat, attempts : Nat]
      /\ outcome.posted = memory.posted /\ outcome.unacked = memory.unacked
      /\ outcome.splitCursor = memory.splitCursor /\ outcome.attempts = n
      /\ outcome.announced = memory.announced
  <2>1. n \in Nat
    OBVIOUS
  <2> QED BY <1>3, <2>1 DEF MemoryTypes
<1>5. CASE poller.item = 0
  <2>1. memory' = outcome
    BY <1>2, <1>5
  <2> QED BY <1>1, <1>3, <1>4, <1>5, <2>1 DEF MemoryTypes
<1>6. CASE poller.item # 0
  <2>1. memory' = [outcome EXCEPT !.splitCursor = poller.item]
    BY <1>2, <1>6
  <2> QED BY <1>1, <1>3, <1>4, <1>6, <2>1 DEF MemoryTypes
<1> QED BY <1>1, <1>5, <1>6

\* syncSplit ends, with the split's row changed or not.
LEMMA SplitEnds ==
  ASSUME IInv, poller.at \in SplitAt, Ends(Synced) \/ Ends(Failed), history \subseteq history',
         split' \in SplitRow, split'.version = split.version,
         {split'.thread, split'.summary} \subseteq 0..Len(split'.posts),
         "post lost" \in history' \/ Standing(split'.posts) \subseteq {split'.thread}
  PROVE  SplitResult
<1>1. PollerOK /\ MemoryTypes /\ SplitTypes /\ SplitOK
  BY DEF IInv
<1>2. split.version \in Nat /\ memory.splitCursor \in 0..split.version
  BY <1>1 DEF SplitTypes
<1>3. poller.item \in 0..split.version /\ poller.item \in Nat
  <2>1. poller.item \in 0..split.version
    BY <1>1 DEF SplitOK
  <2> QED BY <1>2, <2>1, InRange
<1>4. /\ PollerOK' /\ poller'.at = "split discover" /\ poller'.item = 0
      /\ MemoryTypes'
      /\ memory'.posted = memory.posted /\ memory'.unacked = memory.unacked
      /\ memory'.splitCursor = IF poller.item = 0 THEN memory.splitCursor ELSE poller.item
  BY <1>1, <1>3, EndsKeeps
<1>5. SplitTypes'
  BY <1>2, <1>3, <1>4 DEF SplitTypes, SplitRow
<1>6. 0 \in 0..split.version
  BY <1>2, ZeroInRange
<1>7. SplitOK'
  BY <1>4, <1>6 DEF SplitOK, HoldsRow
<1> QED BY <1>4, <1>5, <1>7 DEF SplitResult, SplitAt

\* Between two calls of syncSplit the row that was read is kept.
LEMMA SplitGoes ==
  ASSUME IInv, poller.at \in HoldsRow, NEW to \in HoldsRow, Goes(to),
         memory' = memory, history' = history,
         SplitTypes', split'.version = split.version, split'.thread = split.thread,
         DOMAIN split' = DOMAIN split, Len(split'.posts) >= Len(split.posts),
         \/ "post lost" \in history
         \/ /\ to = "split create" => Standing(split'.posts) = {}
            /\ to = "split thread id" => Standing(split'.posts) \subseteq {Len(split'.posts)}
            /\ to # "split thread id" => Standing(split'.posts) \subseteq {split'.thread}
  PROVE  SplitResult
<1>1. PollerOK /\ MemoryTypes /\ SplitTypes /\ SplitOK
  BY DEF IInv
<1>2. PollerOK'
  BY <1>1, PollerMoves DEF At, SplitAt, HoldsRow
<1>3. poller'.at = to /\ poller'.item = poller.item /\ poller'.read = poller.read
  BY <1>1, PollerGoes
<1>4. MemoryTypes'
  BY <1>1 DEF MemoryTypes
<1>5. poller.at \in SplitAt /\ poller'.at \in SplitAt
  BY <1>3 DEF SplitAt, HoldsRow
<1>6. poller'.read.summary \in 0..Len(split'.posts)
  <2>1. Len(split.posts) \in Nat /\ Len(split'.posts) \in Nat
    <3>1. split.posts \in Seq(PostRow) /\ split'.posts \in Seq(PostRow)
      BY <1>1 DEF SplitTypes
    <3> QED BY <3>1, LenIsNat
  <2>2. poller.read.summary \in 0..Len(split.posts)
    BY <1>1 DEF SplitOK
  <2>3. 0..Len(split.posts) \subseteq 0..Len(split'.posts)
    BY <2>1, WiderRange
  <2> QED BY <1>3, <2>2, <2>3
<1>7. SplitOK'
  <2>1. /\ poller.item \in 0..split.version
        /\ DOMAIN poller.read = DOMAIN split \ {"posts"}
        /\ poller.read.version \in Nat /\ poller.read.thread = split.thread
    BY <1>1, <1>5 DEF SplitOK
  <2> QED BY <1>3, <1>6, <2>1 DEF SplitOK
<1> QED BY <1>2, <1>3, <1>4, <1>5, <1>7 DEF SplitResult

LEMMA SplitWithPosts ==
  ASSUME SplitTypes, NEW posts \in Seq(PostRow), Len(posts) >= Len(split.posts),
         split' = [split EXCEPT !.posts = posts]
  PROVE  /\ split' \in SplitRow /\ split'.posts = posts /\ split'.version = split.version
         /\ split'.thread = split.thread /\ split'.summary = split.summary
         /\ {split'.thread, split'.summary} \subseteq 0..Len(split'.posts)
         /\ DOMAIN split' = DOMAIN split /\ Len(split'.posts) >= Len(split.posts)
         /\ memory' = memory => SplitTypes'
<1>1. split.posts \in Seq(PostRow)
  BY DEF SplitTypes
<1>2. Len(split.posts) \in Nat /\ Len(posts) \in Nat
  BY <1>1
<1>3. /\ split' \in SplitRow /\ split'.posts = posts /\ split'.version = split.version
      /\ split'.thread = split.thread /\ split'.summary = split.summary
      /\ DOMAIN split' = DOMAIN split
  BY DEF SplitTypes, SplitRow
<1>4. 0..Len(split.posts) \subseteq 0..Len(posts)
  BY <1>2, WiderRange
<1>5. {split'.thread, split'.summary} \subseteq 0..Len(posts)
  BY <1>3, <1>4 DEF SplitTypes
<1>6. memory' = memory => SplitTypes'
  BY <1>3, <1>5 DEF SplitTypes, SplitRow
<1> QED BY <1>3, <1>5, <1>6

LEMMA SelectsKeep ==
  ASSUME IInv, RetrySplit \/ NoRetryYet \/ DiscoverSplit \/ DiscoverFails
  PROVE  SplitResult
<1>1. PollerOK /\ MemoryTypes /\ SplitTypes /\ SplitOK
  BY DEF IInv
<1>2. /\ poller.at \in {"split retry", "split discover"}
      /\ split' = split /\ memory' = memory /\ history' = history
  BY DEF RetrySplit, NoRetryYet, DiscoverSplit, DiscoverFails
<1>3. poller.item \in 0..split.version
  BY <1>1, <1>2 DEF SplitOK, SplitAt
<1>4. split.version \in Nat /\ split.version \in 0..split.version
  BY <1>1 DEF SplitTypes
<1>5. /\ PollerOK' /\ poller'.at \in {"split read", "split discover", "idle"}
      /\ poller'.at # "idle" => poller'.item \in 0..split.version
  <2>1. CASE RetrySplit
    <3>1. Goes("split read")
      BY <2>1 DEF RetrySplit, Goes
    <3> QED BY <1>1, <1>3, <3>1, PollerMoves, PollerGoes DEF At, SplitAt
  <2>2. CASE NoRetryYet
    BY <1>1, <1>3, <2>2, PollerMoves, PollerGoes DEF NoRetryYet, At, SplitAt
  <2>3. CASE DiscoverFails
    BY <1>1, <2>3, PollerMoves DEF DiscoverFails, At, SplitAt
  <2>4. CASE DiscoverSplit /\ split.version > memory.splitCursor
    <3>1. poller' = [poller EXCEPT !.at = "split read", !.item = split.version]
      BY <2>4 DEF DiscoverSplit
    <3>2. PollerOK' /\ poller'.at = "split read" /\ poller'.item = split.version
      BY <1>1, <3>1 DEF PollerOK, Asleep, At, SplitAt
    <3> QED BY <1>4, <3>2
  <2>5. CASE DiscoverSplit /\ ~(split.version > memory.splitCursor)
    BY <1>1, <2>5, PollerMoves DEF DiscoverSplit, At, SplitAt
  <2> QED BY <2>1, <2>2, <2>3, <2>4, <2>5
<1>6. MemoryTypes' /\ SplitTypes'
  BY <1>1, <1>2 DEF MemoryTypes, SplitTypes
<1>7. SplitOK'
  BY <1>1, <1>2, <1>5 DEF SplitOK, SplitAt, HoldsRow
<1> QED BY <1>2, <1>5, <1>6, <1>7 DEF SplitResult, SplitAt

LEMMA ReadSplitKeeps ==
  ASSUME IInv, ReadSplit
  PROVE  SplitResult
<1>1. PollerOK /\ MemoryTypes /\ SplitTypes /\ SplitOK
  BY DEF IInv
<1>2. /\ poller.at = "split read" /\ Reads("split thread", Row(split))
      /\ split' = split /\ memory' = memory /\ history' = history
  BY DEF ReadSplit
<1>3. PollerOK' /\ poller'.at = "split thread"
  BY <1>1, <1>2, PollerMoves DEF At, SplitAt
<1>4. poller'.item = poller.item /\ poller'.read = Row(split)
  BY <1>1, <1>2, PollerReads
<1>5. /\ DOMAIN Row(split) = DOMAIN split \ {"posts"}
      /\ Row(split).version \in Nat /\ Row(split).thread = split.thread
      /\ Row(split).summary \in 0..Len(split.posts)
  BY <1>1 DEF Row, SplitTypes
<1>6. MemoryTypes' /\ SplitTypes'
  BY <1>1, <1>2 DEF MemoryTypes, SplitTypes
<1>7. poller.item \in 0..split.version
  BY <1>1, <1>2 DEF SplitOK, SplitAt
<1>8. SplitOK'
  BY <1>1, <1>2, <1>3, <1>4, <1>5, <1>7 DEF SplitOK
<1> QED BY <1>2, <1>3, <1>6, <1>8 DEF SplitResult, SplitAt

LEMMA FetchPostKeeps ==
  ASSUME IInv, FetchPost
  PROVE  SplitResult
<1> DEFINE row == poller.read
           there == row.thread # 0 /\ ~Post(row.thread).deleted
<1>1. PollerOK /\ MemoryTypes /\ SplitTypes /\ SplitOK
  BY DEF IInv
<1>2. /\ poller.at = "split thread" /\ poller.at \in HoldsRow
      /\ split' = split /\ memory' = memory /\ history' = history
  BY DEF FetchPost, HoldsRow
<1>3. SplitTypes'
  BY <1>1, <1>2 DEF SplitTypes
<1>4. /\ DOMAIN row = DOMAIN split \ {"posts"}
      /\ row.version \in Nat /\ row.thread = split.thread
      /\ row.summary \in 0..Len(split.posts) /\ poller.item \in 0..split.version
  BY <1>1, <1>2 DEF SplitOK, SplitAt
<1>5. "post lost" \in history \/ Standing(split.posts) \subseteq {split.thread}
  BY <1>1, <1>2 DEF SplitOK
<1>6. /\ split'.version = split.version /\ split'.thread = split.thread
      /\ DOMAIN split' = DOMAIN split /\ Len(split'.posts) >= Len(split.posts)
      /\ Standing(split'.posts) = Standing(split.posts)
  <2>1. Len(split.posts) \in Nat
    BY <1>1, LenIsNat DEF SplitTypes
  <2>2. Len(split.posts) >= Len(split.posts)
    BY <2>1, AtLeastItself
  <2> QED BY <1>2, <2>2
<1>7. CASE Goes("split delete") \/ Goes("split cursors")
  <2>1. PICK to \in {"split delete", "split cursors"} : Goes(to)
    BY <1>7
  <2>2. to \in HoldsRow /\ to # "split create" /\ to # "split thread id"
    BY DEF HoldsRow
  <2> QED BY <1>2, <1>3, <1>5, <1>6, <2>1, <2>2, SplitGoes
<1>8. CASE Goes("split create") /\ ~there
  <2>1. split.thread \notin Standing(split.posts)
    <3>1. CASE split.thread = 0
      <4>1. split.posts \in Seq(PostRow)
        BY <1>1 DEF SplitTypes
      <4>2. 0 \notin DOMAIN split.posts
        BY <4>1
      <4> QED BY <3>1, <4>2 DEF Standing
    <3>2. CASE split.thread # 0
      BY <1>4, <1>8, <3>2 DEF Standing, Post
    <3> QED BY <3>1, <3>2
  <2>2. "post lost" \in history \/ Standing(split.posts) = {}
    BY <1>5, <2>1
  <2>3. "split create" \in HoldsRow
    BY DEF HoldsRow
  <2> QED BY <1>2, <1>3, <1>5, <1>6, <1>8, <2>2, <2>3, SplitGoes
<1>9. CASE Reads("split edit", [row EXCEPT !.summary = IF @ = NoMessage THEN row.thread ELSE @])
  <2> DEFINE read == [row EXCEPT !.summary = IF @ = NoMessage THEN row.thread ELSE @]
  <2>1. PollerOK' /\ poller'.at = "split edit"
    BY <1>1, <1>9, PollerMoves DEF At, SplitAt
  <2>2. poller'.item = poller.item /\ poller'.read = read
    BY <1>1, <1>9, PollerReads
  <2>3. split.thread \in 0..Len(split.posts) /\ DOMAIN split = DOMAIN split'
        /\ {"version", "thread", "summary"} \subseteq DOMAIN row
    BY <1>1, <1>2, <1>4 DEF SplitTypes
  <2>4. /\ DOMAIN read = DOMAIN row /\ read.version = row.version /\ read.thread = row.thread
        /\ read.summary \in {row.summary, row.thread}
    BY <2>3
  <2> HIDE DEF read, row
  <2>5. MemoryTypes'
    BY <1>1, <1>2 DEF MemoryTypes
  <2>6. poller'.read.summary \in 0..Len(split.posts)
    BY <1>4, <2>2, <2>3, <2>4
  <2>7. SplitOK'
    BY <1>2, <1>4, <1>5, <2>1, <2>2, <2>4, <2>6 DEF SplitOK
  <2> QED BY <1>2, <1>3, <2>1, <2>5, <2>7 DEF SplitResult, SplitAt
<1> QED BY <1>7, <1>8, <1>9 DEF FetchPost

LEMMA SplitEndsStill ==
  ASSUME IInv, poller.at \in SplitAt, Ends(Synced) \/ Ends(Failed), history \subseteq history',
         split' = split, poller.at = "split thread id" => "post lost" \in history'
  PROVE  SplitResult
<1>1. SplitTypes /\ SplitOK
  BY DEF IInv
<1>2. split' \in SplitRow /\ split'.version = split.version
  BY <1>1 DEF SplitTypes, SplitRow
<1>3. {split'.thread, split'.summary} \subseteq 0..Len(split'.posts)
  BY <1>1 DEF SplitTypes
<1>4. "post lost" \in history' \/ Standing(split'.posts) \subseteq {split'.thread}
  BY <1>1 DEF SplitOK
<1> QED BY <1>2, <1>3, <1>4, SplitEnds

\* A change of a post that is neither its creation nor its deletion.
LEMMA SplitPostsChange ==
  ASSUME IInv, poller.at \in HoldsRow \ {"split thread id"},
         NEW to \in HoldsRow \ {"split create", "split thread id"}, Goes(to),
         memory' = memory, history' = history,
         NEW posts \in Seq(PostRow), Len(posts) = Len(split.posts),
         Standing(posts) \subseteq Standing(split.posts), split' = [split EXCEPT !.posts = posts]
  PROVE  SplitResult
<1>1. SplitTypes /\ SplitOK
  BY DEF IInv
<1>2. Len(posts) >= Len(split.posts)
  <2>1. Len(posts) \in Nat
    BY LenIsNat
  <2> QED BY <2>1, AtLeastItself
<1>3. /\ SplitTypes' /\ split'.version = split.version /\ split'.thread = split.thread
      /\ DOMAIN split' = DOMAIN split /\ Len(split'.posts) >= Len(split.posts)
      /\ split'.posts = posts
  BY <1>1, <1>2, SplitWithPosts
<1>4. "post lost" \in history \/ Standing(split'.posts) \subseteq {split'.thread}
  BY <1>1, <1>3 DEF SplitOK
<1> QED BY <1>3, <1>4, SplitGoes

LEMMA PostsKeep ==
  ASSUME IInv, DeletePost \/ EditPost \/ ClosePost
               \/ (DeleteRefused /\ ~poller.read.linked)
  PROVE  SplitResult
<1> DEFINE i == poller.read.thread
<1>1. split.posts \in Seq(PostRow)
  BY DEF IInv, SplitTypes
<1>2. memory' = memory /\ history' = history
  BY DEF DeletePost, EditPost, ClosePost, DeleteRefused
<1>3. CASE DeletePost
  <2> DEFINE posts == [split.posts EXCEPT ![i].deleted = TRUE]
  <2>1. /\ posts \in Seq(PostRow) /\ Len(posts) = Len(split.posts)
        /\ Standing(posts) = Standing(split.posts) \ {i}
    BY <1>1, PostRemoved
  <2>2. split' = [split EXCEPT !.posts = posts] /\ Goes("split cursors")
    BY <1>3 DEF DeletePost
  <2>3. /\ poller.at \in HoldsRow \ {"split thread id"}
        /\ "split cursors" \in HoldsRow \ {"split create", "split thread id"}
    BY <1>3 DEF DeletePost, HoldsRow
  <2> HIDE DEF posts
  <2> QED BY <1>2, <2>1, <2>2, <2>3, SplitPostsChange
<1>4. CASE EditPost
  <2> DEFINE posts == [split.posts EXCEPT ![i].shows = poller.read.version]
  <2>1. poller.read.version \in Nat
    BY <1>4 DEF EditPost, IInv, SplitOK, HoldsRow
  <2>2. SamePosts(split.posts, posts)
    BY <1>1, <2>1, PostShown
  <2>3. PICK to \in {"split close", "split save"} : Goes(to)
    BY <1>4 DEF EditPost
  <2>4. split' = [split EXCEPT !.posts = posts]
    BY <1>4 DEF EditPost
  <2>5. /\ poller.at \in HoldsRow \ {"split thread id"}
        /\ to \in HoldsRow \ {"split create", "split thread id"}
    BY <1>4 DEF EditPost, HoldsRow
  <2> HIDE DEF posts
  <2> QED BY <1>2, <2>2, <2>3, <2>4, <2>5, SplitPostsChange DEF SamePosts
<1>5. CASE ClosePost \/ (DeleteRefused /\ ~poller.read.linked)
  <2> DEFINE posts == [split.posts EXCEPT ![i].locked = TRUE]
  <2>1. SamePosts(split.posts, posts)
    BY <1>1, PostLocked
  <2>2. PICK to \in {"split cursors", "split save"} : Goes(to)
    BY <1>5 DEF ClosePost, DeleteRefused
  <2>3. split' = [split EXCEPT !.posts = posts]
    BY <1>5 DEF ClosePost, DeleteRefused
  <2>4. /\ poller.at \in HoldsRow \ {"split thread id"}
        /\ to \in HoldsRow \ {"split create", "split thread id"}
    BY <1>5 DEF ClosePost, DeleteRefused, HoldsRow
  <2> HIDE DEF posts
  <2> QED BY <1>2, <2>1, <2>2, <2>3, <2>4, SplitPostsChange DEF SamePosts
<1> QED BY <1>3, <1>4, <1>5

LEMMA CreatePostKeeps ==
  ASSUME IInv, CreatePost \/ CreatePostLost
  PROVE  SplitResult
<1> DEFINE posts == Append(split.posts, NewPost(poller.read.version))
<1>1. SplitTypes /\ SplitOK /\ split.posts \in Seq(PostRow)
  BY DEF IInv, SplitTypes
<1>2. poller.at = "split create" /\ split' = [split EXCEPT !.posts = posts]
  BY DEF CreatePost, CreatePostLost
<1>3. poller.at \in HoldsRow /\ poller.at \in SplitAt /\ "split thread id" \in HoldsRow
  BY <1>2 DEF HoldsRow, SplitAt
<1>4. poller.read.version \in Nat
  BY <1>1, <1>3 DEF SplitOK
<1>5. /\ posts \in Seq(PostRow) /\ Len(posts) = Len(split.posts) + 1
      /\ Standing(posts) = Standing(split.posts) \cup {Len(split.posts) + 1}
  BY <1>1, <1>4, PostAdded
<1> HIDE DEF posts
<1>6. Len(posts) >= Len(split.posts)
  <2>1. Len(split.posts) \in Nat /\ \A n \in Nat : n + 1 >= n
    BY <1>1, LenIsNat
  <2> QED BY <1>5, <2>1
<1>7. /\ split' \in SplitRow /\ split'.posts = posts /\ split'.version = split.version
      /\ split'.thread = split.thread /\ DOMAIN split' = DOMAIN split
      /\ Len(split'.posts) >= Len(split.posts)
      /\ {split'.thread, split'.summary} \subseteq 0..Len(split'.posts)
      /\ memory' = memory => SplitTypes'
  BY <1>1, <1>2, <1>5, <1>6, SplitWithPosts
<1>8. CASE CreatePost
  <2>1. Goes("split thread id") /\ memory' = memory /\ history' = history
    BY <1>8 DEF CreatePost
  <2>2. "post lost" \in history \/ Standing(split.posts) = {}
    BY <1>1, <1>2 DEF SplitOK
  <2>3. "post lost" \in history \/ Standing(split'.posts) \subseteq {Len(split'.posts)}
    BY <1>5, <1>7, <2>2
  <2> QED BY <1>3, <1>7, <2>1, <2>3, SplitGoes
<1>9. CASE CreatePostLost
  <2>1. Ends(Failed) /\ "post lost" \in history' /\ history \subseteq history'
    BY <1>9 DEF CreatePostLost, Fails
  <2> QED BY <1>3, <1>7, <2>1, SplitEnds
<1> QED BY <1>8, <1>9

LEMMA SaveThreadKeeps ==
  ASSUME IInv, SaveThread
  PROVE  SplitResult
<1> DEFINE n == Len(split.posts)
           read == [poller.read EXCEPT !.thread = n, !.summary = n]
<1>1. PollerOK /\ MemoryTypes /\ SplitTypes /\ SplitOK /\ split.posts \in Seq(PostRow)
  BY DEF IInv, SplitTypes
<1>2. /\ poller.at = "split thread id" /\ split' = [split EXCEPT !.thread = n]
      /\ Reads("split edit", read) /\ memory' = memory /\ history' = history
  BY DEF SaveThread
<1>3. n \in Nat /\ n \in 0..n
  <2>1. n \in Nat /\ \A m \in Nat : m \in 0..m
    BY <1>1, LenIsNat
  <2> QED BY <2>1
<1>4. poller.at \in HoldsRow /\ poller.at \in SplitAt
  BY <1>2 DEF HoldsRow, SplitAt
<1>5. /\ DOMAIN poller.read = DOMAIN split \ {"posts"} /\ poller.read.version \in Nat
      /\ poller.item \in 0..split.version
  BY <1>1, <1>4 DEF SplitOK
<1>6. {"version", "thread", "summary"} \subseteq DOMAIN poller.read
  BY <1>1, <1>5 DEF SplitTypes
<1>7. /\ DOMAIN read = DOMAIN poller.read /\ read.version = poller.read.version
      /\ read.thread = n /\ read.summary = n
  BY <1>6
<1> HIDE DEF read
<1>8. PollerOK' /\ poller'.at = "split edit"
  BY <1>1, <1>2, PollerMoves DEF At, SplitAt
<1>9. poller'.item = poller.item /\ poller'.read = read
  BY <1>1, <1>2, PollerReads
<1>10. "post lost" \in history \/ Standing(split.posts) \subseteq {n}
  BY <1>1, <1>2 DEF SplitOK
<1>11. n = Len(split.posts)
  OBVIOUS
<1> HIDE DEF n
<1>12. /\ split'.thread = n /\ split'.summary = split.summary /\ split'.posts = split.posts
       /\ split'.version = split.version /\ DOMAIN split' = DOMAIN split
  BY <1>1, <1>2 DEF SplitTypes
<1>13. SplitTypes'
  <2>1. split' \in SplitRow
    BY <1>1, <1>2, <1>3 DEF SplitTypes, SplitRow
  <2>2. {split'.thread, split'.summary} \subseteq 0..Len(split'.posts)
    BY <1>1, <1>3, <1>11, <1>12 DEF SplitTypes
  <2> QED BY <1>1, <1>2, <1>12, <2>1, <2>2 DEF SplitTypes, SplitRow
<1>14. SplitOK'
  BY <1>2, <1>3, <1>5, <1>7, <1>8, <1>9, <1>10, <1>11, <1>12 DEF SplitOK
<1>15. MemoryTypes'
  BY <1>1, <1>2 DEF MemoryTypes
<1> QED BY <1>2, <1>4, <1>8, <1>13, <1>14, <1>15 DEF SplitResult, SplitAt

LEMMA SaveSyncKeeps ==
  ASSUME IInv, SaveSync
  PROVE  SplitResult
<1>1. SplitTypes /\ SplitOK
  BY DEF IInv
<1>2. /\ poller.at = "split save" /\ history' = history /\ Ends(Synced)
      /\ split' = [split EXCEPT !.thread = poller.read.thread, !.summary = poller.read.summary]
  BY DEF SaveSync
<1>3. poller.at \in HoldsRow /\ poller.at \in SplitAt
  BY <1>2 DEF HoldsRow, SplitAt
<1>4. poller.read.thread = split.thread /\ poller.read.summary \in 0..Len(split.posts)
  BY <1>1, <1>3 DEF SplitOK
<1>5. /\ split'.thread = split.thread /\ split'.summary = poller.read.summary
      /\ split'.posts = split.posts /\ split'.version = split.version
  BY <1>1, <1>2, <1>4 DEF SplitTypes
<1>6. poller.read.summary \in Nat
  <2>1. Len(split.posts) \in Nat
    BY <1>1, LenIsNat DEF SplitTypes
  <2> QED BY <1>4, <2>1, InRange
<1>7. split' \in SplitRow
  BY <1>1, <1>2, <1>4, <1>6 DEF SplitTypes, SplitRow
<1>8. {split'.thread, split'.summary} \subseteq 0..Len(split'.posts)
  BY <1>1, <1>4, <1>5 DEF SplitTypes
<1>9. "post lost" \in history' \/ Standing(split'.posts) \subseteq {split'.thread}
  BY <1>1, <1>2, <1>5 DEF SplitOK
<1> QED BY <1>2, <1>3, <1>5, <1>7, <1>8, <1>9, SplitEnds

LEMMA SplitsResult ==
  ASSUME IInv, Splits
  PROVE  SplitResult
<1>1. CASE SaveCursors \/ SaveThreadFails \/ ForeignSummary \/ SplitFails
           \/ (DeleteRefused /\ poller.read.linked)
  BY <1>1, SplitEndsStill DEF SaveCursors, SaveThreadFails, ForeignSummary, SplitFails,
                              DeleteRefused, Fails, SplitAt
<1> QED
  BY <1>1, SelectsKeep, ReadSplitKeeps, FetchPostKeeps, PostsKeep, CreatePostKeeps,
     SaveThreadKeeps, SaveSyncKeeps DEF Splits

LEMMA SplitsKeep ==
  ASSUME IInv, Splits
  PROVE  IInv'
<1>1. SplitResult
  BY SplitsResult
<1>2. vod' = vod /\ giveaway' = giveaway /\ history \subseteq history'
  BY DEF Splits, RetrySplit, NoRetryYet, DiscoverSplit, DiscoverFails, ReadSplit, FetchPost,
         DeletePost, DeleteRefused, SaveCursors, CreatePost, CreatePostLost, SaveThread,
         SaveThreadFails, EditPost, ForeignSummary, ClosePost, SaveSync, SplitFails, Fails
<1>3. VodTypes' /\ VodOK'
  BY <1>1, <1>2, VodElsewhere DEF IInv, SplitResult, SplitAt, VodHot
<1>4. GiveawayTypes' /\ MessagesOK' /\ ResultsOK'
  BY <1>1, <1>2, GiveElsewhere DEF IInv, SplitResult, SplitAt, GiveHot
<1> QED BY <1>1, <1>3, <1>4 DEF SplitResult, IInv

----------------------------------------------------------------------------
(* Users, the backend's own changes, and crashes.                          *)

\* The steps of the surroundings on the VOD delivery; the poller stays where it is.
LEMMA VodChangesKeep ==
  ASSUME IInv, RequestVod \/ ArchiveEvent \/ UnarchiveEvent \/ OperatorRetries
  PROVE  IInv'
<1>1. /\ giveaway' = giveaway /\ split' = split /\ memory' = memory /\ poller' = poller
      /\ history \subseteq history'
  BY DEF RequestVod, ArchiveEvent, UnarchiveEvent, OperatorRetries
<1>2. VodTypes /\ VodOK /\ vod.posts \in Seq(PostRow)
  BY DEF IInv, VodTypes
<1>3. VodTypes' /\ VodOK'
  <2>1. CASE RequestVod
    <3>1. vod.status = "none" /\ vod' = [vod EXCEPT !.status = "pending"]
      BY <2>1 DEF RequestVod
    <3>2. VodTypes'
      BY <1>2, <3>1 DEF VodTypes
    <3>3. VodOK'
      BY <1>1, <1>2, <3>1 DEF VodOK, VodTypes
    <3> QED BY <3>2, <3>3
  <2>2. CASE ArchiveEvent
    <3>1. vod' = [vod EXCEPT !.archived = TRUE]
      BY <2>2 DEF ArchiveEvent
    <3>2. VodTypes'
      BY <1>2, <3>1 DEF VodTypes
    <3>3. VodOK'
      BY <1>1, <1>2, <3>1 DEF VodOK, VodTypes
    <3> QED BY <3>2, <3>3
  <2>3. CASE OperatorRetries
    <3>1. /\ vod.status = "attempted" /\ Standing(vod.posts) = {} /\ poller.at = "idle"
          /\ vod' = [vod EXCEPT !.status = "pending"]
      BY <2>3 DEF OperatorRetries
    <3>2. VodTypes'
      BY <1>2, <3>1 DEF VodTypes
    <3>3. VodOK'
      BY <1>1, <1>2, <3>1 DEF VodOK, VodTypes
    <3> QED BY <3>2, <3>3
  <2>4. CASE UnarchiveEvent
    <3>1. /\ vod.archived
          /\ vod' = [vod EXCEPT !.archived = FALSE,
                                !.status = IF @ = "deleted" THEN "pending" ELSE @,
                                !.thread = IF vod.status = "deleted" THEN 0 ELSE @]
          /\ vod.status = "created" /\ (Deleting \/ vod.posts[vod.thread].deleted)
               => "restored while deleting" \in history'
      BY <2>4 DEF UnarchiveEvent
    <3>2. /\ vod'.archived = FALSE /\ vod'.posts = vod.posts
          /\ vod'.status = IF vod.status = "deleted" THEN "pending" ELSE vod.status
          /\ vod'.thread = IF vod.status = "deleted" THEN 0 ELSE vod.thread
      BY <1>2, <3>1 DEF VodTypes
    <3>3. VodTypes'
      <4>1. Len(vod.posts) \in Nat
        BY <1>2, LenIsNat
      <4>2. 0 \in 0..Len(vod.posts)
        BY <4>1, ZeroInRange
      <4>3. vod' \in [status : {"none", "pending", "attempted", "created", "deleted"},
                      thread : Nat, archived : BOOLEAN, posts : Seq(PostRow)]
        BY <1>2, <3>1 DEF VodTypes
      <4> QED BY <1>2, <3>2, <4>2, <4>3 DEF VodTypes
    <3>4. ASSUME vod.status = "created"
          PROVE  \/ "restored while deleting" \in history'
                 \/ vod.thread \in Standing(vod.posts) /\ ~Deleting
      <4>1. vod.thread # 0 /\ vod.thread \in 0..Len(vod.posts)
        BY <1>2, <3>4 DEF VodOK, VodTypes
      <4>2. vod.thread \in DOMAIN vod.posts
        BY <1>2, <4>1
      <4> QED BY <3>1, <3>4, <4>2 DEF Standing
    <3>5. VodOK'
      BY <1>1, <1>2, <3>2, <3>4 DEF VodOK, Deleting
    <3> QED BY <3>3, <3>5
  <2> QED BY <2>1, <2>2, <2>3, <2>4
<1>4. PollerOK' /\ MemoryTypes'
  BY <1>1 DEF IInv, PollerOK, MemoryTypes
<1>5. GiveawayTypes' /\ MessagesOK' /\ ResultsOK'
  BY <1>1, GiveElsewhere DEF IInv
<1>6. SplitTypes' /\ SplitOK'
  BY <1>1, SplitElsewhere DEF IInv
<1> QED BY <1>3, <1>4, <1>5, <1>6 DEF IInv

LEMMA GiveawayChangesKeep ==
  ASSUME IInv, NEW g \in Giveaway,
         OpenGiveaway(g) \/ \E outcome \in {"drawn", "cancelled"} : CloseGiveaway(g, outcome)
  PROVE  IInv'
<1>1. /\ vod' = vod /\ split' = split /\ memory' = memory /\ poller' = poller
      /\ history' = history
  BY DEF OpenGiveaway, CloseGiveaway
<1>2. PICK is \in {"open", "drawn", "cancelled"} : giveaway' = [giveaway EXCEPT ![g].is = is]
  BY DEF OpenGiveaway, CloseGiveaway
<1>3. /\ GiveawayTypes'
      /\ \A h \in Giveaway : /\ giveaway'[h].sent = giveaway[h].sent
                             /\ giveaway'[h].message = giveaway[h].message
  BY <1>2 DEF IInv, GiveawayTypes
<1>4. MessagesOK'
  BY <1>1, <1>3, MessagesStay DEF IInv
<1>5. PollerOK' /\ MemoryTypes' /\ ResultsOK'
  BY <1>1 DEF IInv, PollerOK, MemoryTypes, ResultsOK
<1>6. VodTypes' /\ VodOK'
  BY <1>1, VodElsewhere DEF IInv
<1>7. SplitTypes' /\ SplitOK'
  BY <1>1, SplitElsewhere DEF IInv
<1> QED BY <1>3, <1>4, <1>5, <1>6, <1>7 DEF IInv

LEMMA ChangeSplitKeeps ==
  ASSUME IInv, NEW final \in BOOLEAN, NEW archived \in BOOLEAN, ChangeSplit(final, archived)
  PROVE  IInv'
<1>1. /\ vod' = vod /\ giveaway' = giveaway /\ memory' = memory /\ poller' = poller
      /\ history' = history
      /\ split' = [split EXCEPT !.version = @ + 1, !.final = @ \/ final, !.archived = archived]
  BY DEF ChangeSplit
<1>2. SplitTypes /\ SplitOK
  BY DEF IInv
<1>3. split.version \in Nat /\ (split.final \/ final) \in BOOLEAN
  BY <1>2 DEF SplitTypes
<1>4. /\ split'.version = split.version + 1 /\ split'.thread = split.thread
      /\ split'.summary = split.summary /\ split'.posts = split.posts
      /\ DOMAIN split' = DOMAIN split
  BY <1>1, <1>2 DEF SplitTypes
<1>5. 0..split.version \subseteq 0..split'.version
  <2>1. \A n \in Nat : n + 1 \in Nat /\ n <= n + 1
    OBVIOUS
  <2> QED BY <1>3, <1>4, <2>1, WiderRange
<1>6. SplitTypes'
  <2>1. split' \in SplitRow
    <3>1. split.version + 1 \in Nat
      BY <1>3
    <3> QED BY <1>1, <1>2, <1>3, <3>1 DEF SplitTypes, SplitRow
  <2> QED BY <1>1, <1>2, <1>4, <1>5, <2>1 DEF SplitTypes, SplitRow
<1>7. SplitOK'
  BY <1>1, <1>2, <1>4, <1>5 DEF SplitOK
<1>8. VodTypes' /\ VodOK'
  BY <1>1, VodElsewhere DEF IInv
<1>9. GiveawayTypes' /\ MessagesOK' /\ ResultsOK'
  BY <1>1, GiveElsewhere DEF IInv
<1>10. PollerOK' /\ MemoryTypes'
  BY <1>1 DEF IInv, PollerOK, MemoryTypes
<1> QED BY <1>6, <1>7, <1>8, <1>9, <1>10 DEF IInv

\* The poller wakes, or the bot restarts.
LEMMA WakesKeep ==
  ASSUME IInv, Wake \/ Crash
  PROVE  IInv'
<1>1. /\ vod' = vod /\ giveaway' = giveaway /\ split' = split /\ memory' = memory
      /\ history \subseteq history'
      /\ poller.at = "split thread id" => "post lost" \in history'
  BY DEF Wake, Crash, Mishap
<1>2. PollerOK' /\ poller'.at \in {"vod delete", "idle"}
  <2>1. CASE Wake
    BY <2>1 DEF Wake, PollerOK, Asleep, At, VodAt
  <2>2. CASE Crash
    BY <2>2 DEF Crash, PollerOK, Asleep, At
  <2> QED BY <2>1, <2>2
<1>3. VodTypes' /\ VodOK'
  BY <1>1, <1>2, VodElsewhere DEF IInv, VodHot
<1>4. GiveawayTypes' /\ MessagesOK' /\ ResultsOK'
  BY <1>1, <1>2, GiveElsewhere DEF IInv, GiveHot
<1>5. SplitTypes' /\ SplitOK'
  BY <1>1, <1>2, SplitElsewhere DEF IInv, SplitAt
<1>6. MemoryTypes'
  BY <1>1 DEF IInv, MemoryTypes
<1> QED BY <1>2, <1>3, <1>4, <1>5, <1>6 DEF IInv

LEMMA StutterKeeps ==
  ASSUME IInv, UNCHANGED vars
  PROVE  IInv'
<1>1. /\ vod' = vod /\ giveaway' = giveaway /\ split' = split /\ memory' = memory
      /\ poller' = poller /\ history' = history
  BY DEF vars
<1>2. PollerOK' /\ MemoryTypes'
  BY <1>1 DEF IInv, PollerOK, MemoryTypes
<1>3. VodTypes' /\ VodOK'
  BY <1>1, VodElsewhere DEF IInv
<1>4. GiveawayTypes' /\ MessagesOK' /\ ResultsOK'
  BY <1>1, GiveElsewhere DEF IInv
<1>5. SplitTypes' /\ SplitOK'
  BY <1>1, SplitElsewhere DEF IInv
<1> QED BY <1>2, <1>3, <1>4, <1>5 DEF IInv

----------------------------------------------------------------------------
(* The inductive invariant holds.                                          *)

\* No step of the poller, of a user or of a crash leaves the inductive invariant.
LEMMA NextKeepsIInv == IInv /\ [Next]_vars => IInv'
<1> SUFFICES ASSUME IInv, Next \/ UNCHANGED vars PROVE IInv'
  OBVIOUS
<1>1. CASE Cycle
  BY <1>1, VodsKeep, GivesKeep, SplitsKeep, WakesKeep DEF Cycle
<1>2. CASE RequestVod \/ ArchiveEvent \/ UnarchiveEvent \/ OperatorRetries
  BY <1>2, VodChangesKeep
<1>3. ASSUME NEW g \in Giveaway,
             OpenGiveaway(g) \/ \E outcome \in {"drawn", "cancelled"} : CloseGiveaway(g, outcome)
      PROVE  IInv'
  BY <1>3, GiveawayChangesKeep
<1>4. ASSUME NEW final \in BOOLEAN, NEW archived \in BOOLEAN, ChangeSplit(final, archived)
      PROVE  IInv'
  BY <1>4, ChangeSplitKeeps
<1>5. CASE Crash
  BY <1>5, WakesKeep
<1>6. CASE UNCHANGED vars
  BY <1>6, StutterKeeps
<1> QED BY <1>1, <1>2, <1>3, <1>4, <1>5, <1>6 DEF Next

LEMMA IInvHolds == Spec => []IInv
BY InitIsSound, NextKeepsIInv, PTL DEF Spec

----------------------------------------------------------------------------
(* What the cursor, the announced results and the split's retries promise. *)
(* Each of the three invariants below is inductive once IInv is known.     *)

\* The places of a cycle between the list of giveaways and the last of them.
ToCursor == \/ poller.at = "give cursor"
            \/ poller.at = "give acks" /\ poller.then = "give cursor"
Announcing == poller.at \in {"give next", "give send"} \/ ToCursor

\* The giveaways are opened in order, and while nothing failed, whatever is before one
\* that still waits in the cycle was posted or waits as well.
CursorOK ==
  /\ \A g, h \in Giveaway :
       h < g /\ giveaway[g].is # "absent" => giveaway[h].is # "absent"
  /\ NoGiveawayIsPassed
  /\ ToCursor => poller.item \in memory.posted
  /\ Announcing /\ ~poller.blocked =>
       /\ \A q \in poller.queue, g \in Giveaway :
            g < q => \/ g \in memory.posted \cup poller.queue
                     \/ poller.at = "give send" /\ g = poller.item
       /\ poller.at # "give next" =>
            \A g \in Giveaway : g < poller.item => g \in memory.posted

Closed(g) == giveaway[g].is \in {"drawn", "cancelled"}
\* A message is acknowledged once, of a giveaway that was opened and posted, and a
\* result is only announced once the recorded message shows it.
MessageOK(g) ==
  /\ giveaway[g].message # 0 => memory.unacked[g] = 0
  /\ giveaway[g].message # 0 \/ memory.unacked[g] # 0 => g \in memory.posted
  /\ 0 \notin giveaway[g].shown
AnnouncedOK ==
  /\ \A g \in Giveaway : MessageOK(g)
  /\ \A g \in memory.posted : giveaway[g].is # "absent"
  /\ Announcing => \A g \in poller.queue : giveaway[g].is # "absent"
  /\ poller.at = "give send" => giveaway[poller.item].is # "absent"
  /\ poller.at = "give acks" => \A g \in poller.todo : memory.unacked[g] # 0
  /\ poller.at \in {"result edit", "result winner"} => Closed(poller.item)
  /\ poller.at = "result edit" =>
       /\ poller.read.message = giveaway[poller.item].message
       /\ giveaway[poller.item].message # 0
  /\ poller.at = "result winner" => ResultShows(poller.item)
  /\ AnnouncedResultsStand

\* A sync in progress is of a split that is ahead of the cursor or kept for a retry,
\* and the row it has read, while the split has not changed since, is the split's.
Syncing == poller.at \in HoldsRow \cup {"split read"}
SyncOK ==
  /\ poller.at \in {"split retry", "split discover"} => poller.item = 0
  /\ Syncing =>
       IF poller.item = 0 THEN memory.attempts > 0 ELSE poller.item > memory.splitCursor
  /\ poller.at \in HoldsRow =>
       LET row == poller.read
       IN  /\ memory.splitCursor <= row.version /\ poller.item <= row.version
           /\ row.version <= split.version
           /\ row.linked = split.linked
           /\ row.version = split.version =>
                row.final = split.final /\ row.archived = split.archived

\* Where a sync stands with the post of the row it has read.
PostOK ==
  LET row == poller.read
  IN  /\ poller.at \in {"split delete", "split cursors"} => Disappears(row)
      /\ poller.at = "split delete" => row.thread # 0
      /\ poller.at = "split cursors" /\ row.thread # 0 =>
           Post(row.thread).deleted \/ Post(row.thread).locked
      /\ poller.at \in {"split create", "split thread id", "split edit", "split close",
                        "split save"} => ~Disappears(row)
      /\ poller.at = "split thread id" =>
           Len(split.posts) # 0 /\ ~Post(Len(split.posts)).deleted
      /\ poller.at \in {"split edit", "split close", "split save"} =>
           row.thread # 0 /\ ~Post(row.thread).deleted
      /\ poller.at = "split close" => row.final
      /\ poller.at \in {"split close", "split save"} => Post(row.thread).shows = row.version
      /\ poller.at = "split save" /\ row.final => Post(row.thread).locked

SplitInv == SyncOK /\ PostOK /\ NoSplitIsForgotten

LEMMA FreshInvariants == Init => CursorOK /\ AnnouncedOK /\ SplitInv
<1> SUFFICES ASSUME Init PROVE CursorOK /\ AnnouncedOK /\ SplitInv
  OBVIOUS
<1>1. /\ poller.at = "idle" /\ memory.posted = {} /\ memory.announced = {}
      /\ memory.cursor = 0 /\ split.version = 0
      /\ \A g \in Giveaway : /\ giveaway[g].is = "absent" /\ giveaway[g].message = 0
                             /\ giveaway[g].shown = {} /\ memory.unacked[g] = 0
  BY DEF Init, Asleep, NoMessage
<1>2. \A g \in Giveaway : ~(g <= 0)
  BY FS_CardinalityType, FeedsAssumption DEF FeedsAssumption
<1>3. CursorOK
  BY <1>1, <1>2 DEF CursorOK, Announcing, ToCursor, NoGiveawayIsPassed
<1>4. AnnouncedOK
  BY <1>1 DEF AnnouncedOK, MessageOK, Announcing, ToCursor, AnnouncedResultsStand
<1>5. SplitInv
  BY <1>1 DEF SplitInv, SyncOK, PostOK, Syncing, HoldsRow, NoSplitIsForgotten
<1> QED BY <1>3, <1>4, <1>5

\* The steps of users on the VOD post, and of the poller outside its giveaways.
VodChanges == RequestVod \/ ArchiveEvent \/ UnarchiveEvent \/ OperatorRetries
LEMMA SplitsLeaveGiveaways ==
  ASSUME IInv, Splits
  PROVE  /\ giveaway' = giveaway
         /\ memory'.posted = memory.posted /\ memory'.unacked = memory.unacked
         /\ memory'.announced = memory.announced /\ memory'.cursor = memory.cursor
<1>1. MemoryTypes
  BY DEF IInv
<1>2. giveaway' = giveaway /\ (memory' = memory \/ Ends(Synced) \/ Ends(Failed))
  BY DEF Splits, RetrySplit, NoRetryYet, DiscoverSplit, DiscoverFails, ReadSplit, FetchPost,
         DeletePost, DeleteRefused, SaveCursors, CreatePost, CreatePostLost, SaveThread,
         SaveThreadFails, EditPost, ForeignSummary, ClosePost, SaveSync, SplitFails, Fails
<1> QED BY <1>1, <1>2 DEF MemoryTypes, Ends, Synced, Failed

LEMMA NotAGiveaway ==
  ASSUME IInv,
         \/ Wake \/ Vods \/ Splits \/ VodChanges \/ Crash \/ UNCHANGED vars
         \/ \E final, archived \in BOOLEAN : ChangeSplit(final, archived)
  PROVE  /\ giveaway' = giveaway /\ history \subseteq history'
         /\ memory'.posted = memory.posted /\ memory'.unacked = memory.unacked
         /\ memory'.announced = memory.announced /\ memory'.cursor = memory.cursor
         /\ poller' = poller \/ poller'.at \in {"idle", "give ack"} \cup VodAt \cup SplitAt
<1>1. CASE Wake \/ Crash
  <2>1. giveaway' = giveaway /\ memory' = memory /\ history \subseteq history'
    BY <1>1 DEF Wake, Crash, Mishap
  <2>2. \A at : [Asleep EXCEPT !.at = at].at = at
    BY DEF Asleep
  <2>3. poller'.at \in {"idle"} \cup VodAt
    <3>1. CASE Wake
      BY <2>2, <3>1 DEF Wake, VodAt
    <3>2. CASE Crash
      BY <3>2 DEF Crash, Asleep
    <3> QED BY <1>1, <3>1, <3>2
  <2> QED BY <2>1, <2>3
<1>2. CASE Vods
  <2>1. giveaway' = giveaway /\ memory' = memory /\ history' = history
    BY <1>2 DEF Vods, ListArchivedVods, RemoveVod, ConfirmVodRemoved, VodRemovalFails,
                ListPendingVods, ClaimVod, PostVod, RecordVod, VodFails, VodAnswerLost
  <2> QED BY <1>2, <2>1, VodsResult DEF VodResult
<1>3. CASE Splits
  <2>1. history \subseteq history'
    BY <1>3 DEF Splits, RetrySplit, NoRetryYet, DiscoverSplit, DiscoverFails, ReadSplit,
         FetchPost, DeletePost, DeleteRefused, SaveCursors, CreatePost, CreatePostLost,
         SaveThread, SaveThreadFails, EditPost, ForeignSummary, ClosePost, SaveSync,
         SplitFails, Fails
  <2> QED BY <1>3, <2>1, SplitsLeaveGiveaways, SplitsResult DEF SplitResult
<1>4. CASE VodChanges
  BY <1>4 DEF VodChanges, RequestVod, ArchiveEvent, UnarchiveEvent, OperatorRetries
<1>5. CASE UNCHANGED vars
  BY <1>5 DEF vars
<1>6. CASE \E final, archived \in BOOLEAN : ChangeSplit(final, archived)
  BY <1>6 DEF ChangeSplit
<1> QED BY <1>1, <1>2, <1>3, <1>4, <1>5, <1>6

----------------------------------------------------------------------------
(* The cursor of the giveaways.                                            *)

\* Steps that post nothing, open nothing and leave the list of the cycle alone.
LEMMA CursorElsewhere ==
  ASSUME CursorOK, \A g \in Giveaway : giveaway'[g].is = giveaway[g].is,
         memory'.posted = memory.posted, memory'.cursor = memory.cursor,
         \/ ~Announcing'
         \/ /\ poller'.at = poller.at /\ poller'.then = poller.then
            /\ poller'.item = poller.item /\ poller'.queue = poller.queue
            /\ poller'.blocked = poller.blocked
  PROVE  CursorOK'
<1>1. NoGiveawayIsPassed'
  BY DEF CursorOK, NoGiveawayIsPassed
<1>2. CASE ~Announcing'
  BY <1>1, <1>2 DEF CursorOK, Announcing
<1>3. CASE /\ poller'.at = poller.at /\ poller'.then = poller.then
           /\ poller'.item = poller.item /\ poller'.queue = poller.queue
           /\ poller'.blocked = poller.blocked
  BY <1>1, <1>3 DEF CursorOK, Announcing, ToCursor
<1> QED BY <1>2, <1>3

\* What is not above the cursor is not past it.
LEMMA NotAbove == \A m, n \in Nat : m > n \/ m <= n
OBVIOUS

\* Only users open and close giveaways.
LEMMA GiveawaysStayOpen ==
  ASSUME IInv, Giveaways
  PROVE  \A g \in Giveaway : giveaway'[g].is = giveaway[g].is
<1>1. GiveawayTypes
  BY DEF IInv
<1>2. CASE AckGiveaway
  <2>1. PICK h, n : giveaway' = [giveaway EXCEPT ![h].message = n]
    BY <1>2 DEF AckGiveaway
  <2> QED BY <1>1, <2>1 DEF GiveawayTypes
<1>3. CASE SendGiveaway \/ SendGiveawayLost
  <2>1. PICK h : giveaway' = [giveaway EXCEPT ![h].sent = @ + 1]
    BY <1>3 DEF SendGiveaway, SendGiveawayLost
  <2> QED BY <1>1, <2>1 DEF GiveawayTypes
<1>4. CASE EditResult
  <2>1. PICK h, n : giveaway' = [giveaway EXCEPT ![h].shown = @ \cup {n}]
    BY <1>4 DEF EditResult
  <2> QED BY <1>1, <2>1 DEF GiveawayTypes
<1>5. CASE PostWinner
  <2>1. PICK h : giveaway' = [giveaway EXCEPT ![h].winners = @ + 1]
    BY <1>5 DEF PostWinner
  <2> QED BY <1>1, <2>1 DEF GiveawayTypes
<1>6. CASE ~(AckGiveaway \/ SendGiveaway \/ SendGiveawayLost \/ EditResult \/ PostWinner)
  <2>1. giveaway' = giveaway
    BY <1>6 DEF Giveaways, BeginGiveaways, AckFails, EndAcks, ListGiveaways, ListGiveawaysFails,
         NextGiveaway, SendGiveawayFails, MoveCursor, BeginResults, ReadResult,
         ChannelUnreached, ResultFails, WinnerFails, EndResults
  <2> QED BY <2>1
<1> QED BY <1>2, <1>3, <1>4, <1>5, <1>6

LEMMA ListGiveawaysCursor ==
  ASSUME IInv, CursorOK, ListGiveaways
  PROVE  CursorOK'
<1>1. /\ giveaway' = giveaway /\ memory' = memory
      /\ poller'.at = "give next" /\ poller'.queue = NewGiveaways(memory.cursor)
  BY DEF IInv, PollerOK, ListGiveaways, Asleep
<1>2. Giveaway \subseteq Nat /\ memory.cursor \in Nat
  BY GiveawaysAreNat DEF IInv, MemoryTypes
<1>3. ASSUME NEW q \in NewGiveaways(memory.cursor), NEW g \in Giveaway, g < q
      PROVE  g \in memory.posted \cup NewGiveaways(memory.cursor)
  <2>1. giveaway[g].is # "absent"
    BY <1>3 DEF CursorOK, NewGiveaways
  <2>2. CASE g > memory.cursor
    BY <2>1, <2>2 DEF NewGiveaways
  <2>3. CASE g <= memory.cursor
    BY <2>3 DEF CursorOK, NoGiveawayIsPassed
  <2> QED BY <1>2, <2>2, <2>3, NotAbove
<1>4. NoGiveawayIsPassed'
  BY <1>1 DEF CursorOK, NoGiveawayIsPassed
<1> QED BY <1>1, <1>3, <1>4 DEF CursorOK, ToCursor

LEMMA NextGiveawayCursor ==
  ASSUME IInv, CursorOK, NextGiveaway
  PROVE  CursorOK'
<1>1. giveaway' = giveaway /\ memory' = memory /\ poller.at = "give next" /\ PollerOK
  BY DEF IInv, NextGiveaway
<1>2. CASE poller.queue = {}
  <2>1. poller'.at = "results"
    BY <1>2, PollerEnters DEF NextGiveaway
  <2>2. ~Announcing'
    BY <2>1 DEF Announcing, ToCursor
  <2>3. \A g \in Giveaway : giveaway'[g].is = giveaway[g].is
    BY <1>1
  <2> QED BY <1>1, <2>2, <2>3, CursorElsewhere
<1>3. CASE poller.queue # {}
  <2> DEFINE g == First(poller.queue)
  <2>1. g \in poller.queue /\ g \in Giveaway /\ \A q \in poller.queue : g <= q
    BY <1>1, <1>3, FirstIsLeast DEF PollerOK
  <2>2. poller' = [poller EXCEPT !.item = g, !.queue = @ \ {g},
                     !.at = IF g \in memory.posted THEN "give cursor" ELSE "give send"]
    BY <1>3 DEF NextGiveaway
  <2> HIDE DEF g
  <2>3. /\ poller'.item = g /\ poller'.queue = poller.queue \ {g}
        /\ poller'.blocked = poller.blocked
        /\ poller'.at = IF g \in memory.posted THEN "give cursor" ELSE "give send"
    BY <1>1, <2>2 DEF PollerOK, Asleep
  <2>4. ToCursor' => poller'.item \in memory'.posted
    BY <1>1, <2>3 DEF ToCursor
  <2>5. NoGiveawayIsPassed'
    BY <1>1 DEF CursorOK, NoGiveawayIsPassed
  <2>6. ASSUME ~poller'.blocked
        PROVE  /\ \A q \in poller'.queue, h \in Giveaway :
                    h < q => \/ h \in memory'.posted \cup poller'.queue
                             \/ poller'.at = "give send" /\ h = poller'.item
               /\ \A h \in Giveaway : h < poller'.item => h \in memory'.posted
    <3>1. \A q \in poller.queue, h \in Giveaway :
            h < q => h \in memory.posted \cup poller.queue
      BY <1>1, <2>3, <2>6 DEF CursorOK, Announcing
    <3>2. \A h \in Giveaway : h < g /\ h \in poller.queue => FALSE
      BY <2>1, GiveawaysAreNat
    <3> QED BY <1>1, <2>1, <2>3, <3>1, <3>2
  <2> QED BY <1>1, <2>4, <2>5, <2>6 DEF CursorOK
<1> QED BY <1>2, <1>3

LEMMA SendGiveawayCursor ==
  ASSUME IInv, CursorOK, SendGiveaway \/ SendGiveawayFails \/ SendGiveawayLost
  PROVE  CursorOK'
<1>1. PollerOK /\ MemoryTypes /\ GiveawayTypes /\ poller.at = "give send"
  BY DEF IInv, SendGiveaway, SendGiveawayFails, SendGiveawayLost
<1>2. \A g \in Giveaway : giveaway'[g].is = giveaway[g].is
  BY GiveawaysStayOpen DEF Giveaways
<1>3. CASE SendGiveaway
  <2>1. /\ poller'.at = "give acks" /\ poller'.item = poller.item
        /\ poller'.queue = poller.queue /\ poller'.blocked = poller.blocked
    BY <1>1, <1>3 DEF SendGiveaway, StartAcks, PollerOK, Asleep
  <2>2. memory'.posted = memory.posted \cup {poller.item} /\ memory'.cursor = memory.cursor
    BY <1>1, <1>3 DEF SendGiveaway, MemoryTypes
  <2>3. NoGiveawayIsPassed'
    BY <2>2 DEF CursorOK, NoGiveawayIsPassed
  <2> QED BY <1>1, <1>2, <2>1, <2>2, <2>3 DEF CursorOK, Announcing, ToCursor
<1>4. CASE SendGiveawayFails \/ SendGiveawayLost
  <2>1. memory' = memory /\ poller' = [poller EXCEPT !.at = "give next", !.blocked = TRUE]
    BY <1>4 DEF SendGiveawayFails, SendGiveawayLost
  <2>2. poller'.at = "give next" /\ poller'.blocked = TRUE
    BY <1>1, <2>1 DEF PollerOK, Asleep
  <2>3. NoGiveawayIsPassed'
    BY <2>1 DEF CursorOK, NoGiveawayIsPassed
  <2> QED BY <1>2, <2>1, <2>2, <2>3 DEF CursorOK, ToCursor
<1> QED BY <1>3, <1>4

LEMMA MoveCursorCursor ==
  ASSUME IInv, CursorOK, MoveCursor
  PROVE  CursorOK'
<1>1. /\ PollerOK /\ MemoryTypes /\ poller.at = "give cursor" /\ giveaway' = giveaway
      /\ Goes("give next")
      /\ memory' = IF poller.blocked \/ poller.item <= memory.cursor THEN memory
                   ELSE [memory EXCEPT !.cursor = poller.item]
  BY DEF IInv, MoveCursor
<1>2. /\ poller'.at = "give next" /\ poller'.queue = poller.queue
      /\ poller'.blocked = poller.blocked
  BY <1>1, PollerGoes
<1>3. /\ memory'.posted = memory.posted
      /\ \/ memory'.cursor = memory.cursor
         \/ memory'.cursor = poller.item /\ ~poller.blocked
  BY <1>1 DEF MemoryTypes
<1>4. NoGiveawayIsPassed'
  <2>1. CASE memory'.cursor = memory.cursor
    BY <1>3, <2>1 DEF CursorOK, NoGiveawayIsPassed
  <2>2. CASE memory'.cursor = poller.item /\ ~poller.blocked
    <3>1. poller.item \in memory.posted /\ \A g \in Giveaway : g < poller.item => g \in memory.posted
      BY <1>1, <2>2 DEF CursorOK, Announcing, ToCursor
    <3>2. poller.item \in Nat /\ Giveaway \subseteq Nat
      BY <1>1, GiveawaysAreNat DEF PollerOK
    <3>3. \A g \in Giveaway : g <= poller.item => g < poller.item \/ g = poller.item
      BY <3>2
    <3> QED BY <1>3, <2>2, <3>1, <3>3 DEF NoGiveawayIsPassed
  <2> QED BY <1>3, <2>1, <2>2
<1> QED BY <1>1, <1>2, <1>3, <1>4 DEF CursorOK, Announcing, ToCursor

\* The acknowledgements lead back to where the cycle was.
LEMMA AcksCursor ==
  ASSUME IInv, CursorOK, BeginGiveaways \/ AckGiveaway \/ AckFails \/ EndAcks
  PROVE  CursorOK'
<1>1. PollerOK /\ MemoryTypes /\ GiveawayTypes
  BY DEF IInv
<1>2. /\ \A g \in Giveaway : giveaway'[g].is = giveaway[g].is
      /\ memory'.posted = memory.posted /\ memory'.cursor = memory.cursor
  <2>1. memory' = memory \/ \E h : memory' = [memory EXCEPT !.unacked[h] = NoMessage]
    BY DEF BeginGiveaways, AckGiveaway, AckFails, EndAcks
  <2> QED BY <1>1, <2>1, GiveawaysStayOpen DEF MemoryTypes, Giveaways
<1>3. CASE BeginGiveaways
  <2>1. poller'.at = "give acks" /\ poller'.then = "give list"
    BY <1>1, <1>3 DEF BeginGiveaways, PollerOK, Asleep
  <2> QED BY <1>2, <2>1, CursorElsewhere DEF Announcing, ToCursor
<1>4. CASE AckGiveaway \/ AckFails
  <2>1. PICK g : poller' = [poller EXCEPT !.todo = @ \ {g}]
    BY <1>4 DEF AckGiveaway, AckFails
  <2>2. /\ poller'.at = poller.at /\ poller'.then = poller.then
        /\ poller'.item = poller.item /\ poller'.queue = poller.queue
        /\ poller'.blocked = poller.blocked
    BY <1>1, <2>1 DEF PollerOK, Asleep
  <2> QED BY <1>2, <2>2, CursorElsewhere
<1>5. CASE EndAcks
  <2>1. /\ poller.at = "give acks" /\ poller'.at = poller.then
        /\ poller'.then = poller.then /\ poller'.item = poller.item
        /\ poller'.queue = poller.queue /\ poller'.blocked = poller.blocked
    BY <1>1, <1>5, PollerGoes DEF EndAcks
  <2>2. poller.then \in {"give list", "give cursor"}
    BY <1>1, <2>1 DEF PollerOK
  <2>3. NoGiveawayIsPassed'
    BY <1>2 DEF CursorOK, NoGiveawayIsPassed
  <2>4. CASE poller.then = "give list"
    BY <1>2, <2>1, <2>4, CursorElsewhere DEF Announcing, ToCursor
  <2>5. CASE poller.then = "give cursor"
    BY <1>2, <2>1, <2>3, <2>5 DEF CursorOK, Announcing, ToCursor
  <2> QED BY <2>2, <2>4, <2>5
<1> QED BY <1>3, <1>4, <1>5

LEMMA GiveawaysCursor ==
  ASSUME IInv, CursorOK, Giveaways
  PROVE  CursorOK'
<1>1. CASE ListGiveawaysFails \/ BeginResults \/ ReadResult \/ EditResult \/ ChannelUnreached
           \/ ResultFails \/ PostWinner \/ WinnerFails \/ EndResults
  <2>1. PollerOK /\ MemoryTypes /\ GiveawayTypes
    BY DEF IInv
  <2>2. /\ \A g \in Giveaway : giveaway'[g].is = giveaway[g].is
        /\ memory'.posted = memory.posted /\ memory'.cursor = memory.cursor
    <3>1. memory' = memory \/ \E h : Announce(h)
      BY <1>1 DEF ListGiveawaysFails, BeginResults, ReadResult, EditResult, ChannelUnreached,
                  ResultFails, PostWinner, WinnerFails, EndResults
    <3> QED BY <2>1, <3>1, GiveawaysStayOpen DEF Giveaways, MemoryTypes, Announce
  <2>3. poller'.at \in ResultAt \cup {"split retry"}
    BY <1>1, <2>1 DEF ListGiveawaysFails, BeginResults, ReadResult, EditResult,
         ChannelUnreached, ResultFails, PostWinner, WinnerFails, EndResults, Goes, Enters,
         PollerOK, Asleep, ResultAt
  <2> QED BY <2>2, <2>3, CursorElsewhere DEF Announcing, ToCursor, ResultAt
<1> QED
  BY <1>1, ListGiveawaysCursor, NextGiveawayCursor, SendGiveawayCursor, MoveCursorCursor,
     AcksCursor DEF Giveaways

LEMMA OpenCursor ==
  ASSUME IInv, CursorOK, NEW g \in Giveaway, OpenGiveaway(g)
  PROVE  CursorOK'
<1>1. /\ giveaway' = [giveaway EXCEPT ![g].is = "open"]
      /\ \A h \in 1..(g - 1) : giveaway[h].is # "absent"
      /\ memory' = memory /\ poller' = poller /\ GiveawayTypes
  BY DEF IInv, OpenGiveaway
<1>2. \A h \in Giveaway : giveaway'[h].is = IF h = g THEN "open" ELSE giveaway[h].is
  BY <1>1 DEF GiveawayTypes
<1>3. \A h \in Giveaway : h < g => h \in 1..(g - 1)
  BY FS_CardinalityType, FeedsAssumption DEF FeedsAssumption
<1>4. NoGiveawayIsPassed'
  BY <1>1 DEF CursorOK, NoGiveawayIsPassed
<1>5. \A i, h \in Giveaway :
        h < i /\ giveaway'[i].is # "absent" => giveaway'[h].is # "absent"
  <2> TAKE i, h \in Giveaway
  <2> HAVE h < i /\ giveaway'[i].is # "absent"
  <2>1. CASE i = g
    <3>1. giveaway[h].is # "absent"
      BY <1>1, <1>3, <2>1
    <3> QED BY <1>2, <3>1
  <2>2. CASE i # g
    <3>1. giveaway[h].is # "absent"
      BY <1>2, <2>2 DEF CursorOK
    <3> QED BY <1>2, <3>1
  <2> QED BY <2>1, <2>2
<1> QED BY <1>1, <1>4, <1>5 DEF CursorOK, Announcing, ToCursor

LEMMA CloseCursor ==
  ASSUME IInv, CursorOK, NEW g \in Giveaway, NEW outcome \in {"drawn", "cancelled"},
         CloseGiveaway(g, outcome)
  PROVE  CursorOK'
<1>1. /\ giveaway' = [giveaway EXCEPT ![g].is = outcome] /\ giveaway[g].is = "open"
      /\ memory' = memory /\ poller' = poller /\ GiveawayTypes
  BY DEF IInv, CloseGiveaway
<1>2. \A h \in Giveaway : giveaway'[h].is = "absent" <=> giveaway[h].is = "absent"
  BY <1>1 DEF GiveawayTypes
<1>3. NoGiveawayIsPassed'
  BY <1>1 DEF CursorOK, NoGiveawayIsPassed
<1> QED BY <1>1, <1>2, <1>3 DEF CursorOK, Announcing, ToCursor

LEMMA NextKeepsCursor == IInv /\ CursorOK /\ [Next]_vars => CursorOK'
<1> SUFFICES ASSUME IInv, CursorOK, Next \/ UNCHANGED vars PROVE CursorOK'
  OBVIOUS
<1>1. CASE \/ Wake \/ Vods \/ Splits \/ VodChanges \/ Crash \/ UNCHANGED vars
           \/ \E final, archived \in BOOLEAN : ChangeSplit(final, archived)
  <2>1. /\ \A g \in Giveaway : giveaway'[g].is = giveaway[g].is
        /\ memory'.posted = memory.posted /\ memory'.cursor = memory.cursor
        /\ poller' = poller \/ poller'.at \in {"idle", "give ack"} \cup VodAt \cup SplitAt
    BY <1>1, NotAGiveaway
  <2>2. poller' = poller \/ ~Announcing'
    BY <2>1 DEF Announcing, ToCursor, VodAt, SplitAt
  <2> QED BY <2>1, <2>2, CursorElsewhere
<1>2. CASE Giveaways
  BY <1>2, GiveawaysCursor
<1>3. ASSUME NEW g \in Giveaway, OpenGiveaway(g)
      PROVE  CursorOK'
  BY <1>3, OpenCursor
<1>4. ASSUME NEW g \in Giveaway, \E outcome \in {"drawn", "cancelled"} : CloseGiveaway(g, outcome)
      PROVE  CursorOK'
  BY <1>4, CloseCursor
<1> QED BY <1>1, <1>2, <1>3, <1>4 DEF Next, Cycle, VodChanges

----------------------------------------------------------------------------
(* The announced results.                                                  *)

MessageAt == {"give next", "give send", "give cursor", "give acks", "result edit",
              "result winner"}
\* Steps that leave the giveaways, their messages and the place of the cycle alone.
LEMMA AnnouncedElsewhere ==
  ASSUME AnnouncedOK, giveaway' = giveaway, history \subseteq history',
         memory'.posted = memory.posted, memory'.unacked = memory.unacked,
         memory'.announced = memory.announced,
         poller' = poller \/ poller'.at \notin MessageAt
  PROVE  AnnouncedOK'
<1>1. /\ \A g \in Giveaway : MessageOK(g)'
      /\ \A g \in memory'.posted : giveaway'[g].is # "absent"
  BY DEF AnnouncedOK, MessageOK
<1>2. AnnouncedResultsStand'
  BY DEF AnnouncedOK, AnnouncedResultsStand, ResultShows
<1>3. CASE poller' = poller
  BY <1>1, <1>2, <1>3 DEF AnnouncedOK, Announcing, ToCursor, Closed, ResultShows
<1>4. CASE poller'.at \notin MessageAt
  BY <1>1, <1>2, <1>4 DEF AnnouncedOK, Announcing, ToCursor, MessageAt
<1> QED BY <1>3, <1>4

\* What of a giveaway its messages and its result are read from.
SameGiveaway(g) == /\ giveaway'[g].is = giveaway[g].is
                   /\ giveaway'[g].message = giveaway[g].message
                   /\ giveaway'[g].shown = giveaway[g].shown

\* Between the list and the last giveaway of a cycle, the parts on results are idle.
LEMMA AnnouncingKeeps ==
  ASSUME AnnouncedOK, poller'.at \in GiveAt, history \subseteq history',
         \A g \in Giveaway : MessageOK(g)',
         \A g \in memory'.posted : giveaway'[g].is # "absent",
         Announcing' => \A g \in poller'.queue : giveaway'[g].is # "absent",
         poller'.at = "give send" => giveaway'[poller'.item].is # "absent",
         poller'.at = "give acks" => \A g \in poller'.todo : memory'.unacked[g] # 0,
         AnnouncedResultsStand'
  PROVE  AnnouncedOK'
<1>1. poller'.at \notin {"result edit", "result winner"}
  BY DEF GiveAt
<1> QED BY <1>1 DEF AnnouncedOK

LEMMA AckGiveawayAnnounced ==
  ASSUME IInv, AnnouncedOK, AckGiveaway
  PROVE  AnnouncedOK'
<1> DEFINE g == First(poller.todo)
<1>1. PollerOK /\ MemoryTypes /\ GiveawayTypes
  BY DEF IInv
<1>2. /\ poller.at = "give acks" /\ g \in poller.todo /\ g \in Giveaway
  BY <1>1, FirstIsIn DEF AckGiveaway, PollerOK
<1>3. /\ giveaway' = [giveaway EXCEPT ![g].message = memory.unacked[g]]
      /\ memory' = [memory EXCEPT !.unacked[g] = NoMessage]
      /\ poller' = [poller EXCEPT !.todo = @ \ {g}] /\ history' = history
  BY DEF AckGiveaway
<1> HIDE DEF g
<1>4. \A h \in Giveaway :
        /\ giveaway'[h].is = giveaway[h].is /\ giveaway'[h].shown = giveaway[h].shown
        /\ giveaway'[h].message = IF h = g THEN memory.unacked[g] ELSE giveaway[h].message
        /\ memory'.unacked[h] = IF h = g THEN 0 ELSE memory.unacked[h]
  BY <1>1, <1>2, <1>3 DEF GiveawayTypes, MemoryTypes, NoMessage
<1>5. memory'.posted = memory.posted /\ memory'.announced = memory.announced
      /\ memory.posted \subseteq Giveaway /\ memory.announced \subseteq Giveaway
  BY <1>1, <1>3 DEF MemoryTypes
<1>6. /\ poller'.at = "give acks" /\ poller'.todo = poller.todo \ {g}
      /\ poller'.queue = poller.queue /\ poller'.then = poller.then
  BY <1>1, <1>2, <1>3 DEF PollerOK, Asleep
<1>7. memory.unacked[g] # 0 /\ giveaway[g].message = 0
  BY <1>2 DEF AnnouncedOK, MessageOK
<1>8. ASSUME NEW h \in Giveaway PROVE MessageOK(h)'
  <2>1. MessageOK(h)
    BY DEF AnnouncedOK
  <2> QED BY <1>4, <1>5, <2>1 DEF MessageOK
<1>9. AnnouncedResultsStand'
  <2>1. ASSUME NEW h \in memory.announced
        PROVE  /\ giveaway'[h].is \in {"drawn", "cancelled"}
               /\ ResultShows(h)' \/ history \cap {"drawn unrecorded", "channel unreached"} # {}
    <3>1. /\ h \in Giveaway /\ giveaway[h].is \in {"drawn", "cancelled"}
          /\ ResultShows(h) \/ history \cap {"drawn unrecorded", "channel unreached"} # {}
          /\ MessageOK(h)
      BY <1>5 DEF AnnouncedOK, AnnouncedResultsStand
    <3>2. ResultShows(h) => ResultShows(h)'
      BY <1>4, <1>7, <3>1 DEF ResultShows, MessageOK
    <3> QED BY <1>4, <3>1, <3>2
  <2> QED BY <1>3, <1>5, <2>1 DEF AnnouncedResultsStand
<1>10. /\ \A h \in memory'.posted : giveaway'[h].is # "absent"
       /\ Announcing' => \A h \in poller'.queue : giveaway'[h].is # "absent"
  <2>1. poller.queue \subseteq Giveaway
    BY <1>1 DEF PollerOK
  <2> QED BY <1>2, <1>4, <1>5, <1>6, <2>1 DEF AnnouncedOK, Announcing, ToCursor
<1>11. \A h \in poller'.todo : memory'.unacked[h] # 0
  <2>1. poller.todo \subseteq Giveaway
    BY <1>1 DEF PollerOK
  <2> QED BY <1>2, <1>4, <1>6, <2>1 DEF AnnouncedOK
<1> QED BY <1>3, <1>6, <1>8, <1>9, <1>10, <1>11, AnnouncingKeeps DEF GiveAt

\* The acknowledgements begin, fail or end; nothing of the giveaways changes.
LEMMA AcksAnnounced ==
  ASSUME IInv, AnnouncedOK, BeginGiveaways \/ AckFails \/ EndAcks
  PROVE  AnnouncedOK'
<1>1. PollerOK /\ MemoryTypes
  BY DEF IInv
<1>2. giveaway' = giveaway /\ memory' = memory /\ history' = history
  BY DEF BeginGiveaways, AckFails, EndAcks
<1>3. /\ \A g \in Giveaway : MessageOK(g)'
      /\ \A g \in memory'.posted : giveaway'[g].is # "absent"
      /\ AnnouncedResultsStand'
  BY <1>2 DEF AnnouncedOK, MessageOK, AnnouncedResultsStand, ResultShows
<1>4. CASE BeginGiveaways
  <2>1. poller'.at = "give acks" /\ poller'.then = "give list" /\ poller'.todo = Unacked
    BY <1>1, <1>4 DEF BeginGiveaways, PollerOK, Asleep
  <2>2. \A g \in poller'.todo : memory'.unacked[g] # 0
    BY <1>2, <2>1 DEF Unacked, NoMessage
  <2> QED BY <1>2, <1>3, <2>1, <2>2, AnnouncingKeeps DEF GiveAt, Announcing, ToCursor
<1>5. CASE AckFails
  <2>1. PICK g : poller' = [poller EXCEPT !.todo = @ \ {g}] /\ poller.at = "give acks"
    BY <1>5 DEF AckFails
  <2>2. /\ poller'.at = "give acks" /\ poller'.todo \subseteq poller.todo
        /\ poller'.then = poller.then /\ poller'.queue = poller.queue
    BY <1>1, <2>1 DEF PollerOK, Asleep
  <2>3. /\ Announcing' => \A h \in poller'.queue : giveaway'[h].is # "absent"
        /\ \A h \in poller'.todo : memory'.unacked[h] # 0
    BY <1>2, <2>1, <2>2 DEF AnnouncedOK, Announcing, ToCursor
  <2> QED BY <1>2, <1>3, <2>2, <2>3, AnnouncingKeeps DEF GiveAt
<1>6. CASE EndAcks
  <2>1. /\ poller.at = "give acks" /\ poller'.at = poller.then
        /\ poller'.then = poller.then /\ poller'.queue = poller.queue
    BY <1>1, <1>6, PollerGoes DEF EndAcks
  <2>2. poller'.at \in {"give list", "give cursor"}
    BY <1>1, <2>1 DEF PollerOK
  <2>3. Announcing' => \A h \in poller'.queue : giveaway'[h].is # "absent"
    BY <1>2, <2>1, <2>2 DEF AnnouncedOK, Announcing, ToCursor
  <2> QED BY <1>2, <1>3, <2>2, <2>3, AnnouncingKeeps DEF GiveAt
<1> QED BY <1>4, <1>5, <1>6

LEMMA ListsAnnounced ==
  ASSUME IInv, AnnouncedOK, ListGiveaways \/ NextGiveaway \/ SendGiveawayFails \/ MoveCursor
  PROVE  AnnouncedOK'
<1>1. PollerOK /\ MemoryTypes
  BY DEF IInv
<1>2. /\ giveaway' = giveaway /\ history' = history
      /\ memory'.posted = memory.posted /\ memory'.unacked = memory.unacked
      /\ memory'.announced = memory.announced
  <2>1. memory' = memory \/ memory' = [memory EXCEPT !.cursor = poller.item]
    BY DEF ListGiveaways, NextGiveaway, SendGiveawayFails, MoveCursor
  <2> QED
    BY <1>1, <2>1 DEF MemoryTypes, ListGiveaways, NextGiveaway, SendGiveawayFails, MoveCursor
<1>3. /\ \A g \in Giveaway : MessageOK(g)'
      /\ \A g \in memory'.posted : giveaway'[g].is # "absent"
      /\ AnnouncedResultsStand'
  BY <1>2 DEF AnnouncedOK, MessageOK, AnnouncedResultsStand, ResultShows
<1>4. CASE ListGiveaways
  <2>1. poller'.at = "give next" /\ poller'.queue = NewGiveaways(memory.cursor)
    BY <1>1, <1>4 DEF ListGiveaways, PollerOK, Asleep
  <2>2. \A g \in poller'.queue : giveaway'[g].is # "absent"
    BY <1>2, <2>1 DEF NewGiveaways
  <2> QED BY <1>2, <1>3, <2>1, <2>2, AnnouncingKeeps DEF GiveAt
<1>5. CASE NextGiveaway /\ poller.queue = {}
  <2>1. poller'.at = "results"
    BY <1>5, PollerEnters DEF NextGiveaway
  <2> QED BY <1>2, <2>1, AnnouncedElsewhere DEF MessageAt
<1>6. CASE NextGiveaway /\ poller.queue # {}
  <2> DEFINE g == First(poller.queue)
  <2>1. g \in poller.queue
    BY <1>1, <1>6, FirstIsIn DEF PollerOK
  <2>2. /\ poller' = [poller EXCEPT !.item = g, !.queue = @ \ {g},
                        !.at = IF g \in memory.posted THEN "give cursor" ELSE "give send"]
        /\ poller.at = "give next"
    BY <1>6 DEF NextGiveaway
  <2> HIDE DEF g
  <2>3. /\ poller'.at \in {"give cursor", "give send"} /\ poller'.item = g
        /\ poller'.queue \subseteq poller.queue
    BY <1>1, <2>2 DEF PollerOK, Asleep
  <2>4. \A h \in poller.queue : giveaway[h].is # "absent"
    BY <2>2 DEF AnnouncedOK, Announcing
  <2> QED BY <1>2, <1>3, <2>1, <2>3, <2>4, AnnouncingKeeps DEF GiveAt
<1>7. CASE SendGiveawayFails \/ MoveCursor
  <2>1. /\ Announcing /\ \/ Goes("give next")
                         \/ poller' = [poller EXCEPT !.at = "give next", !.blocked = TRUE]
    BY <1>7 DEF SendGiveawayFails, MoveCursor, Announcing, ToCursor
  <2>2. poller'.at = "give next" /\ poller'.queue = poller.queue
    BY <1>1, <2>1 DEF Goes, PollerOK, Asleep
  <2>3. \A h \in poller.queue : giveaway[h].is # "absent"
    BY <2>1 DEF AnnouncedOK
  <2> QED BY <1>2, <1>3, <2>2, <2>3, AnnouncingKeeps DEF GiveAt
<1> QED BY <1>4, <1>5, <1>6, <1>7

LEMMA SendsAnnounced ==
  ASSUME IInv, AnnouncedOK, SendGiveaway \/ SendGiveawayLost
  PROVE  AnnouncedOK'
<1> DEFINE g == poller.item
<1>1. PollerOK /\ MemoryTypes /\ GiveawayTypes /\ ResultsOK /\ poller.at = "give send"
  BY DEF IInv, SendGiveaway, SendGiveawayLost
<1>2. /\ g \in Giveaway /\ g \notin memory.posted /\ giveaway[g].is # "absent"
      /\ poller.queue \subseteq Giveaway
      /\ \A h \in poller.queue : giveaway[h].is # "absent"
  BY <1>1 DEF PollerOK, ResultsOK, AnnouncedOK, Announcing
<1>3. giveaway' = [giveaway EXCEPT ![g].sent = @ + 1] /\ history \subseteq history'
  BY DEF SendGiveaway, SendGiveawayLost, Mishap
<1>4. \A h \in Giveaway : SameGiveaway(h)
  <2> HIDE DEF g
  <2> QED BY <1>1, <1>3 DEF GiveawayTypes, SameGiveaway
<1>5. /\ memory.posted \subseteq Giveaway /\ memory.announced \subseteq Giveaway
      /\ giveaway[g].message = 0 /\ memory.unacked[g] = 0
  BY <1>1, <1>2 DEF MemoryTypes, AnnouncedOK, MessageOK
<1>6. CASE SendGiveaway
  <2>1. /\ memory' = [memory EXCEPT !.posted = @ \cup {g}, !.unacked[g] = giveaway[g].sent + 1]
        /\ poller' = [poller EXCEPT !.at = "give acks", !.todo = Unacked', !.then = "give cursor"]
    BY <1>6 DEF SendGiveaway, StartAcks
  <2>2. /\ poller'.at = "give acks" /\ poller'.todo = Unacked' /\ poller'.queue = poller.queue
    BY <1>1, <2>1 DEF PollerOK, Asleep
  <2> HIDE DEF g
  <2>3. /\ memory'.posted = memory.posted \cup {g} /\ memory'.announced = memory.announced
        /\ \A h \in Giveaway : h # g => memory'.unacked[h] = memory.unacked[h]
    BY <1>1, <1>2, <2>1 DEF MemoryTypes
  <2>4. ASSUME NEW h \in Giveaway PROVE MessageOK(h)'
    <3>1. MessageOK(h)
      BY DEF AnnouncedOK
    <3> QED BY <1>4, <1>5, <2>3, <3>1 DEF MessageOK, SameGiveaway
  <2>5. \A h \in memory'.posted \cup poller'.queue : giveaway'[h].is # "absent"
    BY <1>2, <1>4, <1>5, <2>2, <2>3 DEF AnnouncedOK, SameGiveaway
  <2>6. AnnouncedResultsStand'
    BY <1>3, <1>4, <1>5, <2>3 DEF AnnouncedOK, AnnouncedResultsStand, ResultShows, SameGiveaway
  <2>7. \A h \in poller'.todo : memory'.unacked[h] # 0
    BY <2>2 DEF Unacked, NoMessage
  <2> QED BY <1>3, <2>2, <2>4, <2>5, <2>6, <2>7, AnnouncingKeeps DEF GiveAt
<1>7. CASE SendGiveawayLost
  <2>1. memory' = memory /\ poller' = [poller EXCEPT !.at = "give next", !.blocked = TRUE]
    BY <1>7 DEF SendGiveawayLost
  <2>2. poller'.at = "give next" /\ poller'.queue = poller.queue
    BY <1>1, <2>1 DEF PollerOK, Asleep
  <2> HIDE DEF g
  <2>3. ASSUME NEW h \in Giveaway PROVE MessageOK(h)'
    BY <1>4, <2>1 DEF AnnouncedOK, MessageOK, SameGiveaway
  <2>4. \A h \in memory'.posted \cup poller'.queue : giveaway'[h].is # "absent"
    BY <1>2, <1>4, <1>5, <2>1, <2>2 DEF AnnouncedOK, SameGiveaway
  <2>5. AnnouncedResultsStand'
    BY <1>3, <1>4, <1>5, <2>1 DEF AnnouncedOK, AnnouncedResultsStand, ResultShows, SameGiveaway
  <2> QED BY <1>3, <2>2, <2>3, <2>4, <2>5, AnnouncingKeeps DEF GiveAt
<1> QED BY <1>6, <1>7

\* A result that is announced is that of a closed giveaway whose message shows it, or
\* something went wrong.
LEMMA AnnouncesRightly ==
  ASSUME MemoryTypes, AnnouncedOK, NEW g \in Giveaway, Announce(g), Closed(g)',
         \/ ResultShows(g)'
         \/ history' \cap {"drawn unrecorded", "channel unreached"} # {},
         history \subseteq history',
         \A h \in Giveaway : /\ giveaway'[h].is = giveaway[h].is
                             /\ ResultShows(h) => ResultShows(h)'
  PROVE  AnnouncedResultsStand'
<1>1. memory'.announced = memory.announced \cup {g} /\ memory.announced \subseteq Giveaway
  BY DEF MemoryTypes, Announce
<1> QED BY <1>1 DEF AnnouncedOK, AnnouncedResultsStand, Closed

LEMMA ReadResultAnnounced ==
  ASSUME IInv, AnnouncedOK, ReadResult
  PROVE  AnnouncedOK'
<1>1. PollerOK /\ MemoryTypes /\ GiveawayTypes /\ ResultsOK
  BY DEF IInv
<1>0. PICK g \in Giveaway : g = First(poller.todo) /\ g \in memory.posted
  BY <1>1, FirstIsIn DEF ReadResult, PollerOK, ResultsOK
<1> DEFINE closed == giveaway[g].is # "open"
           bare == closed /\ giveaway[g].message = NoMessage
<1>2. /\ poller.at = "result next" /\ giveaway' = giveaway
      /\ poller' = [poller EXCEPT !.todo = @ \ {g}, !.item = g, !.read = Row(giveaway[g]),
                      !.at = IF closed /\ ~bare THEN "result edit" ELSE @]
      /\ IF bare THEN Announce(g) /\ Mishap("drawn unrecorded")
         ELSE memory' = memory /\ history' = history
  BY <1>0 DEF ReadResult
<1>4. Row(giveaway[g]).message = giveaway[g].message
  BY <1>1, <1>0 DEF Row, GiveawayTypes
<1>5. /\ poller'.item = g /\ poller'.read = Row(giveaway[g])
      /\ poller'.at = IF closed /\ ~bare THEN "result edit" ELSE "result next"
  BY <1>1, <1>2 DEF PollerOK, Asleep
<1>6. closed => Closed(g)
  <2>1. giveaway[g].is \in {"absent", "open", "drawn", "cancelled"}
    BY <1>1, <1>0 DEF GiveawayTypes
  <2>2. giveaway[g].is # "absent"
    BY <1>0 DEF AnnouncedOK
  <2> QED BY <2>1, <2>2 DEF Closed
<1>7. /\ memory'.posted = memory.posted /\ memory'.unacked = memory.unacked
      /\ history \subseteq history'
  <2>1. CASE bare
    BY <1>1, <1>2, <1>0, <2>1, AnnounceKeeps DEF Mishap
  <2>2. CASE ~bare
    BY <1>2, <2>2
  <2> QED BY <2>1, <2>2
<1>8. AnnouncedResultsStand'
  <2>1. CASE bare
    <3>1. /\ Announce(g) /\ Closed(g)' /\ "drawn unrecorded" \in history'
          /\ \A h \in Giveaway : ResultShows(h) => ResultShows(h)'
      BY <1>2, <1>6, <2>1 DEF Mishap, Closed, ResultShows
    <3> QED BY <1>1, <1>2, <1>0, <1>7, <3>1, AnnouncesRightly
  <2>2. CASE ~bare
    BY <1>2, <2>2 DEF AnnouncedOK, AnnouncedResultsStand, ResultShows
  <2> QED BY <2>1, <2>2
<1>9. /\ \A h \in Giveaway : MessageOK(h)'
      /\ \A h \in memory'.posted : giveaway'[h].is # "absent"
  BY <1>2, <1>7 DEF AnnouncedOK, MessageOK
<1>10. poller'.at = "result edit" =>
         /\ Closed(g)' /\ poller'.read.message = giveaway'[g].message
         /\ giveaway'[g].message # 0
  BY <1>2, <1>4, <1>5, <1>6 DEF Closed, NoMessage
<1> HIDE DEF closed, bare
<1>11. poller'.at \in {"result next", "result edit"}
  BY <1>5
<1> QED BY <1>5, <1>8, <1>9, <1>10, <1>11 DEF AnnouncedOK, Announcing, ToCursor

LEMMA EditResultAnnounced ==
  ASSUME IInv, AnnouncedOK, EditResult
  PROVE  AnnouncedOK'
<1>1. PollerOK /\ MemoryTypes /\ GiveawayTypes /\ ResultsOK
  BY DEF IInv
<1>0. PICK g \in Giveaway : g = poller.item
  BY <1>1 DEF EditResult, ResultsOK, MemoryTypes
<1>2. /\ poller.at = "result edit" /\ history' = history
      /\ giveaway' = [giveaway EXCEPT ![g].shown = @ \cup {poller.read.message}]
      /\ IF poller.read.is = "drawn" THEN Goes("result winner") /\ memory' = memory
         ELSE Goes("result next") /\ Announce(g)
  BY <1>0 DEF EditResult
<1>3. /\ g \in Giveaway /\ g \in memory.posted /\ Closed(g)
      /\ poller.read.message = giveaway[g].message /\ giveaway[g].message # 0
  BY <1>0, <1>1, <1>2 DEF ResultsOK, MemoryTypes, AnnouncedOK
<1>4. /\ poller'.at \in {"result winner", "result next"} /\ poller'.item = g
  BY <1>0, <1>1, <1>2, PollerGoes
<1>5. /\ memory'.posted = memory.posted /\ memory'.unacked = memory.unacked
      /\ memory.posted \subseteq Giveaway /\ memory.announced \subseteq Giveaway
  BY <1>1, <1>2, <1>3, AnnounceKeeps DEF MemoryTypes
<1>6. \A h \in Giveaway :
        /\ giveaway'[h].is = giveaway[h].is /\ giveaway'[h].message = giveaway[h].message
        /\ giveaway'[h].shown = IF h = g THEN giveaway[g].shown \cup {giveaway[g].message}
                                ELSE giveaway[h].shown
  BY <1>1, <1>2, <1>3 DEF GiveawayTypes
<1>7. /\ ResultShows(g)' /\ Closed(g)'
      /\ \A h \in Giveaway : ResultShows(h) => ResultShows(h)'
  BY <1>3, <1>6 DEF ResultShows, Closed
<1>8. ASSUME NEW h \in Giveaway PROVE MessageOK(h)'
  <2>1. MessageOK(h)
    BY DEF AnnouncedOK
  <2> QED BY <1>3, <1>5, <1>6, <2>1 DEF MessageOK
<1>9. AnnouncedResultsStand'
  <2>1. CASE poller.read.is = "drawn"
    BY <1>2, <1>5, <1>6, <1>7, <2>1 DEF AnnouncedOK, AnnouncedResultsStand
  <2>2. CASE poller.read.is # "drawn"
    <3>1. Announce(g) /\ \A h \in Giveaway : giveaway'[h].is = giveaway[h].is
      BY <1>2, <1>6, <2>2
    <3> QED BY <1>1, <1>2, <1>3, <1>7, <3>1, AnnouncesRightly
  <2> QED BY <2>1, <2>2
<1>10. \A h \in memory'.posted : giveaway'[h].is # "absent"
  BY <1>5, <1>6 DEF AnnouncedOK
<1> QED BY <1>4, <1>7, <1>8, <1>9, <1>10 DEF AnnouncedOK, Announcing, ToCursor

\* The steps that announce a result without editing the message.
LEMMA ResultEndsAnnounced ==
  ASSUME IInv, AnnouncedOK, ChannelUnreached \/ PostWinner \/ WinnerFails
  PROVE  AnnouncedOK'
<1>1. PollerOK /\ MemoryTypes /\ GiveawayTypes /\ ResultsOK
  BY DEF IInv
<1>0. PICK g \in Giveaway : g = poller.item
  BY <1>1 DEF ChannelUnreached, PostWinner, WinnerFails, ResultsOK, MemoryTypes
<1>2. /\ poller.at \in {"result edit", "result winner"} /\ Goes("result next") /\ Announce(g)
      /\ history \subseteq history'
      /\ poller.at = "result winner" \/ "channel unreached" \in history'
  BY <1>0 DEF ChannelUnreached, PostWinner, WinnerFails, Mishap
<1>3. g \in Giveaway /\ g \in memory.posted /\ Closed(g)
  BY <1>0, <1>1, <1>2 DEF ResultsOK, MemoryTypes, AnnouncedOK
<1>4. \A h \in Giveaway : SameGiveaway(h)
  <2>1. giveaway' = giveaway \/ giveaway' = [giveaway EXCEPT ![g].winners = @ + 1]
    BY <1>0 DEF ChannelUnreached, PostWinner, WinnerFails
  <2> QED BY <1>1, <2>1 DEF GiveawayTypes, SameGiveaway
<1>5. poller'.at = "result next"
  BY <1>1, <1>2, PollerGoes
<1>6. /\ memory'.posted = memory.posted /\ memory'.unacked = memory.unacked
      /\ memory.posted \subseteq Giveaway
  BY <1>1, <1>2, <1>3, AnnounceKeeps DEF MemoryTypes
<1>7. ResultShows(g) \/ "channel unreached" \in history'
  BY <1>0, <1>2 DEF AnnouncedOK
<1>8. AnnouncedResultsStand'
  <2>1. /\ Closed(g)' /\ \A h \in Giveaway : /\ giveaway'[h].is = giveaway[h].is
                                             /\ ResultShows(h) => ResultShows(h)'
    BY <1>3, <1>4 DEF Closed, SameGiveaway, ResultShows
  <2>2. ResultShows(g)' \/ history' \cap {"drawn unrecorded", "channel unreached"} # {}
    BY <1>3, <1>7, <2>1
  <2> QED BY <1>1, <1>2, <1>3, <2>1, <2>2, AnnouncesRightly
<1>9. /\ \A h \in Giveaway : MessageOK(h)'
      /\ \A h \in memory'.posted : giveaway'[h].is # "absent"
  BY <1>4, <1>6 DEF AnnouncedOK, MessageOK, SameGiveaway
<1> QED BY <1>5, <1>8, <1>9 DEF AnnouncedOK, Announcing, ToCursor

LEMMA GiveawaysAnnounced ==
  ASSUME IInv, AnnouncedOK, Giveaways
  PROVE  AnnouncedOK'
<1>1. CASE ListGiveawaysFails \/ BeginResults \/ ResultFails \/ EndResults
  <2>1. giveaway' = giveaway /\ memory' = memory /\ history' = history
    BY <1>1 DEF ListGiveawaysFails, BeginResults, ResultFails, EndResults
  <2>2. PollerOK
    BY DEF IInv
  <2>3. poller'.at \in {"results", "result next", "split retry"}
    BY <1>1, <2>2 DEF ListGiveawaysFails, BeginResults, ResultFails, EndResults, Goes, Enters,
                      PollerOK, Asleep
  <2> QED BY <2>1, <2>3, AnnouncedElsewhere DEF MessageAt
<1> QED
  BY <1>1, AckGiveawayAnnounced, AcksAnnounced, ListsAnnounced, SendsAnnounced,
     ReadResultAnnounced, EditResultAnnounced, ResultEndsAnnounced DEF Giveaways

LEMMA UsersAnnounced ==
  ASSUME IInv, AnnouncedOK, NEW g \in Giveaway,
         OpenGiveaway(g) \/ \E outcome \in {"drawn", "cancelled"} : CloseGiveaway(g, outcome)
  PROVE  AnnouncedOK'
<1>1. PollerOK /\ MemoryTypes /\ GiveawayTypes /\ ResultsOK
  BY DEF IInv
<1>2. /\ memory' = memory /\ poller' = poller /\ history' = history
      /\ giveaway[g].is \in {"absent", "open"}
  BY DEF OpenGiveaway, CloseGiveaway
<1>3. PICK is \in {"open", "drawn", "cancelled"} : giveaway' = [giveaway EXCEPT ![g].is = is]
  BY DEF OpenGiveaway, CloseGiveaway
<1>4. \A h \in Giveaway :
        /\ giveaway'[h].is = IF h = g THEN is ELSE giveaway[h].is
        /\ giveaway'[h].message = giveaway[h].message /\ giveaway'[h].shown = giveaway[h].shown
  BY <1>1, <1>3 DEF GiveawayTypes
<1>5. \A h \in Giveaway : /\ Closed(h) => Closed(h)'
                          /\ giveaway[h].is # "absent" => giveaway'[h].is # "absent"
  BY <1>2, <1>4 DEF Closed
<1>6. /\ memory.posted \subseteq Giveaway /\ memory.announced \subseteq Giveaway
      /\ poller.queue \subseteq Giveaway
      /\ poller.at \in {"give send", "result edit", "result winner"} => poller.item \in Giveaway
  BY <1>1 DEF MemoryTypes, PollerOK, ResultsOK
<1>7. \A h \in Giveaway : MessageOK(h)'
  BY <1>2, <1>4 DEF AnnouncedOK, MessageOK
<1>8. AnnouncedResultsStand'
  <2>1. \A h \in memory.announced : Closed(h)' /\ (ResultShows(h) => ResultShows(h)')
    BY <1>4, <1>5, <1>6 DEF AnnouncedOK, AnnouncedResultsStand, Closed, ResultShows
  <2> QED BY <1>2, <2>1 DEF AnnouncedOK, AnnouncedResultsStand, Closed
<1>9. /\ \A h \in memory'.posted : giveaway'[h].is # "absent"
      /\ Announcing' => \A h \in poller'.queue : giveaway'[h].is # "absent"
      /\ poller'.at = "give send" => giveaway'[poller'.item].is # "absent"
      /\ poller'.at = "give acks" => \A h \in poller'.todo : memory'.unacked[h] # 0
  BY <1>2, <1>5, <1>6 DEF AnnouncedOK, Announcing, ToCursor
<1>10. /\ poller'.at \in {"result edit", "result winner"} => Closed(poller.item)'
       /\ poller'.at = "result edit" =>
            /\ poller'.read.message = giveaway'[poller'.item].message
            /\ giveaway'[poller'.item].message # 0
       /\ poller'.at = "result winner" => ResultShows(poller.item)'
  BY <1>2, <1>4, <1>5, <1>6 DEF AnnouncedOK, ResultShows
<1> QED BY <1>2, <1>7, <1>8, <1>9, <1>10 DEF AnnouncedOK

LEMMA NextKeepsAnnounced == IInv /\ AnnouncedOK /\ [Next]_vars => AnnouncedOK'
<1> SUFFICES ASSUME IInv, AnnouncedOK, Next \/ UNCHANGED vars PROVE AnnouncedOK'
  OBVIOUS
<1>1. CASE \/ Wake \/ Vods \/ Splits \/ VodChanges \/ Crash \/ UNCHANGED vars
           \/ \E final, archived \in BOOLEAN : ChangeSplit(final, archived)
  <2>1. poller' = poller \/ poller'.at \notin MessageAt
    BY <1>1, NotAGiveaway DEF MessageAt, VodAt, SplitAt
  <2> QED BY <1>1, <2>1, NotAGiveaway, AnnouncedElsewhere
<1>2. CASE Giveaways
  BY <1>2, GiveawaysAnnounced
<1>3. ASSUME NEW g \in Giveaway,
             OpenGiveaway(g) \/ \E outcome \in {"drawn", "cancelled"} : CloseGiveaway(g, outcome)
      PROVE  AnnouncedOK'
  BY <1>3, UsersAnnounced
<1> QED BY <1>1, <1>2, <1>3 DEF Next, Cycle, VodChanges

----------------------------------------------------------------------------
(* The splits that are not caught up with.                                 *)

LEMMA PostFields ==
  ASSUME NEW posts \in Seq(PostRow), NEW i \in 1..Len(posts)
  PROVE  /\ [posts EXCEPT ![i].deleted = TRUE][i].deleted
         /\ [posts EXCEPT ![i].locked = TRUE][i].locked
         /\ [posts EXCEPT ![i].locked = TRUE][i].deleted = posts[i].deleted
         /\ [posts EXCEPT ![i].locked = TRUE][i].shows = posts[i].shows
<1>1. i \in DOMAIN posts /\ posts[i] \in PostRow
  OBVIOUS
<1>2. /\ [posts EXCEPT ![i].deleted = TRUE][i] = [posts[i] EXCEPT !.deleted = TRUE]
      /\ [posts EXCEPT ![i].locked = TRUE][i] = [posts[i] EXCEPT !.locked = TRUE]
  BY <1>1
<1>3. \A p \in PostRow : /\ [p EXCEPT !.deleted = TRUE].deleted
                         /\ [p EXCEPT !.locked = TRUE].locked
                         /\ [p EXCEPT !.locked = TRUE].deleted = p.deleted
                         /\ [p EXCEPT !.locked = TRUE].shows = p.shows
  BY DEF PostRow
<1> QED BY <1>1, <1>2, <1>3

LEMMA ShownFields ==
  ASSUME NEW posts \in Seq(PostRow), NEW i \in 1..Len(posts), NEW version
  PROVE  /\ [posts EXCEPT ![i].shows = version][i].shows = version
         /\ [posts EXCEPT ![i].shows = version][i].deleted = posts[i].deleted
<1>1. i \in DOMAIN posts /\ posts[i] \in PostRow
  OBVIOUS
<1>2. [posts EXCEPT ![i].shows = version][i] = [posts[i] EXCEPT !.shows = version]
  BY <1>1
<1>3. \A p \in PostRow : /\ [p EXCEPT !.shows = version].shows = version
                         /\ [p EXCEPT !.shows = version].deleted = p.deleted
  BY DEF PostRow
<1> QED BY <1>1, <1>2, <1>3

\* The steps that leave the split, its post and what is kept for it alone.
LEMMA NotASplit ==
  ASSUME IInv,
         \/ Wake \/ Vods \/ Giveaways \/ VodChanges \/ Crash \/ UNCHANGED vars
         \/ \E g \in Giveaway :
              OpenGiveaway(g) \/ \E outcome \in {"drawn", "cancelled"} : CloseGiveaway(g, outcome)
  PROVE  /\ split' = split /\ history \subseteq history'
         /\ memory'.splitCursor = memory.splitCursor /\ memory'.attempts = memory.attempts
         /\ \/ poller' = poller
            \/ poller'.at \notin SplitAt
            \/ poller'.at = "split retry" /\ poller'.item = 0
<1>1. CASE Wake \/ Crash
  <2>1. split' = split /\ memory' = memory /\ history \subseteq history'
    BY <1>1 DEF Wake, Crash, Mishap
  <2>2. \A at : [Asleep EXCEPT !.at = at].at = at
    BY DEF Asleep
  <2>3. poller'.at \in {"idle", "vod delete"}
    <3>1. CASE Wake
      BY <2>2, <3>1 DEF Wake
    <3>2. CASE Crash
      BY <3>2 DEF Crash, Asleep
    <3> QED BY <1>1, <3>1, <3>2
  <2> QED BY <2>1, <2>3 DEF SplitAt
<1>2. CASE Vods
  <2>1. split' = split /\ memory' = memory /\ history' = history
    BY <1>2 DEF Vods, ListArchivedVods, RemoveVod, ConfirmVodRemoved, VodRemovalFails,
                ListPendingVods, ClaimVod, PostVod, RecordVod, VodFails, VodAnswerLost
  <2> QED BY <1>2, <2>1, VodsResult DEF VodResult, VodAt, SplitAt
<1>3. CASE Giveaways
  <2>1. split' = split /\ history \subseteq history'
    BY <1>3 DEF Giveaways, BeginGiveaways, AckGiveaway, AckFails, EndAcks, ListGiveaways,
         ListGiveawaysFails, NextGiveaway, SendGiveaway, SendGiveawayFails, SendGiveawayLost,
         MoveCursor, BeginResults, ReadResult, EditResult, ChannelUnreached, ResultFails,
         PostWinner, WinnerFails, EndResults, Mishap
  <2> QED BY <1>3, <2>1, GivesLeaveSplits, GivesResult DEF GiveResult, GiveAt, ResultAt, SplitAt
<1>4. CASE VodChanges
  BY <1>4 DEF VodChanges, RequestVod, ArchiveEvent, UnarchiveEvent, OperatorRetries
<1>5. CASE UNCHANGED vars
  BY <1>5 DEF vars
<1>6. ASSUME NEW g \in Giveaway,
             OpenGiveaway(g) \/ \E outcome \in {"drawn", "cancelled"} : CloseGiveaway(g, outcome)
      PROVE  split' = split /\ memory' = memory /\ poller' = poller /\ history' = history
  BY <1>6 DEF OpenGiveaway, CloseGiveaway
<1> QED BY <1>1, <1>2, <1>3, <1>4, <1>5, <1>6

LEMMA SplitInvElsewhere ==
  ASSUME SplitInv, split' = split, history \subseteq history',
         memory'.splitCursor = memory.splitCursor, memory'.attempts = memory.attempts,
         \/ poller' = poller
         \/ poller'.at \notin SplitAt
         \/ poller'.at \in {"split retry", "split discover"} /\ poller'.item = 0
  PROVE  SplitInv'
<1>1. NoSplitIsForgotten'
  BY DEF SplitInv, NoSplitIsForgotten, CaughtUp, Disappears, Post
<1>2. CASE poller' = poller
  BY <1>1, <1>2 DEF SplitInv, SyncOK, Syncing, PostOK, Disappears, Post
<1>3. CASE \/ poller'.at \notin SplitAt
           \/ poller'.at \in {"split retry", "split discover"} /\ poller'.item = 0
  <2>1. /\ poller'.at \in {"split retry", "split discover"} => poller'.item = 0
        /\ poller'.at \notin HoldsRow \cup {"split read"}
    BY <1>3 DEF SplitAt, HoldsRow
  <2>2. SyncOK'
    BY <2>1 DEF SyncOK, Syncing
  <2>3. PostOK'
    BY <2>1 DEF PostOK, HoldsRow
  <2> QED BY <1>1, <2>2, <2>3 DEF SplitInv
<1> QED BY <1>2, <1>3

LEMMA AboveIsNotZero == \A m, n \in Nat : m > n => m # 0
OBVIOUS

LEMMA NextIsAbove == \A m, n \in Nat : m <= n => n + 1 > m
OBVIOUS

\* What the arithmetic of a sync needs.
LEMMA SyncNumbers ==
  ASSUME IInv, poller.at \in HoldsRow
  PROVE  /\ split.version \in Nat /\ memory.splitCursor \in Nat /\ memory.attempts \in Nat
         /\ poller.read.version \in Nat /\ poller.item \in Nat
         /\ poller.read.thread = split.thread /\ split.thread \in 0..Len(split.posts)
         /\ split.posts \in Seq(PostRow) /\ PollerOK /\ poller.at \in SplitAt
<1>1. poller.at \in SplitAt
  BY DEF SplitAt, HoldsRow
<1>2. /\ split.version \in Nat /\ memory.splitCursor \in Nat /\ memory.attempts \in Nat
      /\ split.thread \in 0..Len(split.posts) /\ split.posts \in Seq(PostRow)
  BY DEF IInv, SplitTypes, MemoryTypes
<1>3. /\ poller.read.version \in Nat /\ poller.read.thread = split.thread
      /\ poller.item \in 0..split.version
  BY <1>1 DEF IInv, SplitOK
<1> QED BY <1>1, <1>2, <1>3, InRange DEF IInv

\* While a row is held, the split is ahead of the cursor or kept for a retry.
LEMMA SyncIsPending ==
  ASSUME IInv, SyncOK, poller.at \in HoldsRow
  PROVE  split.version > memory.splitCursor \/ memory.attempts > 0
<1>1. /\ split.version \in Nat /\ memory.splitCursor \in Nat
      /\ poller.read.version \in Nat /\ poller.item \in Nat
  BY SyncNumbers
<1>2. /\ IF poller.item = 0 THEN memory.attempts > 0 ELSE poller.item > memory.splitCursor
      /\ poller.item <= poller.read.version /\ poller.read.version <= split.version
  BY DEF SyncOK, Syncing
<1> QED BY <1>1, <1>2

\* Between two calls of a sync, whatever it does to the post.
LEMMA SyncStays ==
  ASSUME IInv, SyncOK, poller.at \in HoldsRow, poller'.at \in HoldsRow,
         poller'.item = poller.item, memory' = memory,
         poller'.read.version = poller.read.version, poller'.read.final = poller.read.final,
         poller'.read.archived = poller.read.archived, poller'.read.linked = poller.read.linked,
         split'.version = split.version, split'.final = split.final,
         split'.archived = split.archived, split'.linked = split.linked
  PROVE  SyncOK' /\ NoSplitIsForgotten'
<1>1. NoSplitIsForgotten'
  BY SyncIsPending DEF NoSplitIsForgotten
<1>2. poller'.at \notin {"split retry", "split discover"}
  BY DEF HoldsRow
<1>3. SyncOK'
  BY <1>2 DEF SyncOK, Syncing
<1> QED BY <1>1, <1>3

\* A sync that fails is kept for a retry, or given up.
LEMMA FailsInv ==
  ASSUME IInv, NEW mishaps, Fails(mishaps)
  PROVE  SplitInv'
<1> DEFINE last == memory.attempts + 1 >= MaxAttempts
<1>1. Ends(Failed) /\ (last => "given up" \in history')
  <2>1. /\ Ends(Failed)
        /\ history' = history \cup mishaps \cup (IF last THEN {"given up"} ELSE {})
    BY DEF Fails
  <2> HIDE DEF last
  <2> QED BY <2>1
<1>2. poller'.at = "split discover" /\ poller'.item = 0
  BY <1>1, PollerEnters DEF Ends
<1>3. MemoryTypes /\ memory.attempts \in Nat
  BY DEF IInv, MemoryTypes
<1>4. CASE ~last
  <2>1. Failed = [memory EXCEPT !.attempts = memory.attempts + 1]
    BY <1>4 DEF Failed
  <2>2. \E n : memory' = Failed \/ memory' = [Failed EXCEPT !.splitCursor = n]
    BY <1>1 DEF Ends
  <2> DEFINE more == memory.attempts + 1
  <2>3. more > 0
    BY <1>3
  <2> HIDE DEF more
  <2>4. Failed = [memory EXCEPT !.attempts = more]
    BY <2>1 DEF more
  <2>5. memory'.attempts = more
    BY <1>3, <2>2, <2>4 DEF MemoryTypes
  <2>6. memory'.attempts > 0
    BY <2>3, <2>5
  <2> QED BY <1>2, <2>6 DEF SplitInv, SyncOK, Syncing, HoldsRow, PostOK, NoSplitIsForgotten
<1> HIDE DEF last
<1>5. CASE last
  BY <1>1, <1>2, <1>5 DEF SplitInv, SyncOK, Syncing, HoldsRow, PostOK, NoSplitIsForgotten
<1> QED BY <1>4, <1>5

\* A sync that ends well has caught up with the split, unless the split has changed.
LEMMA SyncEndsWell ==
  ASSUME IInv, SyncOK, poller.at \in HoldsRow, Ends(Synced), split'.version = split.version,
         poller.read.version = split.version => CaughtUp'
  PROVE  SplitInv'
<1>1. poller'.at = "split discover" /\ poller'.item = 0
  BY PollerEnters DEF Ends
<1>2. memory'.splitCursor = IF poller.item = 0 THEN memory.splitCursor ELSE poller.item
  <2>1. MemoryTypes
    BY DEF IInv
  <2> QED BY <2>1 DEF MemoryTypes, Ends, Synced
<1>3. /\ split.version \in Nat /\ memory.splitCursor \in Nat
      /\ poller.read.version \in Nat /\ poller.item \in Nat
  BY SyncNumbers
<1>4. /\ memory.splitCursor <= poller.read.version /\ poller.item <= poller.read.version
      /\ poller.read.version <= split.version
  BY DEF SyncOK, Syncing
<1>5. CASE split.version > memory'.splitCursor
  BY <1>1, <1>5 DEF SplitInv, SyncOK, Syncing, HoldsRow, PostOK, NoSplitIsForgotten
<1>6. CASE ~(split.version > memory'.splitCursor)
  <2>1. memory'.splitCursor \in Nat /\ memory'.splitCursor <= poller.read.version
    BY <1>2, <1>3, <1>4
  <2>2. poller.read.version = split.version
    BY <1>3, <1>4, <1>6, <2>1
  <2> QED BY <1>1, <2>2 DEF SplitInv, SyncOK, Syncing, HoldsRow, PostOK, NoSplitIsForgotten
<1> QED BY <1>5, <1>6

LEMMA SelectsInv ==
  ASSUME IInv, SplitInv, RetrySplit \/ NoRetryYet \/ DiscoverSplit \/ DiscoverFails
  PROVE  SplitInv'
<1>1. /\ split' = split /\ memory' = memory /\ history' = history
      /\ poller.at \in {"split retry", "split discover"} /\ PollerOK /\ poller.item = 0
  BY DEF IInv, RetrySplit, NoRetryYet, DiscoverSplit, DiscoverFails, SplitInv, SyncOK
<1>2. NoSplitIsForgotten'
  BY <1>1 DEF SplitInv, NoSplitIsForgotten, CaughtUp, Disappears, Post
<1>3. CASE RetrySplit
  <2>1. Goes("split read") /\ memory.attempts > 0
    BY <1>3 DEF RetrySplit, Goes
  <2>2. poller'.at = "split read" /\ poller'.item = 0
    BY <1>1, <2>1, PollerGoes
  <2> QED BY <1>1, <1>2, <2>1, <2>2 DEF SplitInv, SyncOK, Syncing, HoldsRow, PostOK
<1>4. CASE NoRetryYet
  <2>1. poller'.at = "split discover" /\ poller'.item = 0
    BY <1>1, <1>4, PollerGoes DEF NoRetryYet
  <2> QED BY <1>1, <2>1, SplitInvElsewhere
<1>5. CASE DiscoverFails \/ (DiscoverSplit /\ ~(split.version > memory.splitCursor))
  <2>1. poller'.at = "idle"
    BY <1>5, PollerEnters DEF DiscoverFails, DiscoverSplit
  <2> QED BY <1>1, <2>1, SplitInvElsewhere DEF SplitAt
<1>6. CASE DiscoverSplit /\ split.version > memory.splitCursor
  <2>1. poller' = [poller EXCEPT !.at = "split read", !.item = split.version]
    BY <1>6 DEF DiscoverSplit
  <2>2. poller'.at = "split read" /\ poller'.item = split.version
    BY <1>1, <2>1 DEF PollerOK, Asleep
  <2>3. split.version \in Nat /\ memory.splitCursor \in Nat
    BY DEF IInv, SplitTypes, MemoryTypes
  <2>4. poller'.item # 0 /\ poller'.item > memory'.splitCursor
    BY <1>1, <1>6, <2>2, <2>3, AboveIsNotZero
  <2> QED BY <1>2, <2>2, <2>4 DEF SplitInv, SyncOK, Syncing, HoldsRow, PostOK
<1> QED BY <1>3, <1>4, <1>5, <1>6

LEMMA ReadSplitInv ==
  ASSUME IInv, SplitInv, ReadSplit
  PROVE  SplitInv'
<1>1. /\ poller.at = "split read" /\ Reads("split thread", Row(split))
      /\ split' = split /\ memory' = memory /\ history' = history /\ PollerOK
      /\ SplitTypes
  BY DEF IInv, ReadSplit
<1>2. /\ poller'.at = "split thread" /\ poller'.item = poller.item /\ poller'.read = Row(split)
  BY <1>1, PollerReads
<1>3. /\ Row(split).version = split.version /\ Row(split).linked = split.linked
      /\ Row(split).final = split.final /\ Row(split).archived = split.archived
  BY <1>1 DEF Row, SplitTypes
<1>4. /\ memory.splitCursor <= split.version /\ poller.item <= split.version
      /\ split.version <= split.version
  <2>1. memory.splitCursor \in 0..split.version /\ poller.item \in 0..split.version
        /\ split.version \in Nat
    BY <1>1 DEF IInv, SplitTypes, SplitOK, SplitAt
  <2> QED BY <2>1
<1>5. NoSplitIsForgotten'
  BY <1>1 DEF SplitInv, NoSplitIsForgotten, CaughtUp, Disappears, Post
<1>6. IF poller.item = 0 THEN memory.attempts > 0 ELSE poller.item > memory.splitCursor
  BY <1>1 DEF SplitInv, SyncOK, Syncing
<1>7. SyncOK'
  BY <1>1, <1>2, <1>3, <1>4, <1>6 DEF SyncOK, Syncing
<1>8. PostOK'
  BY <1>2 DEF PostOK
<1> QED BY <1>5, <1>7, <1>8 DEF SplitInv

LEMMA FetchPostInv ==
  ASSUME IInv, SplitInv, FetchPost
  PROVE  SplitInv'
<1> DEFINE row == poller.read
           there == row.thread # 0 /\ ~Post(row.thread).deleted
           edited == [row EXCEPT !.summary = IF @ = NoMessage THEN row.thread ELSE @]
<1>1. /\ poller.at = "split thread" /\ split' = split /\ memory' = memory /\ PollerOK
      /\ \/ Goes("split delete") /\ Disappears(row) /\ there
         \/ Goes("split cursors") /\ Disappears(row) /\ ~there
         \/ Goes("split create") /\ ~Disappears(row)
         \/ Reads("split edit", edited) /\ ~Disappears(row) /\ there
  BY DEF FetchPost, IInv
<1>2. poller.at \in HoldsRow
  BY <1>1 DEF HoldsRow
<1>3. CASE Reads("split edit", edited) /\ ~Disappears(row) /\ there
  <2>1. poller'.at = "split edit" /\ poller'.item = poller.item /\ poller'.read = edited
    BY <1>1, <1>3, PollerReads
  <2>2. DOMAIN row = {"version", "final", "archived", "linked", "thread", "summary"}
    BY <1>2 DEF IInv, SplitTypes, SplitOK
  <2>3. /\ edited.version = row.version /\ edited.final = row.final
        /\ edited.archived = row.archived /\ edited.linked = row.linked
        /\ edited.thread = row.thread
    BY <2>2
  <2> HIDE DEF edited
  <2>4. PostOK'
    BY <1>1, <1>3, <2>1, <2>3 DEF PostOK, Disappears, Post
  <2>5. poller'.at \in HoldsRow
    BY <2>1 DEF HoldsRow
  <2> QED BY <1>1, <1>2, <2>1, <2>3, <2>4, <2>5, SyncStays DEF SplitInv
<1>4. CASE \/ Goes("split delete") /\ Disappears(row) /\ there
           \/ Goes("split cursors") /\ Disappears(row) /\ ~there
           \/ Goes("split create") /\ ~Disappears(row)
  <2>1. /\ poller'.at \in {"split delete", "split cursors", "split create"}
        /\ poller'.item = poller.item /\ poller'.read = poller.read
    BY <1>1, <1>4, PollerGoes
  <2>2. /\ poller'.at = "split delete" => Disappears(row) /\ there
        /\ poller'.at = "split cursors" => Disappears(row) /\ ~there
        /\ poller'.at = "split create" => ~Disappears(row)
    <3>1. \A to : Goes(to) => poller'.at = to
      BY <1>1, PollerGoes
    <3> HIDE DEF there, row
    <3> QED BY <1>4, <3>1
  <2>3. PostOK'
    BY <1>1, <2>1, <2>2 DEF PostOK, Disappears, Post
  <2>4. poller'.at \in HoldsRow
    BY <2>1 DEF HoldsRow
  <2> QED BY <1>1, <1>2, <2>1, <2>3, <2>4, SyncStays DEF SplitInv
<1> QED BY <1>1, <1>3, <1>4

\* A change of the posts alone, between two calls of a sync.
LEMMA PostsChangeInv ==
  ASSUME IInv, SplitInv, poller.at \in HoldsRow, NEW to \in HoldsRow, Goes(to),
         memory' = memory, NEW posts, split' = [split EXCEPT !.posts = posts]
  PROVE  /\ SyncOK' /\ NoSplitIsForgotten' /\ split'.posts = posts
         /\ poller'.at = to /\ poller'.read = poller.read
<1>1. poller'.at = to /\ poller'.item = poller.item /\ poller'.read = poller.read
  BY PollerGoes DEF IInv
<1>2. /\ split'.version = split.version /\ split'.final = split.final
      /\ split'.archived = split.archived /\ split'.linked = split.linked
      /\ split'.posts = posts
  BY DEF IInv, SplitTypes
<1> QED BY <1>1, <1>2, SyncStays DEF SplitInv

LEMMA DeletesInv ==
  ASSUME IInv, SplitInv, DeletePost \/ (DeleteRefused /\ ~poller.read.linked)
  PROVE  SplitInv'
<1> DEFINE i == poller.read.thread
           gone == [split.posts EXCEPT ![i].deleted = TRUE]
           closed == [split.posts EXCEPT ![i].locked = TRUE]
<1>1. /\ poller.at = "split delete" /\ memory' = memory /\ Goes("split cursors")
      /\ split' = [split EXCEPT !.posts = gone] \/ split' = [split EXCEPT !.posts = closed]
  BY DEF DeletePost, DeleteRefused
<1>2. poller.at \in HoldsRow /\ "split cursors" \in HoldsRow
  BY <1>1 DEF HoldsRow
<1>3. /\ Disappears(poller.read) /\ i # 0 /\ i \in 0..Len(split.posts)
      /\ split.posts \in Seq(PostRow)
  BY <1>1, <1>2, SyncNumbers DEF SplitInv, PostOK
<1>4. i \in 1..Len(split.posts)
  <2>1. Len(split.posts) \in Nat
    BY <1>3, LenIsNat
  <2> HIDE DEF i
  <2> QED BY <1>3, <2>1
<1>5. gone[i].deleted /\ closed[i].locked
  BY <1>3, <1>4, PostFields
<1> HIDE DEF gone, closed
<1>6. PICK posts \in {gone, closed} : split' = [split EXCEPT !.posts = posts]
  BY <1>1
<1>7. /\ SyncOK' /\ NoSplitIsForgotten' /\ split'.posts = posts
      /\ poller'.at = "split cursors" /\ poller'.read = poller.read
  BY <1>1, <1>2, <1>6, PostsChangeInv
<1>8. PostOK'
  BY <1>3, <1>5, <1>6, <1>7 DEF PostOK, Disappears, Post
<1> QED BY <1>7, <1>8 DEF SplitInv

LEMMA CreatePostInv ==
  ASSUME IInv, SplitInv, CreatePost
  PROVE  SplitInv'
<1> DEFINE posts == Append(split.posts, NewPost(poller.read.version))
<1>1. /\ poller.at = "split create" /\ memory' = memory /\ Goes("split thread id")
      /\ split' = [split EXCEPT !.posts = posts]
  BY DEF CreatePost
<1>2. poller.at \in HoldsRow /\ "split thread id" \in HoldsRow
  BY <1>1 DEF HoldsRow
<1>3. split.posts \in Seq(PostRow) /\ poller.read.version \in Nat
  BY <1>2, SyncNumbers
<1>4. Len(posts) # 0 /\ ~posts[Len(posts)].deleted
  <2>1. NewPost(poller.read.version) \in PostRow /\ ~NewPost(poller.read.version).deleted
    BY <1>3 DEF NewPost, PostRow
  <2>2. /\ Len(posts) = Len(split.posts) + 1 /\ Len(split.posts) \in Nat
        /\ posts[Len(split.posts) + 1] = NewPost(poller.read.version)
    BY <1>3, <2>1
  <2> HIDE DEF posts
  <2> QED BY <2>1, <2>2
<1> HIDE DEF posts
<1>5. /\ SyncOK' /\ NoSplitIsForgotten' /\ split'.posts = posts
      /\ poller'.at = "split thread id" /\ poller'.read = poller.read
  BY <1>1, <1>2, PostsChangeInv
<1>6. ~Disappears(poller.read)
  BY <1>1 DEF SplitInv, PostOK
<1>7. PostOK'
  BY <1>4, <1>5, <1>6 DEF PostOK, Disappears, Post
<1> QED BY <1>5, <1>7 DEF SplitInv

LEMMA SaveThreadInv ==
  ASSUME IInv, SplitInv, SaveThread
  PROVE  SplitInv'
<1> DEFINE n == Len(split.posts)
           read == [poller.read EXCEPT !.thread = n, !.summary = n]
<1>1. /\ poller.at = "split thread id" /\ split' = [split EXCEPT !.thread = n]
      /\ Reads("split edit", read) /\ memory' = memory /\ PollerOK /\ SplitTypes
  BY DEF SaveThread, IInv
<1>2. poller.at \in HoldsRow
  BY <1>1 DEF HoldsRow
<1>3. DOMAIN poller.read = {"version", "final", "archived", "linked", "thread", "summary"}
  BY <1>2 DEF IInv, SplitTypes, SplitOK
<1>4. /\ read.version = poller.read.version /\ read.final = poller.read.final
      /\ read.archived = poller.read.archived /\ read.linked = poller.read.linked
      /\ read.thread = n
  BY <1>3
<1> HIDE DEF read
<1>5. poller'.at = "split edit" /\ poller'.item = poller.item /\ poller'.read = read
  BY <1>1, PollerReads
<1>6. n # 0 /\ ~Post(n).deleted /\ ~Disappears(poller.read)
  BY <1>1 DEF SplitInv, PostOK
<1>7. /\ split'.version = split.version /\ split'.final = split.final
      /\ split'.archived = split.archived /\ split'.linked = split.linked
      /\ split'.posts = split.posts
  BY <1>1 DEF SplitTypes
<1>8. PostOK'
  BY <1>4, <1>5, <1>6, <1>7 DEF PostOK, Disappears, Post
<1>9. poller'.at \in HoldsRow
  BY <1>5 DEF HoldsRow
<1> QED BY <1>1, <1>2, <1>4, <1>5, <1>7, <1>8, <1>9, SyncStays DEF SplitInv

LEMMA EditsInv ==
  ASSUME IInv, SplitInv, EditPost \/ ClosePost
  PROVE  SplitInv'
<1> DEFINE i == poller.read.thread
           shown == [split.posts EXCEPT ![i].shows = poller.read.version]
           closed == [split.posts EXCEPT ![i].locked = TRUE]
<1>1. poller.at \in {"split edit", "split close"} /\ memory' = memory
  BY DEF EditPost, ClosePost
<1>2. /\ poller.at \in HoldsRow /\ {"split close", "split save"} \subseteq HoldsRow
  BY <1>1 DEF HoldsRow
<1>3. /\ ~Disappears(poller.read) /\ i # 0 /\ ~Post(i).deleted
      /\ i \in 0..Len(split.posts) /\ split.posts \in Seq(PostRow)
  BY <1>1, <1>2, SyncNumbers DEF SplitInv, PostOK
<1>4. i \in 1..Len(split.posts)
  <2>1. Len(split.posts) \in Nat
    BY <1>3, LenIsNat
  <2> HIDE DEF i
  <2> QED BY <1>3, <2>1
<1>5. /\ shown[i].shows = poller.read.version /\ shown[i].deleted = split.posts[i].deleted
      /\ closed[i].locked /\ closed[i].deleted = split.posts[i].deleted
      /\ closed[i].shows = split.posts[i].shows
  BY <1>3, <1>4, PostFields, ShownFields
<1> HIDE DEF shown, closed
<1>6. CASE EditPost
  <2>1. PICK to \in {"split close", "split save"} :
          /\ Goes(to) /\ split' = [split EXCEPT !.posts = shown]
          /\ to = IF poller.read.final THEN "split close" ELSE "split save"
    BY <1>6 DEF EditPost, shown
  <2>2. /\ SyncOK' /\ NoSplitIsForgotten' /\ split'.posts = shown
        /\ poller'.at = to /\ poller'.read = poller.read
    BY <1>1, <1>2, <2>1, PostsChangeInv
  <2>3. PostOK'
    BY <1>3, <1>5, <2>1, <2>2 DEF PostOK, Disappears, Post
  <2> QED BY <2>2, <2>3 DEF SplitInv
<1>7. CASE ClosePost
  <2>1. Goes("split save") /\ split' = [split EXCEPT !.posts = closed] /\ poller.at = "split close"
    BY <1>7 DEF ClosePost, closed
  <2>2. /\ SyncOK' /\ NoSplitIsForgotten' /\ split'.posts = closed
        /\ poller'.at = "split save" /\ poller'.read = poller.read
    BY <1>1, <1>2, <2>1, PostsChangeInv
  <2>3. Post(i).shows = poller.read.version
    BY <2>1 DEF SplitInv, PostOK
  <2>4. PostOK'
    BY <1>3, <1>5, <2>2, <2>3 DEF PostOK, Disappears, Post
  <2> QED BY <2>2, <2>4 DEF SplitInv
<1> QED BY <1>6, <1>7

LEMMA SavesInv ==
  ASSUME IInv, SplitInv, SaveCursors \/ SaveSync
  PROVE  SplitInv'
<1> DEFINE row == poller.read
<1>1. poller.at \in {"split cursors", "split save"} /\ Ends(Synced)
  BY DEF SaveCursors, SaveSync
<1>2. poller.at \in HoldsRow
  BY <1>1 DEF HoldsRow
<1>3. row.thread = split.thread /\ SplitTypes
  BY <1>2, SyncNumbers DEF IInv
<1>4. /\ row.linked = split.linked
      /\ row.version = split.version => row.final = split.final /\ row.archived = split.archived
  BY <1>2 DEF SplitInv, SyncOK
<1>5. /\ split'.version = split.version /\ split'.final = split.final
      /\ split'.archived = split.archived /\ split'.linked = split.linked
      /\ split'.thread = split.thread /\ split'.posts = split.posts
  <2>1. split' = split \/ split' = [split EXCEPT !.thread = row.thread, !.summary = row.summary]
    BY DEF SaveCursors, SaveSync
  <2> HIDE DEF row
  <2> QED BY <1>3, <2>1 DEF SplitTypes
<1>6. ASSUME row.version = split.version PROVE CaughtUp'
  <2>1. Disappears(split)' <=> Disappears(row)
    BY <1>4, <1>5, <1>6 DEF Disappears
  <2>2. CASE poller.at = "split cursors"
    BY <1>3, <1>5, <2>1, <2>2 DEF SplitInv, PostOK, CaughtUp, Post
  <2>3. CASE poller.at = "split save"
    BY <1>3, <1>4, <1>5, <1>6, <2>1, <2>3 DEF SplitInv, PostOK, CaughtUp, Post
  <2> QED BY <1>1, <2>2, <2>3
<1> QED BY <1>1, <1>2, <1>5, <1>6, SyncEndsWell DEF SplitInv

LEMMA ChangeSplitInv ==
  ASSUME IInv, SplitInv, NEW final \in BOOLEAN, NEW archived \in BOOLEAN,
         ChangeSplit(final, archived)
  PROVE  SplitInv'
<1>1. /\ split' = [split EXCEPT !.version = @ + 1, !.final = @ \/ final, !.archived = archived]
      /\ memory' = memory /\ poller' = poller /\ history' = history /\ SplitTypes
  BY DEF ChangeSplit, IInv
<1>2. /\ split'.version = split.version + 1 /\ split'.linked = split.linked
      /\ split'.posts = split.posts
  BY <1>1 DEF SplitTypes
<1>3. split.version \in Nat /\ memory.splitCursor \in Nat /\ memory.splitCursor <= split.version
  BY <1>1 DEF SplitTypes, IInv, MemoryTypes
<1>4. NoSplitIsForgotten'
  <2>1. split'.version > memory'.splitCursor
    BY <1>1, <1>2, <1>3, NextIsAbove
  <2> QED BY <2>1 DEF NoSplitIsForgotten
<1>5. SyncOK'
  <2>1. poller.at \in HoldsRow =>
          poller.read.version <= split'.version /\ poller.read.version # split'.version
    <3> SUFFICES ASSUME poller.at \in HoldsRow
                 PROVE  poller.read.version <= split'.version /\ poller.read.version # split'.version
      OBVIOUS
    <3>1. poller.read.version \in Nat /\ poller.read.version <= split.version
      BY SyncNumbers DEF SplitInv, SyncOK
    <3> QED BY <1>2, <1>3, <3>1
  <2> QED BY <1>1, <1>2, <2>1 DEF SplitInv, SyncOK, Syncing
<1>6. PostOK'
  BY <1>1, <1>2 DEF SplitInv, PostOK, Post, Disappears
<1> QED BY <1>4, <1>5, <1>6 DEF SplitInv

LEMMA SplitsInv ==
  ASSUME IInv, SplitInv, Splits
  PROVE  SplitInv'
<1>1. CASE CreatePostLost \/ SaveThreadFails \/ ForeignSummary \/ SplitFails
           \/ (DeleteRefused /\ poller.read.linked)
  BY <1>1, FailsInv DEF CreatePostLost, SaveThreadFails, ForeignSummary, SplitFails,
                        DeleteRefused
<1> QED
  BY <1>1, SelectsInv, ReadSplitInv, FetchPostInv, DeletesInv, CreatePostInv, SaveThreadInv,
     EditsInv, SavesInv DEF Splits

LEMMA NextKeepsSplitInv == IInv /\ SplitInv /\ [Next]_vars => SplitInv'
<1> SUFFICES ASSUME IInv, SplitInv, Next \/ UNCHANGED vars PROVE SplitInv'
  OBVIOUS
<1>1. CASE \/ Wake \/ Vods \/ Giveaways \/ VodChanges \/ Crash \/ UNCHANGED vars
           \/ \E g \in Giveaway :
                OpenGiveaway(g) \/ \E outcome \in {"drawn", "cancelled"} : CloseGiveaway(g, outcome)
  BY <1>1, NotASplit, SplitInvElsewhere
<1>2. CASE Splits
  BY <1>2, SplitsInv
<1>3. CASE \E final, archived \in BOOLEAN : ChangeSplit(final, archived)
  BY <1>3, ChangeSplitInv
<1> QED BY <1>1, <1>2, <1>3 DEF Next, Cycle, VodChanges

----------------------------------------------------------------------------
(* The theorems.                                                           *)

\* TypeOK: recorded posts and messages are some that were made, only announced
\* giveaways get a result, and the cursor of the splits is never ahead of them
\* (the checkpoint against what Discord and the backend hold).
THEOREM FeedTypes == Spec => []TypeOK
<1>1. IInv => TypeOK
  BY DEF IInv, VodTypes, SplitTypes, MemoryTypes, MessagesOK, TypeOK, IsPosts, PostRow
<1> QED BY <1>1, IInvHolds, PTL

\* VodPostedOnce: an event never has two VOD posts, whatever fails and however often
\* the bot restarts (the claim of checkVodForumPosts).
THEOREM VodsPostedOnce == Spec => []VodPostedOnce
<1>1. IInv => VodPostedOnce
  <2> SUFFICES ASSUME IInv PROVE VodPostedOnce
    OBVIOUS
  <2>1. \E n : Standing(vod.posts) \subseteq {n}
    BY DEF IInv, VodTypes, VodOK
  <2> QED BY <2>1, AtMostOne DEF VodPostedOnce
<1> QED BY <1>1, IInvHolds, PTL

\* VodPostStands: the post an event is recorded to have is there, unless the event
\* was restored while it was being deleted (deleteArchivedVodForumPosts).
THEOREM VodPostsStand == Spec => []VodPostStands
<1>1. IInv => VodPostStands
  BY DEF IInv, VodOK, VodPostStands, Standing
<1> QED BY <1>1, IInvHolds, PTL

\* GiveawaySentOnce: no failure of the backend and no restart makes the bot announce
\* a giveaway twice, as long as no answer of Discord is lost (postedGiveawayIds).
THEOREM GiveawaysSentOnce == Spec => []GiveawaySentOnce
<1>1. IInv => GiveawaySentOnce
  <2> SUFFICES ASSUME IInv, NEW g \in Giveaway, "message lost" \notin history
               PROVE  ~(giveaway[g].sent > 1)
    BY DEF GiveawaySentOnce
  <2>1. giveaway[g].sent \in Nat
    BY DEF IInv, GiveawayTypes
  <2>2. giveaway[g].sent <= (IF g \in memory.posted THEN 1 ELSE 0)
    BY DEF IInv, MessagesOK
  <2>3. \A n \in Nat : n <= 0 \/ n <= 1 => n <= 1
    BY ZeroOrOne
  <2>4. giveaway[g].sent <= 1
    BY <2>1, <2>2, <2>3
  <2> QED BY <2>1, <2>4, AtMostOneIsNotMore
<1> QED BY <1>1, IInvHolds, PTL

\* SplitPostedOnce: a split gets a second post only after the first could not be
\* recorded (the saveState that follows createForumPost).
THEOREM SplitsPostedOnce == Spec => []SplitPostedOnce
<1>1. IInv => SplitPostedOnce
  <2> SUFFICES ASSUME IInv, "post lost" \notin history
               PROVE  ~(Cardinality(Standing(split.posts)) > 1)
    BY DEF SplitPostedOnce
  <2>1. \E n : Standing(split.posts) \subseteq {n}
    BY DEF IInv, SplitOK
  <2>2. PICK n : Standing(split.posts) \subseteq {n}
    BY <2>1
  <2>3. Cardinality(Standing(split.posts)) <= 1
    BY <2>2, AtMostOne
  <2>4. Cardinality(Standing(split.posts)) \in Nat
    BY <2>2, FS_Singleton, FS_Subset, FS_CardinalityType
  <2> QED BY <2>3, <2>4, AtMostOneIsNotMore
<1> QED BY <1>1, IInvHolds, PTL

\* NoGiveawayIsPassed: whatever fails, is lost or restarts, the cursor only moves past
\* giveaways that were posted, so each of them is still ahead of it or remembered
\* (cursorBlocked, and the cursor's own order, in checkNewGiveaways).
THEOREM NoGiveawayPassed == Spec => []NoGiveawayIsPassed
<1>1. CursorOK => NoGiveawayIsPassed
  BY DEF CursorOK
<1> QED BY <1>1, FreshInvariants, NextKeepsCursor, IInvHolds, PTL DEF Spec

\* NoStrayVodPost: no post stands where the next request of one would make a second
\* (apply_unarchive and retry_vod_forum_post against checkVodForumPosts).
THEOREM NoVodPostStrays == Spec => []NoStrayVodPost
<1>1. IInv => NoStrayVodPost
  BY DEF IInv, VodTypes, VodOK, NoStrayVodPost
<1> QED BY <1>1, IInvHolds, PTL

\* AnnouncedResultsStand: a giveaway is only dropped from the results once it is closed
\* and its recorded message shows it, unless it was drawn before the message was on
\* record or its channel could not be fetched (checkGiveawayResults never looks again).
THEOREM ResultsStand == Spec => []AnnouncedResultsStand
<1>1. AnnouncedOK => AnnouncedResultsStand
  BY DEF AnnouncedOK
<1> QED BY <1>1, FreshInvariants, NextKeepsAnnounced, IInvHolds, PTL DEF Spec

\* NoSplitIsForgotten: although the cursor passes a split whether its sync worked or
\* not, and the split may change under the sync, one that its post does not show is
\* ahead of the cursor, kept for a retry, or was given up (checkSplitSync).
THEOREM NoSplitForgotten == Spec => []NoSplitIsForgotten
<1>1. SplitInv => NoSplitIsForgotten
  BY DEF SplitInv
<1> QED BY <1>1, FreshInvariants, NextKeepsSplitInv, IInvHolds, PTL DEF Spec
=============================================================================
