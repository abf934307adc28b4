---------------------------- MODULE ContentProofs ----------------------------
(***************************************************************************)
(* What is proved of the components that produce the content of answers:   *)
(* the static file handler, the transfer of large files by sendfile, and   *)
(* the response builder with the cache of compressed bodies.               *)
(***************************************************************************)
EXTENDS StaticFiles, Sendfile, Response, SumFacts, FiniteSetTheorems,
        SequenceTheorems, TLAPS

-----------------------------------------------------------------------------
(* Static files.                                                           *)

Forms == {"plain", "gz"}
VersionType == [plain : Nat, gz : Nat, mtime : Nat]
ItemType == [ver : Nat, form : Forms, size : Nat, mtime : Nat, at : Nat]
StConfType == [cache_ttl : Nat, max_file_size : Nat, listing : BOOLEAN,
               canonical : BOOLEAN, tz : Zones]
Conds == {"none", "etag", "date"}
ReadReq == [stage : {"read"}, page : Pages, form : Forms, cond : Conds,
            stat : [mtime : Nat, size : Nat]]
AnswerReq == [stage : {"answer"}, page : Pages, cond : Conds, item : ItemType]

\* The versions of a page, each in a later second than the one before it.
Versions(d, now) ==
  /\ d \in Seq(VersionType) /\ Len(d) >= 1
  /\ \A i \in 1 .. Len(d) : d[i].mtime <= now
  /\ \A i, j \in 1 .. Len(d) : i < j => d[i].mtime < d[j].mtime

FormSize(version, f) == IF f = "gz" THEN version.gz ELSE version.plain

\* An item has content and length of one version, and the time of it or, when a
\* deployment came between stat and read, of the one before it.
Written(d, item) ==
  /\ item \in ItemType /\ item.ver \in 1 .. Len(d)
  /\ item.size = FormSize(d[item.ver], item.form)
  /\ \/ item.mtime = d[item.ver].mtime
     \/ item.ver > 1 /\ item.mtime = d[item.ver - 1].mtime

\* An item that was read at item.at: no later version was there before, and the
\* deployment between stat and read was in the very second of the read.
Stored(d, item, now) ==
  /\ Written(d, item) /\ item.at <= now
  /\ item.ver < Len(d) => d[item.ver + 1].mtime >= item.at
  /\ \/ item.mtime = d[item.ver].mtime
     \/ /\ item.ver > 1 /\ item.mtime = d[item.ver - 1].mtime
        /\ d[item.ver].mtime = item.at

\* What the stat of the current request may have told.
StatOf(d, mtime, now) ==
  \/ mtime = d[Len(d)].mtime
  \/ Len(d) > 1 /\ mtime = d[Len(d) - 1].mtime /\ d[Len(d)].mtime = now

StReqOK ==
  \/ st_req = StIdle
  \/ /\ st_req \in ReadReq /\ st_conf \in StConfType
     /\ StatOf(st_disk[st_req.page], st_req.stat.mtime, st_now)
  \/ /\ st_req \in AnswerReq /\ st_conf \in StConfType /\ st_req.item.at = st_now
     /\ Stored(st_disk[st_req.page], st_req.item, st_now)

StAnsOK ==
  st_ans.code = 200 /\ st_ans.by \in {"read", "cache"} =>
    /\ st_ans.page \in Pages /\ st_ans.item.ver \in 1 .. Len(st_disk[st_ans.page])
    /\ st_ans.headers.length =
         FormSize(st_disk[st_ans.page][st_ans.item.ver], st_ans.item.form)
    /\ st_ans.headers.encoding = (st_ans.item.form = "gz")
    /\ st_ans.headers.type = MimeType("plain")

StBufsOK ==
  /\ st_leaked \in Int
  /\ st_bufs = IF st_req.stage = "answer" THEN st_leaked + 1 ELSE st_leaked

StaticInv ==
  /\ st_now \in Nat
  /\ st_conf = NoConfig \/ st_conf \in StConfType
  /\ st_disk \in [Pages -> Seq(VersionType)]
  /\ \A p \in Pages : Versions(st_disk[p], st_now)
  /\ st_cache \in [Pages -> ItemType] /\ st_copy \in [Pages -> ItemType]
  /\ \A p \in Pages : st_cache[p].ver # 0 => Stored(st_disk[p], st_cache[p], st_now)
  /\ \A p \in Pages : st_copy[p].ver # 0 => Written(st_disk[p], st_copy[p])
  /\ StReqOK /\ StAnsOK /\ StBufsOK

\* What is on the disk now.
LEMMA OnDiskIs ==
  ASSUME StaticInv, NEW p \in Pages, NEW f \in Forms
  PROVE  /\ OnDisk(p, f) \in ItemType
         /\ Stored(st_disk[p], OnDisk(p, f), st_now)
         /\ OnDisk(p, f).ver = Len(st_disk[p]) /\ OnDisk(p, f).at = st_now
         /\ OnDisk(p, f).form = f
         /\ OnDisk(p, f).mtime = st_disk[p][Len(st_disk[p])].mtime
         /\ Disk(p) = st_disk[p][Len(st_disk[p])] /\ Disk(p) \in VersionType
<1> DEFINE d == st_disk[p]
           n == Len(d)
           i == OnDisk(p, f)
<1>1. d \in Seq(VersionType) /\ n \in Nat /\ n >= 1 /\ Versions(d, st_now)
  BY DEF StaticInv, Versions
<1>2. d[n] \in VersionType BY <1>1, ElementOfSeq
<1>3. i.ver = n /\ i.form = f /\ i.size = FormSize(d[n], f) /\ i.mtime = d[n].mtime
      /\ i.at = st_now /\ i \in ItemType
  <2>1. FormSize(d[n], f) \in Nat /\ d[n].mtime \in Nat BY <1>2 DEF FormSize, VersionType
  <2>2. i = [ver |-> n, form |-> f, size |-> FormSize(d[n], f), mtime |-> d[n].mtime,
             at |-> st_now]
    BY DEF OnDisk, SizeOf, Current, Disk, FormSize
  <2>3. st_now \in Nat BY DEF StaticInv
  <2> HIDE DEF d, n, i
  <2> QED BY <1>1, <2>1, <2>2, <2>3 DEF ItemType
<1>4. Disk(p) = d[n] BY DEF Disk, Current
<1> HIDE DEF d, n, i
<1>5. Stored(d, i, st_now)
  <2>1. n \in 1 .. n /\ ~(n < n) /\ st_now \in Nat BY <1>1 DEF StaticInv
  <2> QED BY <1>3, <2>1 DEF Stored, Written, n
<1> QED BY <1>2, <1>3, <1>4, <1>5 DEF d, n, i

\* A deployment in a later second leaves what is known of older items true.
LEMMA DeployKeeps ==
  ASSUME NEW d, NEW now \in Nat, Versions(d, now), d[Len(d)].mtime < now,
         NEW v \in VersionType, v.mtime = now
  PROVE  /\ Versions(Append(d, v), now)
         /\ \A i \in 1 .. Len(d) : Append(d, v)[i] = d[i]
         /\ \A item : Written(d, item) => Written(Append(d, v), item)
         /\ \A item : Stored(d, item, now) => Stored(Append(d, v), item, now)
         /\ \A mtime : StatOf(d, mtime, now) => StatOf(Append(d, v), mtime, now)
<1> DEFINE n == Len(d)
           e == Append(d, v)
<1>1. d \in Seq(VersionType) /\ n \in Nat /\ n >= 1 BY DEF Versions
<1>2. /\ e \in Seq(VersionType) /\ Len(e) = n + 1 /\ e[n + 1] = v
      /\ \A i \in 1 .. n : e[i] = d[i]
  BY <1>1, AppendProperties
<1>3. \A i \in 1 .. n : d[i].mtime \in Nat /\ d[i].mtime <= now
  <2>1. \A i \in 1 .. n : d[i] \in VersionType BY <1>1, ElementOfSeq
  <2> QED BY <2>1 DEF Versions, VersionType
<1>4. \A i, j \in 1 .. n : i < j => d[i].mtime < d[j].mtime BY DEF Versions
<1>5. \A i \in 1 .. n : d[i].mtime < now
  <2> SUFFICES ASSUME NEW i \in 1 .. n PROVE d[i].mtime < now OBVIOUS
  <2>1. n \in 1 .. n BY <1>1
  <2>2. CASE i = n BY <2>2
  <2>3. CASE i < n BY <1>3, <1>4, <2>1, <2>3
  <2> QED BY <1>1, <2>2, <2>3
<1> HIDE DEF n, e
<1>6. Versions(e, now)
  <2>1. \A i \in 1 .. n + 1 : i \in 1 .. n \/ i = n + 1 BY <1>1
  <2>2. \A i \in 1 .. n + 1 : e[i].mtime <= now BY <1>2, <1>3, <2>1
  <2>3. \A i, j \in 1 .. n + 1 : i < j => e[i].mtime < e[j].mtime
    <3> SUFFICES ASSUME NEW i \in 1 .. n + 1, NEW j \in 1 .. n + 1, i < j
                 PROVE  e[i].mtime < e[j].mtime
      OBVIOUS
    <3>1. i \in 1 .. n BY <1>1
    <3>2. CASE j \in 1 .. n BY <1>2, <1>4, <3>1, <3>2
    <3>3. CASE j = n + 1 BY <1>2, <1>5, <3>1, <3>3
    <3> QED BY <2>1, <3>2, <3>3
  <2> QED BY <1>1, <1>2, <2>2, <2>3 DEF Versions
<1>7. ASSUME NEW item, Written(d, item)
      PROVE  Written(e, item) /\ item.ver \in 1 .. n /\ e[item.ver] = d[item.ver]
             /\ (item.ver > 1 => e[item.ver - 1] = d[item.ver - 1])
  <2>1. item.ver \in 1 .. n BY <1>7 DEF Written, n
  <2>2. item.ver \in 1 .. n + 1 /\ (item.ver > 1 => item.ver - 1 \in 1 .. n)
    BY <1>1, <2>1
  <2>3. e[item.ver] = d[item.ver] /\ (item.ver > 1 => e[item.ver - 1] = d[item.ver - 1])
    BY <1>2, <2>1, <2>2
  <2> QED BY <1>2, <1>7, <2>1, <2>2, <2>3 DEF Written
<1>8. ASSUME NEW item, Stored(d, item, now)
      PROVE  Stored(e, item, now)
  <2>1. Written(d, item) /\ item.at <= now BY <1>8 DEF Stored
  <2>2. /\ Written(e, item) /\ item.ver \in 1 .. n /\ e[item.ver] = d[item.ver]
        /\ (item.ver > 1 => e[item.ver - 1] = d[item.ver - 1])
    BY <1>7, <2>1
  <2>3. item.ver < n + 1 => e[item.ver + 1].mtime >= item.at
    <3>1. CASE item.ver = n BY <1>2, <2>1, <3>1, item.at \in Nat DEF Written, ItemType
    <3>2. CASE item.ver < n
      <4>1. item.ver + 1 \in 1 .. n BY <1>1, <2>2, <3>2
      <4>2. d[item.ver + 1].mtime >= item.at BY <1>8, <3>2 DEF Stored, n
      <4> QED BY <1>2, <4>1, <4>2
    <3> QED BY <1>1, <2>2, <3>1, <3>2
  <2> QED BY <1>2, <1>8, <2>1, <2>2, <2>3 DEF Stored
<1>9. ASSUME NEW mtime, StatOf(d, mtime, now)
      PROVE  StatOf(e, mtime, now)
  <2>1. n \in 1 .. n /\ n + 1 > 1 /\ (n + 1) - 1 = n BY <1>1
  <2>2. mtime = d[n].mtime BY <1>5, <1>9, <2>1 DEF StatOf, n
  <2> QED BY <1>2, <2>1, <2>2 DEF StatOf
<1> QED BY <1>2, <1>6, <1>7, <1>8, <1>9 DEF n, e

\* The client keeps what it is sent, with the validators it is sent.
LEMMA KeepKeeps ==
  ASSUME StaticInv, NEW p \in Pages, NEW item, Written(st_disk[p], item), Keep(p, item),
         UNCHANGED st_disk
  PROVE  /\ st_copy' \in [Pages -> ItemType]
         /\ \A q \in Pages : st_copy'[q].ver # 0 => Written(st_disk'[q], st_copy'[q])
<1> DEFINE k == [item EXCEPT !.at = 0]
<1>1. item \in ItemType BY DEF Written
<1>2. /\ k \in ItemType /\ k.ver = item.ver /\ k.form = item.form /\ k.size = item.size
      /\ k.mtime = item.mtime
  BY <1>1 DEF ItemType
<1>3. st_copy' = [st_copy EXCEPT ![p] = k] BY DEF Keep
<1> HIDE DEF k
<1>4. Written(st_disk[p], k) BY <1>2 DEF Written
<1>5. st_copy \in [Pages -> ItemType] BY DEF StaticInv
<1>6. \A q \in Pages : st_copy'[q] = IF q = p THEN k ELSE st_copy[q] BY <1>3, <1>5
<1>7. \A q \in Pages : st_copy[q].ver # 0 => Written(st_disk[q], st_copy[q]) BY DEF StaticInv
<1> QED BY <1>2, <1>3, <1>4, <1>5, <1>6, <1>7

\* An answer with a body that was read or cached describes that body.
LEMMA ServeKeeps ==
  ASSUME StaticInv, NEW p \in Pages, NEW item, Written(st_disk[p], item), NEW by,
         Serve(p, item, by), UNCHANGED st_disk
  PROVE  /\ st_copy' \in [Pages -> ItemType]
         /\ \A q \in Pages : st_copy'[q].ver # 0 => Written(st_disk'[q], st_copy'[q])
         /\ StAnsOK'
<1>1. st_ans' = [code |-> 200, page |-> p, item |-> item, headers |-> HeadersOf(item),
                 sent |-> 1, by |-> by]
  BY DEF Serve, Reply
<1>2. st_ans'.page = p /\ st_ans'.item = item /\ st_ans'.headers = HeadersOf(item) BY <1>1
<1>3. /\ HeadersOf(item).length = item.size /\ HeadersOf(item).encoding = (item.form = "gz")
      /\ HeadersOf(item).type = MimeType("plain")
  BY DEF HeadersOf
<1>4. StAnsOK' BY <1>2, <1>3 DEF StAnsOK, Written
<1> QED BY <1>4, KeepKeeps DEF Serve

\* No other answer has a body that was read or cached.
LEMMA ReplyKeeps ==
  ASSUME NEW code, NEW p, NEW item, NEW headers, NEW sent, NEW by,
         Reply(code, p, item, headers, sent, by),
         code # 200 \/ by \notin {"read", "cache"}
  PROVE  StAnsOK'
BY DEF Reply, StAnsOK

\* The cache loses some of its entries.
LEMMA CacheLoses ==
  ASSUME StaticInv, UNCHANGED <<st_disk, st_now>>, st_cache' \in [Pages -> ItemType],
         \A p \in Pages : st_cache'[p] = st_cache[p] \/ st_cache'[p] = NoItem
  PROVE  \A p \in Pages : st_cache'[p].ver # 0 => Stored(st_disk'[p], st_cache'[p], st_now')
<1>1. NoItem.ver = 0 BY DEF NoItem
<1> QED BY <1>1 DEF StaticInv

\* The page that no copy is kept of is an item like the others.
LEMMA NoItemType == NoItem \in ItemType
BY DEF NoItem, ItemType, Forms

\* The file that is opened is the plain or the compressed one.
LEMMA FormIs == \A p, gzip : Form(p, gzip) \in Forms
BY DEF Form, Forms

\* What handle_request does with a page the cache does not have.
LEMMA MissKeeps ==
  ASSUME StaticInv, st_conf # NoConfig, st_req = StIdle,
         UNCHANGED <<st_conf, st_disk, st_now, st_bufs, st_leaked>>,
         NEW path, NEW p \in Pages, NEW gzip, NEW cond \in Conds,
         CacheMiss(path, p, gzip, cond)
  PROVE  StaticInv'
<1>1. CASE Listing(path)
  <2>1. StAnsOK' BY <1>1, ReplyKeeps DEF Listing
  <2>2. UNCHANGED <<st_copy, st_cache, st_req>> BY <1>1 DEF Listing
  <2> QED BY <2>1, <2>2 DEF StaticInv, StReqOK, StBufsOK
<1>2. CASE /\ st_cache' = IF path = "dir" THEN st_cache ELSE [st_cache EXCEPT ![p] = NoItem]
           /\ \/ TooLarge(p)
              \/ BySendfile(p, Form(p, gzip), cond)
              \/ ToRead(p, Form(p, gzip), cond)
  <2>1. /\ st_cache' \in [Pages -> ItemType]
        /\ \A q \in Pages : st_cache'[q] = st_cache[q] \/ st_cache'[q] = NoItem
    BY <1>2, NoItemType DEF StaticInv
  <2>2. \A q \in Pages : st_cache'[q].ver # 0 => Stored(st_disk'[q], st_cache'[q], st_now')
    BY <2>1, CacheLoses
  <2>3. SUFFICES /\ st_copy' \in [Pages -> ItemType]
                 /\ \A q \in Pages : st_copy'[q].ver # 0 => Written(st_disk'[q], st_copy'[q])
                 /\ StReqOK' /\ StAnsOK' /\ StBufsOK'
    BY <2>1, <2>2 DEF StaticInv
  <2>4. CASE TooLarge(p)
    <3>1. StAnsOK' BY <2>4, ReplyKeeps DEF TooLarge, Fail
    <3>2. UNCHANGED <<st_copy, st_req>> BY <2>4 DEF TooLarge, Fail
    <3> QED BY <3>1, <3>2 DEF StaticInv, StReqOK, StBufsOK
  <2>5. CASE BySendfile(p, Form(p, gzip), cond)
    <3>1. Written(st_disk[p], OnDisk(p, Form(p, gzip))) BY OnDiskIs, FormIs DEF Stored
    <3>2. StAnsOK' BY <2>5, ReplyKeeps DEF BySendfile
    <3>3. /\ st_copy' \in [Pages -> ItemType]
          /\ \A q \in Pages : st_copy'[q].ver # 0 => Written(st_disk'[q], st_copy'[q])
      <4>1. CASE UNCHANGED st_copy BY <4>1 DEF StaticInv
      <4>2. CASE Keep(p, OnDisk(p, Form(p, gzip))) BY <3>1, <4>2, KeepKeeps
      <4> QED BY <2>5, <4>1, <4>2 DEF BySendfile
    <3>4. UNCHANGED st_req BY <2>5 DEF BySendfile
    <3> QED BY <3>2, <3>3, <3>4 DEF StaticInv, StReqOK, StBufsOK
  <2>6. CASE ToRead(p, Form(p, gzip), cond)
    <3> DEFINE f == Form(p, gzip)
               sz == SizeOf(p, Current(p), f)
    <3>1. f \in Forms BY FormIs
    <3>2. /\ Disk(p) = st_disk[p][Len(st_disk[p])] /\ Disk(p) \in VersionType
      BY <3>1, OnDiskIs
    <3>3. sz \in Nat /\ Disk(p).mtime \in Nat
      BY <3>2 DEF SizeOf, Current, VersionType
    <3>4. st_req' = [stage |-> "read", page |-> p, form |-> f, cond |-> cond,
                     stat |-> [mtime |-> Disk(p).mtime, size |-> sz]]
      BY <2>6 DEF ToRead
    <3> HIDE DEF f, sz
    <3>5. st_req' \in ReadReq /\ st_req'.page = p /\ st_req'.stat.mtime = Disk(p).mtime
          /\ st_req'.stage = "read"
      BY <3>1, <3>3, <3>4 DEF ReadReq
    <3>6. StReqOK' BY <3>2, <3>5 DEF StaticInv, StReqOK, StatOf
    <3>7. StAnsOK' BY <2>6 DEF ToRead, NoAnswer, StAnsOK
    <3>8. StBufsOK' BY <3>5 DEF StaticInv, StBufsOK, StIdle
    <3> QED BY <2>6, <3>6, <3>7, <3>8 DEF ToRead, StaticInv
  <2> QED BY <1>2, <2>4, <2>5, <2>6
<1> QED BY <1>1, <1>2 DEF CacheMiss

\* ... and with one it has.
LEMMA HitKeeps ==
  ASSUME StaticInv, st_conf # NoConfig, st_req = StIdle,
         UNCHANGED <<st_conf, st_disk, st_now, st_bufs, st_leaked>>,
         NEW path, NEW p \in Pages, NEW cond \in Conds,
         CacheHit(path, p, cond)
  PROVE  StaticInv'
<1>1. UNCHANGED <<st_cache, st_req>> /\ st_cache[p].ver # 0 BY DEF CacheHit
<1>2. Written(st_disk[p], st_cache[p]) BY <1>1 DEF StaticInv, Stored
<1>3. SUFFICES /\ st_copy' \in [Pages -> ItemType]
               /\ \A q \in Pages : st_copy'[q].ver # 0 => Written(st_disk'[q], st_copy'[q])
               /\ StAnsOK'
  BY <1>1 DEF StaticInv, StReqOK, StBufsOK
<1>4. CASE Serve(p, st_cache[p], "cache") BY <1>2, <1>4, ServeKeeps
<1>5. CASE Reply(304, p, st_copy[p], NoHeaders, 1, "cache") /\ UNCHANGED st_copy
  <2>1. StAnsOK' BY <1>5, ReplyKeeps
  <2> QED BY <1>5, <2>1 DEF StaticInv
<1> QED BY <1>4, <1>5 DEF CacheHit

\* A path that names a file is a page.
LEMMA PathPage ==
  ASSUME NEW path \in StPaths, path # "missing" PROVE ResolvedPage(path) \in Pages
BY StaticAssumption DEF ResolvedPage

\* handle_request: the cache first, then the disk.
LEMMA HandleKeeps == StaticInv /\ HandleRequest => StaticInv'
<1> SUFFICES ASSUME StaticInv, HandleRequest PROVE StaticInv' OBVIOUS
<1>1. PICK path \in StPaths, gzip \in BOOLEAN, cond \in Conds :
        IF path = "missing" THEN Unresolved
        ELSE \/ CacheHit(path, ResolvedPage(path), cond)
             \/ CacheMiss(path, ResolvedPage(path), gzip, cond)
  BY DEF HandleRequest, Conds
<1>2. /\ st_conf # NoConfig /\ st_req = StIdle
      /\ UNCHANGED <<st_conf, st_disk, st_now, st_bufs, st_leaked>>
  BY DEF HandleRequest
<1>3. CASE path = "missing"
  <2>1. Unresolved BY <1>1, <1>3
  <2>2. StAnsOK' BY <2>1, ReplyKeeps DEF Unresolved, Fail
  <2>3. UNCHANGED <<st_cache, st_req, st_copy>> BY <2>1 DEF Unresolved, Fail
  <2> QED BY <1>2, <2>2, <2>3 DEF StaticInv, StReqOK, StBufsOK
<1>4. CASE path # "missing"
  BY <1>1, <1>2, <1>4, PathPage, HitKeeps, MissKeeps
<1> QED BY <1>3, <1>4

\* The read takes what is there now, and the time the stat saw.
LEMMA ReadKeeps == StaticInv /\ ReadContent => StaticInv'
<1> SUFFICES ASSUME StaticInv, ReadContent PROVE StaticInv' OBVIOUS
<1> DEFINE p == st_req.page
           f == st_req.form
           d == st_disk[p]
           o == OnDisk(p, f)
           item == ReadFile(st_req.stat, p, f)
<1>1. st_req \in ReadReq /\ st_conf \in StConfType /\ StatOf(d, st_req.stat.mtime, st_now)
  BY DEF StaticInv, StReqOK, ReadContent, StIdle, AnswerReq
<1>2. p \in Pages /\ f \in Forms /\ st_req.stat.mtime \in Nat /\ st_req.cond \in Conds
      /\ st_req.stage # "answer"
  BY <1>1 DEF ReadReq
<1>3. /\ o \in ItemType /\ Stored(d, o, st_now)
      /\ o.ver = Len(d) /\ o.at = st_now /\ o.mtime = d[Len(d)].mtime
  BY <1>2, OnDiskIs
<1>4. item = [o EXCEPT !.mtime = st_req.stat.mtime] BY DEF ReadFile
<1>5. st_req' = [stage |-> "answer", page |-> p, cond |-> st_req.cond, item |-> item]
  BY DEF ReadContent
<1>6. Versions(d, st_now) BY <1>2 DEF StaticInv
<1> HIDE DEF o, item, d, p, f
<1>7. /\ item \in ItemType /\ item.ver = Len(d) /\ item.at = st_now
      /\ item.mtime = st_req.stat.mtime /\ item.size = o.size /\ item.form = o.form
  BY <1>2, <1>3, <1>4 DEF ItemType
<1>8. Stored(d, item, st_now)
  <2>1. Len(d) \in Nat BY <1>6 DEF Versions
  <2>2. Written(d, item) BY <1>1, <1>3, <1>7 DEF Written, Stored, StatOf
  <2> QED BY <1>1, <1>3, <1>7, <2>1, <2>2 DEF Stored, StatOf
<1>9. st_req' \in AnswerReq /\ st_req'.page = p /\ st_req'.item = item /\ st_req'.stage = "answer"
  BY <1>2, <1>5, <1>7 DEF AnswerReq
<1>10. UNCHANGED <<st_conf, st_disk, st_cache, st_copy, st_now, st_ans, st_leaked>>
       /\ st_bufs' = st_bufs + 1
  BY DEF ReadContent
<1>11. StReqOK' BY <1>1, <1>7, <1>8, <1>9, <1>10 DEF StReqOK, d
<1>12. StBufsOK' BY <1>2, <1>9, <1>10 DEF StaticInv, StBufsOK
<1> QED BY <1>10, <1>11, <1>12 DEF StaticInv, StAnsOK

\* What is known of a request that has read its file.
LEMMA Answering ==
  ASSUME StaticInv, st_req.stage = "answer"
  PROVE  /\ st_req \in AnswerReq /\ st_conf \in StConfType /\ st_req.page \in Pages /\ st_req.item \in ItemType
         /\ st_req.item.at = st_now
         /\ Stored(st_disk[st_req.page], st_req.item, st_now)
BY DEF StaticInv, StReqOK, StIdle, ReadReq, AnswerReq

\* The answer to a request that was read: 304 for the client that has it ...
LEMMA SameKeeps == StaticInv /\ Same => StaticInv'
<1> SUFFICES ASSUME StaticInv, Same PROVE StaticInv' OBVIOUS
<1>1. StAnsOK' BY ReplyKeeps DEF Same
<1>2. /\ st_req' = StIdle /\ st_bufs' = st_bufs - 1 /\ st_req.stage = "answer"
      /\ UNCHANGED <<st_conf, st_disk, st_cache, st_copy, st_now, st_leaked>>
  BY DEF Same
<1>3. StBufsOK' BY <1>2 DEF StaticInv, StBufsOK, StIdle
<1>4. StReqOK' BY <1>2 DEF StReqOK
<1> QED BY <1>1, <1>2, <1>3, <1>4 DEF StaticInv

\* ... or the file, which is cached with the time the stat saw.
LEMMA CacheAndSendKeeps == StaticInv /\ CacheAndSend => StaticInv'
<1> SUFFICES ASSUME StaticInv, CacheAndSend PROVE StaticInv' OBVIOUS
<1> DEFINE p == st_req.page
           item == st_req.item
<1>1. /\ st_req' = StIdle /\ st_bufs' = st_bufs - 1 /\ st_req.stage = "answer"
      /\ UNCHANGED <<st_conf, st_disk, st_now, st_leaked>>
      /\ Put(p, item) /\ Serve(p, item, "read")
  BY DEF CacheAndSend
<1>2. p \in Pages /\ item \in ItemType /\ Stored(st_disk[p], item, st_now) BY <1>1, Answering
<1> HIDE DEF p, item
<1>3. Written(st_disk[p], item) BY <1>2 DEF Stored
<1>4. /\ st_copy' \in [Pages -> ItemType]
      /\ \A q \in Pages : st_copy'[q].ver # 0 => Written(st_disk'[q], st_copy'[q])
      /\ StAnsOK'
  BY <1>1, <1>2, <1>3, ServeKeeps
<1>5. /\ st_cache' \in [Pages -> ItemType]
      /\ \A q \in Pages : st_cache'[q] = st_cache[q] \/ (q = p /\ st_cache'[q] = item)
  BY <1>1, <1>2 DEF Put, StaticInv
<1>6. \A q \in Pages : st_cache'[q].ver # 0 => Stored(st_disk'[q], st_cache'[q], st_now')
  BY <1>1, <1>2, <1>5 DEF StaticInv
<1>7. StBufsOK' BY <1>1 DEF StaticInv, StBufsOK, StIdle
<1>8. StReqOK' BY <1>1 DEF StReqOK
<1> QED BY <1>1, <1>4, <1>5, <1>6, <1>7, <1>8 DEF StaticInv

\* The embedder's calls and the surroundings.
LEMMA EmbedderKeeps ==
  ASSUME StaticInv,
         \/ StaticCreate \/ ClearCache \/ ReadFails
         \/ \E p \in Pages : DropEntry(p)
         \/ \E n \in StMaxSizes : SetMaxFileSize(n)
         \/ \E t \in StTTLs : SetCacheTTL(t)
  PROVE  StaticInv'
<1> USE StaticAssumption
<1>1. CASE StaticCreate
  <2>1. st_conf' \in StConfType BY <1>1 DEF StaticCreate, StConfigs, StConfType
  <2> QED BY <1>1, <2>1 DEF StaticCreate, StaticInv, StReqOK, StAnsOK, StBufsOK
<1>2. CASE ClearCache \/ \E p \in Pages : DropEntry(p)
  <2>1. /\ UNCHANGED <<st_conf, st_disk, st_copy, st_now, st_req, st_ans, st_bufs, st_leaked>>
        /\ \/ st_cache' = [p \in Pages |-> NoItem]
           \/ \E p \in Pages : st_cache' = [st_cache EXCEPT ![p] = NoItem]
    BY <1>2 DEF ClearCache, DropEntry, Embedder
  <2>2. /\ st_cache' \in [Pages -> ItemType]
        /\ \A q \in Pages : st_cache'[q] = st_cache[q] \/ st_cache'[q] = NoItem
    BY <2>1, NoItemType DEF StaticInv
  <2>3. \A q \in Pages : st_cache'[q].ver # 0 => Stored(st_disk'[q], st_cache'[q], st_now')
    BY <2>1, <2>2, CacheLoses
  <2> QED BY <2>1, <2>2, <2>3 DEF StaticInv, StReqOK, StAnsOK, StBufsOK
<1>3. CASE ReadFails
  <2>1. StAnsOK' BY <1>3, ReplyKeeps DEF ReadFails, Fail
  <2>2. /\ st_req' = StIdle /\ st_req.stage = "read"
        /\ UNCHANGED <<st_conf, st_disk, st_cache, st_copy, st_now, st_bufs, st_leaked>>
    BY <1>3 DEF ReadFails, Fail
  <2>3. StReqOK' /\ StBufsOK' BY <2>2 DEF StaticInv, StReqOK, StBufsOK, StIdle
  <2> QED BY <2>1, <2>2, <2>3 DEF StaticInv
<1>4. CASE \/ \E n \in StMaxSizes : SetMaxFileSize(n)
           \/ \E t \in StTTLs : SetCacheTTL(t)
  <2>1. /\ UNCHANGED <<st_disk, st_cache, st_copy, st_now, st_req, st_ans, st_bufs, st_leaked>>
        /\ st_conf \in StConfType
        /\ \/ \E n \in Nat : st_conf' = [st_conf EXCEPT !.max_file_size = n]
           \/ \E t \in Nat : st_conf' = [st_conf EXCEPT !.cache_ttl = t]
    BY <1>4 DEF SetMaxFileSize, SetCacheTTL, Embedder, StaticInv
  <2>2. st_conf' \in StConfType BY <2>1 DEF StConfType
  <2> QED BY <2>1, <2>2 DEF StaticInv, StReqOK, StAnsOK, StBufsOK
<1> QED BY <1>1, <1>2, <1>3, <1>4

\* uvhttp_static_prewarm_cache, for one file and for a directory.
LEMMA PrewarmKeeps ==
  ASSUME StaticInv, NEW S \in SUBSET Pages, Prewarm(S)
  PROVE  StaticInv'
<1>1. Cardinality(S) \in Nat BY StaticAssumption, FS_Subset, FS_CardinalityType
<1>2. /\ UNCHANGED <<st_conf, st_disk, st_copy, st_now, st_req, st_ans>>
      /\ st_req = StIdle
      /\ st_bufs' = st_bufs + Cardinality(S) /\ st_leaked' = st_leaked + Cardinality(S)
      /\ st_cache' = [p \in Pages |-> IF p \in S /\ st_conf.canonical
                                      THEN OnDisk(p, "plain") ELSE st_cache[p]]
  BY DEF Prewarm, Embedder
<1>3. \A p \in Pages : /\ OnDisk(p, "plain") \in ItemType
                       /\ Stored(st_disk[p], OnDisk(p, "plain"), st_now)
  BY OnDiskIs DEF Forms
<1>4. st_cache' \in [Pages -> ItemType] BY <1>2, <1>3 DEF StaticInv
<1>5. \A p \in Pages : st_cache'[p].ver # 0 => Stored(st_disk[p], st_cache'[p], st_now)
  BY <1>2, <1>3 DEF StaticInv
<1>6. StBufsOK' BY <1>1, <1>2 DEF StaticInv, StBufsOK, StIdle
<1> QED BY <1>2, <1>4, <1>5, <1>6 DEF StaticInv, StReqOK, StAnsOK

\* A file is replaced: the requests on their way keep what they know.
LEMMA DeployStep ==
  ASSUME StaticInv, NEW p \in Pages, Deploy(p)
  PROVE  StaticInv'
<1> DEFINE d == st_disk[p]
<1>1. PICK s \in StSizes, g \in GzSizes :
        st_disk' = [st_disk EXCEPT ![p] = Append(@, [plain |-> s, gz |-> g, mtime |-> st_now])]
  BY DEF Deploy
<1> DEFINE v == [plain |-> s, gz |-> g, mtime |-> st_now]
<1>2. v \in VersionType /\ v.mtime = st_now BY StaticAssumption DEF StaticInv, VersionType
<1>3. /\ st_now > d[Len(d)].mtime
      /\ UNCHANGED <<st_conf, st_cache, st_copy, st_now, st_req, st_ans, st_bufs, st_leaked>>
  BY DEF Deploy, Disk, Current
<1>4. st_now \in Nat /\ st_disk \in [Pages -> Seq(VersionType)]
      /\ \A q \in Pages : Versions(st_disk[q], st_now)
  BY DEF StaticInv
<1>5. st_disk' = [st_disk EXCEPT ![p] = Append(d, v)] BY <1>1, <1>4
<1> HIDE DEF v
<1>6. d[Len(d)].mtime < st_now
  <2>1. d \in Seq(VersionType) /\ Len(d) >= 1 BY <1>4 DEF Versions
  <2>2. d[Len(d)] \in VersionType BY <2>1, ElementOfSeq
  <2> QED BY <1>3, <1>4, <2>2 DEF VersionType
<1>7. /\ Versions(Append(d, v), st_now)
      /\ \A i \in 1 .. Len(d) : Append(d, v)[i] = d[i]
      /\ \A item : Written(d, item) => Written(Append(d, v), item)
      /\ \A item : Stored(d, item, st_now) => Stored(Append(d, v), item, st_now)
      /\ \A mtime : StatOf(d, mtime, st_now) => StatOf(Append(d, v), mtime, st_now)
  BY <1>2, <1>4, <1>6, DeployKeeps
<1>8. Len(Append(d, v)) = Len(d) + 1 /\ Len(d) \in Nat /\ Append(d, v) \in Seq(VersionType)
  BY <1>2, <1>4, AppendProperties
<1>9. /\ st_disk' \in [Pages -> Seq(VersionType)]
      /\ \A q \in Pages : st_disk'[q] = IF q = p THEN Append(d, v) ELSE st_disk[q]
  BY <1>4, <1>5, <1>8
<1> HIDE DEF d
<1>10. /\ \A q \in Pages : Versions(st_disk'[q], st_now)
       /\ \A q \in Pages : \A i : i \in 1 .. Len(st_disk[q]) =>
             st_disk'[q][i] = st_disk[q][i] /\ i \in 1 .. Len(st_disk'[q])
       /\ \A q \in Pages : \A item : Written(st_disk[q], item) => Written(st_disk'[q], item)
       /\ \A q \in Pages : \A item :
             Stored(st_disk[q], item, st_now) => Stored(st_disk'[q], item, st_now)
       /\ \A q \in Pages : \A mtime :
             StatOf(st_disk[q], mtime, st_now) => StatOf(st_disk'[q], mtime, st_now)
  <2> SUFFICES ASSUME NEW q \in Pages
               PROVE  /\ Versions(st_disk'[q], st_now)
                      /\ \A i : i \in 1 .. Len(st_disk[q]) =>
                            st_disk'[q][i] = st_disk[q][i] /\ i \in 1 .. Len(st_disk'[q])
                      /\ \A item : Written(st_disk[q], item) => Written(st_disk'[q], item)
                      /\ \A item : Stored(st_disk[q], item, st_now) =>
                                     Stored(st_disk'[q], item, st_now)
                      /\ \A mtime : StatOf(st_disk[q], mtime, st_now) =>
                                      StatOf(st_disk'[q], mtime, st_now)
    BY Zenon
  <2>1. CASE q = p
    <3>1. st_disk[q] = d /\ st_disk'[q] = Append(d, v) BY <1>9, <2>1 DEF d
    <3>2. \A i : i \in 1 .. Len(d) => i \in 1 .. Len(Append(d, v)) BY <1>8
    <3> QED BY <1>7, <3>1, <3>2, Zenon
  <2>2. CASE q # p
    <3>1. st_disk'[q] = st_disk[q] BY <1>9, <2>2
    <3> QED BY <1>4, <3>1, Zenon
  <2> QED BY <2>1, <2>2
<1>11. StReqOK'
  <2>1. CASE st_req = StIdle BY <1>3, <2>1 DEF StReqOK
  <2>2. CASE /\ st_req \in ReadReq /\ st_conf \in StConfType
             /\ StatOf(st_disk[st_req.page], st_req.stat.mtime, st_now)
    <3>1. st_req.page \in Pages BY <2>2 DEF ReadReq
    <3> QED BY <1>3, <1>10, <2>2, <3>1 DEF StReqOK
  <2>3. CASE /\ st_req \in AnswerReq /\ st_conf \in StConfType /\ st_req.item.at = st_now
             /\ Stored(st_disk[st_req.page], st_req.item, st_now)
    <3>1. st_req.page \in Pages BY <2>3 DEF AnswerReq
    <3> QED BY <1>3, <1>10, <2>3, <3>1 DEF StReqOK
  <2> QED BY <2>1, <2>2, <2>3 DEF StaticInv, StReqOK
<1>12. StAnsOK' BY <1>3, <1>10 DEF StaticInv, StAnsOK
<1>13. StBufsOK' BY <1>3 DEF StaticInv, StBufsOK
<1> QED BY <1>3, <1>4, <1>9, <1>10, <1>11, <1>12, <1>13 DEF StaticInv

\* A second passes.
LEMMA TickStep == StaticInv /\ StTick => StaticInv'
<1> SUFFICES ASSUME StaticInv, StTick PROVE StaticInv' OBVIOUS
<1>1. /\ st_req = StIdle /\ st_now' = st_now + 1 /\ st_ans' = NoAnswer /\ st_now \in Nat
      /\ UNCHANGED <<st_conf, st_disk, st_cache, st_copy, st_req, st_bufs, st_leaked>>
  BY DEF StTick, StaticInv
<1>2. \A d : Versions(d, st_now) => Versions(d, st_now + 1)
  <2> SUFFICES ASSUME NEW d, Versions(d, st_now) PROVE Versions(d, st_now + 1) OBVIOUS
  <2>1. \A i \in 1 .. Len(d) : d[i] \in VersionType BY ElementOfSeq DEF Versions
  <2>2. \A i \in 1 .. Len(d) : d[i].mtime \in Nat BY <2>1 DEF VersionType
  <2>3. \A i \in 1 .. Len(d) : d[i].mtime <= st_now + 1 BY <1>1, <2>2 DEF Versions
  <2> QED BY <2>3 DEF Versions
<1>3. \A d, item : Stored(d, item, st_now) => Stored(d, item, st_now + 1)
  BY <1>1 DEF Stored, Written, ItemType
<1>4. StAnsOK' BY <1>1 DEF StAnsOK, NoAnswer
<1> QED BY <1>1, <1>2, <1>3, <1>4 DEF StaticInv, StReqOK, StBufsOK

\* The invariant of the static file handler is inductive.
LEMMA StaticInvInit == StaticInit => StaticInv
<1> SUFFICES ASSUME StaticInit PROVE StaticInv OBVIOUS
<1> DEFINE v == [plain |-> 3, gz |-> 1, mtime |-> 0]
<1>1. v \in VersionType /\ v.mtime = 0 BY DEF VersionType
<1>2. /\ st_conf = NoConfig /\ st_disk = [p \in Pages |-> <<v>>]
      /\ st_cache = [p \in Pages |-> NoItem] /\ st_copy = [p \in Pages |-> NoItem]
      /\ st_now = 0 /\ st_req = StIdle /\ st_ans = NoAnswer /\ st_bufs = 0 /\ st_leaked = 0
  BY DEF StaticInit
<1> HIDE DEF v
<1>3. /\ <<v>> \in Seq(VersionType) /\ Len(<<v>>) = 1 /\ <<v>>[1] = v BY <1>1
<1>4. Versions(<<v>>, 0) BY <1>1, <1>3 DEF Versions
<1>5. StAnsOK BY <1>2 DEF StAnsOK, NoAnswer
<1>6. NoItem.ver = 0 BY DEF NoItem
<1>7. StBufsOK BY <1>2 DEF StBufsOK, StIdle
<1> QED BY <1>2, <1>3, <1>4, <1>5, <1>6, <1>7, NoItemType DEF StaticInv, StReqOK

\* Every call and every event keeps the invariant of the static file handler.
LEMMA StaticInvNext == StaticInv /\ [StaticNext]_staticVars => StaticInv'
<1> SUFFICES ASSUME StaticInv, [StaticNext]_staticVars PROVE StaticInv' OBVIOUS
<1>1. CASE UNCHANGED staticVars
  BY <1>1 DEF staticVars, StaticInv, StReqOK, StAnsOK, StBufsOK
<1>2. CASE \E n \in {0, 1} : PrewarmDirectory(n)
  BY <1>2, PrewarmKeeps DEF PrewarmDirectory
<1> QED BY <1>1, <1>2, HandleKeeps, ReadKeeps, SameKeeps, CacheAndSendKeeps, EmbedderKeeps,
           DeployStep, TickStep DEF StaticNext

\* It holds at all times.
LEMMA StaticInvariance == StaticSpec => []StaticInv
BY StaticInvInit, StaticInvNext, PTL DEF StaticSpec

\* Whatever deployments, evictions and other requests come between the stat, the
\* read and the answer of uvhttp_static_handle_request: the headers sent describe
\* the very bytes that follow them, and every buffer a read took is given back.
THEOREM ReadsAreConsistent == StaticSpec => []ReadsConsistent
<1>1. StaticInv => ReadsConsistent
  BY DEF StaticInv, StAnsOK, StBufsOK, StIdle, FormSize, SizeOf, ReadsConsistent,
         HeadersDescribeBody, BuffersReturned
<1> QED BY <1>1, StaticInvariance, PTL

\* A copy that is not older than a stored item by its date is not older than that
\* item, but for a version deployed in the second in which the item was read.
LEMMA ConfirmedIsRecent ==
  ASSUME NEW d, NEW now \in Nat, Versions(d, now), NEW e, Stored(d, e, now),
         NEW k, Written(d, k), k.mtime >= e.mtime,
         NEW ttl \in Nat, now - e.at <= ttl
  PROVE  k.ver = Len(d) \/ now - d[k.ver + 1].mtime <= ttl
<1> DEFINE n == Len(d)
<1>1. d \in Seq(VersionType) /\ n \in Nat BY DEF Versions
<1>2. \A i \in 1 .. n : d[i].mtime \in Nat
  <2>1. \A i \in 1 .. n : d[i] \in VersionType BY <1>1, ElementOfSeq
  <2> QED BY <2>1 DEF VersionType
<1>3. \A i, j \in 1 .. n : i < j => d[i].mtime < d[j].mtime BY DEF Versions
<1>4. /\ e.ver \in 1 .. n /\ k.ver \in 1 .. n /\ e.at \in Nat /\ e.mtime \in Nat
      /\ k.mtime \in Nat
  BY DEF Stored, Written, ItemType
<1>5. /\ k.mtime = d[k.ver].mtime \/ (k.ver > 1 /\ k.mtime = d[k.ver - 1].mtime)
      /\ \/ e.mtime = d[e.ver].mtime
         \/ e.ver > 1 /\ e.mtime = d[e.ver - 1].mtime /\ d[e.ver].mtime = e.at
      /\ e.ver < n => d[e.ver + 1].mtime >= e.at
  BY DEF Stored, Written
<1> HIDE DEF n
<1>6. \A i, j \in 1 .. n : d[i].mtime >= d[j].mtime => i >= j BY <1>1, <1>2, <1>3
<1>7. k.ver >= e.ver \/ (k.ver = e.ver - 1 /\ d[e.ver].mtime = e.at)
  <2>1. PICK w \in 1 .. n : (w = k.ver \/ w = k.ver - 1) /\ k.mtime = d[w].mtime
    BY <1>1, <1>4, <1>5
  <2>2. CASE e.mtime = d[e.ver].mtime
    <3>1. w >= e.ver BY <1>4, <1>6, <2>1, <2>2
    <3> QED BY <1>4, <2>1, <3>1
  <2>3. CASE e.ver > 1 /\ e.mtime = d[e.ver - 1].mtime /\ d[e.ver].mtime = e.at
    <3>1. e.ver - 1 \in 1 .. n BY <1>1, <1>4, <2>3
    <3>2. w >= e.ver - 1 BY <1>4, <1>6, <2>1, <2>3, <3>1
    <3> QED BY <1>4, <2>1, <2>3, <3>2
  <2> QED BY <1>5, <2>2, <2>3
<1>8. SUFFICES ASSUME k.ver # n PROVE now - d[k.ver + 1].mtime <= ttl BY DEF n
<1>9. k.ver + 1 \in 1 .. n BY <1>1, <1>4, <1>8
<1>10. d[k.ver + 1].mtime >= e.at
  <2>1. CASE k.ver = e.ver - 1 /\ d[e.ver].mtime = e.at BY <1>2, <1>4, <2>1
  <2>2. CASE k.ver >= e.ver
    <3>1. e.ver < n /\ e.ver + 1 \in 1 .. n BY <1>1, <1>4, <1>9, <2>2
    <3>2. d[e.ver + 1].mtime >= e.at BY <1>5, <3>1
    <3>3. d[k.ver + 1].mtime >= d[e.ver + 1].mtime
      <4>1. CASE k.ver = e.ver BY <1>2, <3>1, <4>1
      <4>2. CASE e.ver + 1 < k.ver + 1 BY <1>2, <1>3, <1>9, <3>1, <4>2
      <4> QED BY <1>4, <2>2, <4>1, <4>2
    <3> QED BY <1>2, <1>4, <1>9, <3>1, <3>2, <3>3
  <2> QED BY <1>7, <2>1, <2>2
<1>11. d[k.ver + 1].mtime \in Nat BY <1>2, <1>9
<1> QED BY <1>4, <1>10, <1>11

\* What handle_request confirms is a copy not older than an item that was on the
\* disk at item.at.  East of Greenwich the date only seems older than it is.
LEMMA NotModifiedIsRecent ==
  ASSUME \A z \in Zones : z >= 0, StaticInv, st_conf \in StConfType, NEW p \in Pages,
         NEW e, Stored(st_disk[p], e, st_now), ~StExpired(e),
         NEW cond, NotModified(cond, st_copy[p], e)
  PROVE  Recent(p, st_copy[p].ver)
<1> DEFINE k == st_copy[p]
           d == st_disk[p]
<1>1. k \in ItemType /\ e \in ItemType BY DEF StaticInv, Stored, Written
<1>2. st_conf.tz \in Int /\ st_conf.tz >= 0 /\ st_conf.cache_ttl \in Nat
  BY StaticAssumption DEF StConfType
<1>3. k.mtime \in Nat /\ e.mtime \in Nat /\ e.at \in Nat BY <1>1 DEF ItemType
<1>4. k.ver # 0 /\ k.mtime >= e.mtime
  <2>1. CASE cond = "etag" /\ k.ver # 0 /\ Etag(k) = Etag(e)
    BY <1>3, <2>1 DEF Etag
  <2>2. CASE cond = "date" /\ k.ver # 0 /\ k.mtime - st_conf.tz >= e.mtime
    BY <1>2, <1>3, <2>2
  <2> QED BY <2>1, <2>2 DEF NotModified
<1>5. Written(d, k) /\ Versions(d, st_now) /\ st_now \in Nat BY <1>4 DEF StaticInv
<1>6. CASE st_conf.cache_ttl = 0 BY <1>6 DEF Recent
<1>7. CASE st_conf.cache_ttl > 0
  <2>1. st_now - e.at <= st_conf.cache_ttl BY <1>2, <1>3, <1>5, <1>7 DEF StExpired
  <2>2. k.ver = Len(d) \/ st_now - d[k.ver + 1].mtime <= st_conf.cache_ttl
    BY <1>2, <1>4, <1>5, <2>1, ConfirmedIsRecent
  <2> QED BY <2>2 DEF Recent, Current
<1> QED BY <1>2, <1>6, <1>7

\* ... and so is what it sends.
LEMMA StoredIsRecent ==
  ASSUME StaticInv, st_conf \in StConfType, NEW p \in Pages,
         NEW e, Stored(st_disk[p], e, st_now), ~StExpired(e)
  PROVE  Recent(p, e.ver)
<1>1. /\ e.at \in Nat /\ st_now \in Nat /\ st_conf.cache_ttl \in Nat
      /\ e.mtime \in Nat /\ Written(st_disk[p], e) /\ Versions(st_disk[p], st_now)
  BY DEF StaticInv, StConfType, Stored, Written, ItemType
<1>2. CASE st_conf.cache_ttl = 0 BY <1>2 DEF Recent
<1>3. CASE st_conf.cache_ttl > 0
  <2>1. st_now - e.at <= st_conf.cache_ttl BY <1>1, <1>3 DEF StExpired
  <2>2. \/ e.ver = Len(st_disk[p])
        \/ st_now - st_disk[p][e.ver + 1].mtime <= st_conf.cache_ttl
    BY <1>1, <2>1, ConfirmedIsRecent
  <2> QED BY <2>2 DEF Recent, Current
<1> QED BY <1>1, <1>2, <1>3

\* An item that is read now is not expired.
LEMMA NowIsFresh ==
  ASSUME StaticInv, st_conf \in StConfType, NEW e, e.at = st_now
  PROVE  ~StExpired(e)
BY DEF StaticInv, StConfType, StExpired

\* The fields of an answer.
LEMMA ReplyFields ==
  ASSUME NEW code, NEW p, NEW item, NEW headers, NEW sent, NEW by,
         Reply(code, p, item, headers, sent, by)
  PROVE  st_ans'.code = code /\ st_ans'.page = p /\ st_ans'.item = item
BY DEF Reply

\* One step of FreshWithinTTL.
FreshStep ==
  st_ans' # st_ans /\ st_ans'.code \in {200, 304} /\ st_ans'.item.ver # 0
    => Recent(st_ans'.page, st_ans'.item.ver)

\* handle_request answers from the cache only with what is recent ...
LEMMA HandleFresh ==
  ASSUME \A z \in Zones : z >= 0, StaticInv, HandleRequest
  PROVE  FreshStep
<1>1. PICK path \in StPaths, gzip \in BOOLEAN, cond \in Conds :
        IF path = "missing" THEN Unresolved
        ELSE \/ CacheHit(path, ResolvedPage(path), cond)
             \/ CacheMiss(path, ResolvedPage(path), gzip, cond)
  BY DEF HandleRequest, Conds
<1>2. st_conf \in StConfType BY DEF HandleRequest, StaticInv
<1>3. ASSUME Fail PROVE FreshStep BY <1>3, ReplyFields DEF Fail, FreshStep
<1>4. CASE path = "missing" BY <1>1, <1>3, <1>4 DEF Unresolved
<1>5. CASE path # "missing"
  <2> DEFINE p == ResolvedPage(path)
             f == Form(p, gzip)
             o == OnDisk(p, f)
  <2>1. p \in Pages /\ f \in Forms BY <1>5, PathPage, FormIs
  <2>2. CASE CacheHit(path, p, cond)
    <3>1. st_cache[p].ver # 0 /\ ~StExpired(st_cache[p]) BY <2>2 DEF CacheHit
    <3>2. Stored(st_disk[p], st_cache[p], st_now) BY <2>1, <3>1 DEF StaticInv
    <3>3. CASE /\ NotModified(cond, st_copy[p], st_cache[p])
               /\ Reply(304, p, st_copy[p], NoHeaders, 1, "cache")
      <4>1. Recent(p, st_copy[p].ver) BY <1>2, <2>1, <3>1, <3>2, <3>3, NotModifiedIsRecent
      <4> QED BY <3>3, <4>1, ReplyFields DEF FreshStep
    <3>4. CASE Serve(p, st_cache[p], "cache")
      <4>1. Recent(p, st_cache[p].ver) BY <1>2, <2>1, <3>1, <3>2, StoredIsRecent
      <4> QED BY <3>4, <4>1, ReplyFields DEF FreshStep, Serve
    <3> QED BY <2>2, <3>3, <3>4 DEF CacheHit
  <2>3. CASE CacheMiss(path, p, gzip, cond)
    <3>1. CASE Listing(path)
      <4>1. st_ans'.item = NoItem BY <3>1, ReplyFields DEF Listing
      <4> QED BY <4>1 DEF FreshStep, NoItem
    <3>2. CASE TooLarge(p) BY <1>3, <3>2 DEF TooLarge
    <3>3. CASE BySendfile(p, f, cond)
      <4>1. Stored(st_disk[p], o, st_now) /\ o.at = st_now BY <2>1, OnDiskIs
      <4>2. ~StExpired(o) BY <1>2, <4>1, NowIsFresh
      <4>3. CASE NotModified(cond, st_copy[p], o) /\ Reply(304, p, st_copy[p], NoHeaders, 0, "stat")
        <5>1. Recent(p, st_copy[p].ver) BY <1>2, <2>1, <4>1, <4>2, <4>3, NotModifiedIsRecent
        <5> QED BY <4>3, <5>1, ReplyFields DEF FreshStep
      <4>4. CASE Reply(200, p, o, SendfileHeaders(o), 1, "sendfile")
        <5>1. Recent(p, o.ver) BY <1>2, <2>1, <4>1, <4>2, StoredIsRecent
        <5> QED BY <4>4, <5>1, ReplyFields DEF FreshStep
      <4> QED BY <3>3, <4>3, <4>4 DEF BySendfile
    <3>4. CASE ToRead(p, f, cond) BY <3>4 DEF ToRead, NoAnswer, FreshStep
    <3> QED BY <2>3, <3>1, <3>2, <3>3, <3>4 DEF CacheMiss
  <2> QED BY <1>1, <1>5, <2>2, <2>3
<1> QED BY <1>4, <1>5

\* ... and so does the request that was read.
LEMMA AnswerFresh ==
  ASSUME \A z \in Zones : z >= 0, StaticInv, Same \/ CacheAndSend
  PROVE  FreshStep
<1> DEFINE p == st_req.page
           e == st_req.item
<1>1. st_req.stage = "answer" BY DEF Same, CacheAndSend
<1>2. /\ st_conf \in StConfType /\ p \in Pages /\ e.at = st_now
      /\ Stored(st_disk[p], e, st_now)
  BY <1>1, Answering
<1>3. ~StExpired(e) BY <1>2, NowIsFresh
<1>4. CASE Same
  <2>1. NotModified(st_req.cond, st_copy[p], e) /\ Reply(304, p, st_copy[p], NoHeaders, 0, "read")
    BY <1>4 DEF Same
  <2>2. Recent(p, st_copy[p].ver) BY <1>2, <1>3, <2>1, NotModifiedIsRecent
  <2> QED BY <2>1, <2>2, ReplyFields DEF FreshStep
<1>5. CASE CacheAndSend
  <2>1. Reply(200, p, e, HeadersOf(e), 1, "read") BY <1>5 DEF CacheAndSend, Serve
  <2>2. Recent(p, e.ver) BY <1>2, <1>3, StoredIsRecent
  <2> QED BY <2>1, <2>2, ReplyFields DEF FreshStep
<1> QED BY <1>4, <1>5

\* On a server whose local time is not behind UTC, uvhttp_static_handle_request
\* never answers, with a body or with 304, from a version that was replaced longer
\* ago than the TTL: If-Modified-Since, which parse_http_time reads as local time,
\* then only makes the copy of the client look older than it is.
THEOREM FreshEastOfGreenwich ==
  ASSUME \A z \in Zones : z >= 0
  PROVE  StaticSpec => FreshWithinTTL
<1>1. StaticInv /\ StaticInv' /\ [StaticNext]_staticVars => [FreshStep]_staticVars
  <2> SUFFICES ASSUME StaticInv, StaticNext PROVE FreshStep OBVIOUS
  <2>1. CASE st_ans' = st_ans BY <2>1 DEF FreshStep
  <2>2. CASE HandleRequest BY <2>2, HandleFresh
  <2>3. CASE ReadFails BY <2>3, ReplyFields DEF ReadFails, Fail, FreshStep
  <2>4. CASE StTick BY <2>4 DEF StTick, NoAnswer, FreshStep
  <2>5. CASE Same \/ CacheAndSend BY <2>5, AnswerFresh
  <2> QED BY <2>1, <2>2, <2>3, <2>4, <2>5
     DEF StaticNext, StaticCreate, ReadContent, ClearCache, Embedder, Deploy, DropEntry,
         SetMaxFileSize, SetCacheTTL, PrewarmDirectory, Prewarm
<1> QED BY <1>1, StaticInvariance, PTL DEF FreshWithinTTL, FreshStep, StaticSpec

-----------------------------------------------------------------------------
(* Transfers by sendfile.                                                  *)

InOrder(w) == \A i \in DOMAIN w : w[i] >= 0 => w[i] = UnitsIn(w, i - 1)

\* The count depends on the part of the wire that is counted.
LEMMA UnitsOfPrefix ==
  ASSUME NEW w, NEW e, NEW n \in Nat, \A i \in 1 .. n : e[i] = w[i]
  PROVE  UnitsIn(e, n) = UnitsIn(w, n)
<1>1. {k \in 1 .. n : e[k] >= 0} = {k \in 1 .. n : w[k] >= 0} OBVIOUS
<1> QED BY <1>1 DEF UnitsIn

\* The count is a number.
LEMMA UnitsFinite ==
  ASSUME NEW w, NEW n \in Nat
  PROVE  IsFiniteSet({k \in 1 .. n : w[k] >= 0}) /\ UnitsIn(w, n) \in Nat
<1>1. IsFiniteSet(1 .. n) BY FS_Interval
<1>2. IsFiniteSet({k \in 1 .. n : w[k] >= 0}) BY <1>1, FS_Subset
<1> QED BY <1>2, FS_CardinalityType DEF UnitsIn

\* Headers, or the next answer, behind what is on the wire.
LEMMA MarkBehind ==
  ASSUME NEW w \in Seq(Int), InOrder(w), NEW e \in Seq(Int), Len(e) = Len(w) + 1,
         e[Len(w) + 1] < 0, \A i \in 1 .. Len(w) : e[i] = w[i]
  PROVE  InOrder(e) /\ UnitsIn(e, Len(e)) = UnitsIn(w, Len(w))
<1> DEFINE n == Len(w)
<1>1. n \in Nat /\ DOMAIN w = 1 .. n /\ DOMAIN e = 1 .. n + 1 BY LenProperties
<1>2. e[n + 1] < 0 /\ e[n + 1] \in Int /\ \A i \in 1 .. n : e[i] = w[i] BY <1>1, ElementOfSeq
<1>3. Len(e) = n + 1 OBVIOUS
<1> HIDE DEF n
<1>4. InOrder(e)
  <2> SUFFICES ASSUME NEW i \in 1 .. n + 1, e[i] >= 0 PROVE e[i] = UnitsIn(e, i - 1)
    BY <1>1 DEF InOrder
  <2>1. i \in 1 .. n /\ i - 1 \in Nat BY <1>1, <1>2
  <2>2. w[i] >= 0 /\ w[i] = UnitsIn(w, i - 1) BY <1>1, <1>2, <2>1 DEF InOrder
  <2>3. \A k \in 1 .. i - 1 : e[k] = w[k] BY <1>1, <1>2, <2>1
  <2>4. UnitsIn(e, i - 1) = UnitsIn(w, i - 1) BY <2>1, <2>3, UnitsOfPrefix
  <2> QED BY <1>2, <2>1, <2>2, <2>4
<1>5. UnitsIn(e, n + 1) = UnitsIn(w, n)
  <2>1. {k \in 1 .. n + 1 : e[k] >= 0} = {k \in 1 .. n : w[k] >= 0} BY <1>1, <1>2
  <2> QED BY <2>1 DEF UnitsIn
<1> QED BY <1>3, <1>4, <1>5 DEF n

\* The same for the answers that are sent as sequences of one mark.
LEMMA MarkConcat ==
  ASSUME NEW s \in Seq(Int), InOrder(s), NEW m \in Seq(Int), Len(m) = 1, m[1] < 0
  PROVE  /\ s \o m \in Seq(Int) /\ InOrder(s \o m)
         /\ UnitsIn(s \o m, Len(s \o m)) = UnitsIn(s, Len(s))
<1> DEFINE e == s \o m
           n == Len(s)
<1>1. e \in Seq(Int) /\ Len(e) = n + Len(m) BY ConcatProperties
<1>2. \A i \in 1 .. n + Len(m) : e[i] = IF i <= n THEN s[i] ELSE m[i - n] BY ConcatProperties
<1>3. n \in Nat BY LenProperties
<1> HIDE DEF e, n
<1>4. n + 1 \in 1 .. n + Len(m) /\ ~(n + 1 <= n) /\ (n + 1) - n = 1 BY <1>3
<1>5. e[n + 1] < 0 BY <1>2, <1>4
<1>6. \A i \in 1 .. n : e[i] = s[i] BY <1>2, <1>3
<1>7. InOrder(e) /\ UnitsIn(e, Len(e)) = UnitsIn(s, n) BY <1>1, <1>5, <1>6, MarkBehind DEF n
<1> QED BY <1>1, <1>7 DEF e, n

\* The next units of the file behind what is on the wire.
LEMMA UnitsBehind ==
  ASSUME NEW w \in Seq(Int), InOrder(w), NEW a, a = UnitsIn(w, Len(w)), NEW n \in Nat
  PROVE  /\ w \o Units(a, a + n) \in Seq(Int) /\ InOrder(w \o Units(a, a + n))
         /\ Len(w \o Units(a, a + n)) = Len(w) + n
         /\ UnitsIn(w \o Units(a, a + n), Len(w) + n) = a + n
<1> DEFINE u == Units(a, a + n)
           e == w \o u
           m == Len(w)
           old == {k \in 1 .. m : w[k] >= 0}
<1>1. m \in Nat /\ DOMAIN w = 1 .. m /\ a \in Nat BY LenProperties, UnitsFinite
<1>2. u \in Seq(Int) /\ Len(u) = n /\ \A j \in 1 .. n : u[j] = a + j - 1
  <2>1. u = [j \in 1 .. n |-> a + j - 1] BY <1>1 DEF Units
  <2> QED BY <1>1, <2>1
<1> HIDE DEF u
<1>3. /\ e \in Seq(Int) /\ Len(e) = m + n /\ DOMAIN e = 1 .. m + n
      /\ \A i \in 1 .. m + n : e[i] = IF i <= m THEN w[i] ELSE u[i - m]
  <2>1. /\ e \in Seq(Int) /\ Len(e) = m + n
        /\ \A i \in 1 .. m + n : e[i] = IF i <= m THEN w[i] ELSE u[i - m]
    BY <1>2, ConcatProperties
  <2> QED BY <2>1, LenProperties
<1>4. IsFiniteSet(old) /\ Cardinality(old) = a BY <1>1, UnitsFinite DEF UnitsIn
<1> HIDE DEF e
<1>5. \A i \in 1 .. m : e[i] = w[i] BY <1>1, <1>3
<1>6. \A j \in 1 .. n : e[m + j] = a + j - 1
  <2> SUFFICES ASSUME NEW j \in 1 .. n PROVE e[m + j] = a + j - 1 OBVIOUS
  <2>1. m + j \in 1 .. m + n /\ ~(m + j <= m) /\ (m + j) - m = j BY <1>1
  <2> QED BY <1>2, <1>3, <2>1
<1>7. \A i \in m + 1 .. m + n : e[i] >= 0
  <2> SUFFICES ASSUME NEW i \in m + 1 .. m + n PROVE e[i] >= 0 OBVIOUS
  <2>1. i - m \in 1 .. n /\ m + (i - m) = i BY <1>1
  <2>2. e[i] = a + (i - m) - 1 BY <1>6, <2>1
  <2> QED BY <1>1, <2>1, <2>2
<1> HIDE DEF m
<1>8. ASSUME NEW j \in 0 .. n PROVE UnitsIn(e, m + j) = a + j
  <2> DEFINE new == m + 1 .. m + j
  <2>1. {k \in 1 .. m + j : e[k] >= 0} = old \cup new
    <3>1. \A k \in 1 .. m + j : k \in 1 .. m \/ k \in new BY <1>1
    <3>2. \A k \in new : k \in m + 1 .. m + n /\ k \in 1 .. m + j BY <1>1
    <3>3. \A k \in 1 .. m : k \in 1 .. m + j BY <1>1
    <3> HIDE DEF new
    <3> QED BY <1>5, <1>7, <3>1, <3>2, <3>3
  <2>2. IsFiniteSet(new) /\ Cardinality(new) = j
    <3>1. m + 1 \in Int /\ m + j \in Int BY <1>1
    <3>2. /\ IsFiniteSet(new)
          /\ Cardinality(new) = IF m + 1 > m + j THEN 0 ELSE (m + j) - (m + 1) + 1
      BY <3>1, FS_Interval
    <3>3. CASE j = 0 BY <1>1, <3>2, <3>3
    <3>4. CASE j > 0 BY <1>1, <3>2, <3>4
    <3> QED BY <3>3, <3>4
  <2>3. old \cap new = {} BY <1>1
  <2> HIDE DEF new, old
  <2>4. Cardinality(old \cup new) = Cardinality(old) + Cardinality(new) - Cardinality(old \cap new)
    BY <1>4, <2>2, FS_Union
  <2>5. Cardinality(old \cap new) = 0 BY <2>3, FS_EmptySet
  <2>6. a \in Int /\ j \in Int BY <1>1
  <2>7. Cardinality(old \cup new) = a + j - 0 BY <1>4, <2>2, <2>4, <2>5, Zenon
  <2>8. Cardinality(old \cup new) = a + j BY <2>6, <2>7
  <2> QED BY <2>1, <2>8 DEF UnitsIn
<1>9. InOrder(e)
  <2> SUFFICES ASSUME NEW i \in 1 .. m + n, e[i] >= 0 PROVE e[i] = UnitsIn(e, i - 1)
    BY <1>3 DEF InOrder
  <2>1. CASE i <= m
    <3>1. i \in 1 .. m /\ i - 1 \in Nat /\ \A k \in 1 .. i - 1 : k \in 1 .. m
      BY <1>1, <2>1
    <3>2. w[i] = UnitsIn(w, i - 1) BY <1>1, <1>5, <3>1 DEF InOrder
    <3>3. UnitsIn(e, i - 1) = UnitsIn(w, i - 1) BY <1>5, <3>1, UnitsOfPrefix
    <3> QED BY <1>5, <3>1, <3>2, <3>3
  <2>2. CASE ~(i <= m)
    <3>1. /\ i - m \in 1 .. n /\ m + (i - m) = i /\ i - m - 1 \in 0 .. n
          /\ m + (i - m - 1) = i - 1
      BY <1>1, <2>2
    <3>2. e[i] = a + (i - m) - 1 BY <1>6, <3>1
    <3>3. UnitsIn(e, i - 1) = a + (i - m - 1) BY <1>8, <3>1
    <3> QED BY <1>1, <3>1, <3>2, <3>3
  <2> QED BY <2>1, <2>2
<1>10. UnitsIn(e, m + n) = a + n
  <2>1. n \in 0 .. n OBVIOUS
  <2> QED BY <1>8, <2>1
<1> QED BY <1>3, <1>9, <1>10 DEF e, u, m

\* Before the request there is nothing to send and nothing to release.
NotYet ==
  sf_ctx.state = "none" =>
    /\ sf_wire = <<>> /\ sf_stray = <<>> /\ sf_req.state = "idle"
    /\ sf_close.calls = 0 /\ sf_headers = "none" /\ ~sf_conn.reading
    /\ sf_ctx.timer = "none"

\* The descriptor is the connection's own as long as that is open, and what went
\* to another connection went there later.
OwnFirst ==
  /\ sf_conn.state = "open" => sf_conn.fd = "own"
  /\ sf_stray # <<>> => sf_conn.fd # "own"

\* offset and the result of a finished chunk say how much of the file was sent.
SentSoFar ==
  LET sent == UnitsIn(sf_wire, Len(sf_wire)) + Len(sf_stray) IN
  /\ sf_req.state = "queued" => sent = sf_ctx.offset
  /\ sf_req.state = "done" =>
       sent = sf_ctx.offset + IF sf_req.result >= 0 THEN sf_req.result ELSE 0

\* Who has closed the file has taken the others the occasion to.
ReleaseOK ==
  /\ sf_close.calls \in {0, 1}
  /\ sf_close.state # "none" => sf_close.calls = 1
  /\ sf_close.calls = 1 =>
       sf_ctx.completed \/ (sf_req.state = "idle" /\ sf_ctx.timer # "armed")
  /\ sf_ctx.completed => sf_ctx.timed_out \/ sf_req.state = "idle"
  /\ sf_ctx.timer = "closing" => sf_ctx.timed_out
  /\ ReleasedAtMostOnce

SendfileInv ==
  /\ SendfileTypeOK /\ sf_wire \in Seq(Int) /\ sf_stray \in Seq(Int)
  /\ NotYet /\ OwnFirst /\ BodyInOrder /\ SentSoFar /\ ReleaseOK

\* The context a transfer starts with.
LEMMA InitConfigIs ==
  ASSUME NEW size \in FileSizes, NEW chunk \in ChunkConfigs, NEW retry \in RetryConfigs
  PROVE  /\ InitConfig(size, chunk, retry) \in CtxType
         /\ InitConfig(size, chunk, retry).state = "live"
         /\ InitConfig(size, chunk, retry).offset = 0
         /\ ~InitConfig(size, chunk, retry).completed
         /\ InitConfig(size, chunk, retry).timer = "none"
         /\ ~InitConfig(size, chunk, retry).timed_out
<1>1. size \in Nat /\ chunk \in Nat /\ retry \in Nat BY SendfileAssumption
<1>2. (IF retry > 0 THEN retry ELSE DefaultRetry) \in Nat BY <1>1, SendfileAssumption
<1>3. (IF chunk > 0 THEN chunk ELSE IF size < LargeFrom THEN SmallChunk ELSE LargeChunk) \in Nat
  BY <1>1, SendfileAssumption
<1> QED BY <1>1, <1>2, <1>3 DEF InitConfig, NoCtx, CtxType

\* There is no context before the first transfer.
LEMMA NoCtxIs ==
  LET c == [NoCtx EXCEPT !.state = "freed"] IN
  /\ c \in CtxType /\ c.state = "freed" /\ ~c.completed /\ c.timer = "none" /\ ~c.timed_out
BY DEF NoCtx, CtxType

\* The wire is empty, or has the headers, when the handler falls back.
LEMMA ChunkedIs ==
  ASSUME NEW w \in Seq(Int), InOrder(w), UnitsIn(w, Len(w)) = 0, NEW size \in Nat, NEW len \in Nat
  PROVE  SendFileChunked(size, len, w) \in Seq(Int) /\ InOrder(SendFileChunked(size, len, w))
<1> DEFINE h == w \o <<HEADERS>>
           n == IF len < size THEN len ELSE size
           b == h \o Units(0, n)
           e == b \o <<NEXT>>
<1>1. /\ <<HEADERS>> \in Seq(Int) /\ Len(<<HEADERS>>) = 1 /\ <<HEADERS>>[1] < 0
      /\ <<NEXT>> \in Seq(Int) /\ Len(<<NEXT>>) = 1 /\ <<NEXT>>[1] < 0
  BY DEF HEADERS, NEXT
<1>3. h \in Seq(Int) /\ InOrder(h) /\ UnitsIn(h, Len(h)) = 0 BY <1>1, MarkConcat
<1> HIDE DEF h
<1>4. n \in Nat /\ 0 + n = n OBVIOUS
<1>5. b \in Seq(Int) /\ InOrder(b)
  <2>1. /\ h \o Units(0, 0 + n) \in Seq(Int) /\ InOrder(h \o Units(0, 0 + n))
    BY <1>3, <1>4, UnitsBehind
  <2> QED BY <1>4, <2>1
<1>6. e \in Seq(Int) /\ InOrder(e)
  <2> HIDE DEF b
  <2> QED BY <1>1, <1>5, MarkConcat
<1>7. CASE len < size
  <2>1. SendFileChunked(size, len, w) = e BY <1>7 DEF SendFileChunked, h
  <2> QED BY <1>6, <2>1
<1>8. CASE ~(len < size)
  <2>1. SendFileChunked(size, len, w) = b BY <1>8 DEF SendFileChunked, h
  <2> QED BY <1>5, <2>1
<1> QED BY <1>7, <1>8

\* The headers alone.
LEMMA HeadersIs ==
  /\ <<>> \in Seq(Int) /\ InOrder(<<>>) /\ UnitsIn(<<>>, Len(<<>>)) = 0
  /\ Append(<<>>, HEADERS) \in Seq(Int) /\ InOrder(Append(<<>>, HEADERS))
  /\ UnitsIn(Append(<<>>, HEADERS), Len(Append(<<>>, HEADERS))) = 0
<1>1. <<>> \in Seq(Int) /\ Len(<<>>) = 0 /\ DOMAIN <<>> = {} OBVIOUS
<1>2. InOrder(<<>>) BY <1>1 DEF InOrder
<1>3. UnitsIn(<<>>, Len(<<>>)) = 0
  <2>1. {k \in 1 .. 0 : <<>>[k] >= 0} = {} OBVIOUS
  <2> QED BY <1>1, <2>1, FS_EmptySet DEF UnitsIn
<1> DEFINE e == Append(<<>>, HEADERS)
<1>4. e \in Seq(Int) /\ Len(e) = 1 /\ e[1] < 0 BY DEF HEADERS
<1> HIDE DEF e
<1>5. InOrder(e) /\ UnitsIn(e, Len(e)) = 0
  <2>1. Len(e) = Len(<<>>) + 1 /\ e[Len(<<>>) + 1] < 0 BY <1>1, <1>4
  <2>2. \A i \in 1 .. Len(<<>>) : e[i] = <<>>[i] BY <1>1
  <2> QED BY <1>1, <1>2, <1>3, <1>4, <2>1, <2>2, MarkBehind
<1> QED BY <1>1, <1>2, <1>3, <1>4, <1>5 DEF e

\* uvhttp_static_sendfile_with_config: small, large, or no file at all.
LEMMA StartKeeps == SendfileInv /\ SendfileWithConfig => SendfileInv'
<1> SUFFICES ASSUME SendfileInv, SendfileWithConfig PROVE SendfileInv' OBVIOUS
<1>1. PICK size \in FileSizes, chunk \in ChunkConfigs, retry \in RetryConfigs,
           keepalive \in BOOLEAN, lost \in BOOLEAN :
        LET len == IF lost THEN size - 1 ELSE size IN
        /\ sf_ctx.state = "none" /\ sf_conn.state = "open"
        /\ sf_conn' = [sf_conn EXCEPT !.keepalive = keepalive]
        /\ sf_len' = len /\ UNCHANGED sf_stray
        /\ \/ SmallFile(size)
           \/ StartFails(size, len)
           \/ HeadersFail(size, chunk, retry, len)
           \/ Started(size, chunk, retry)
           \/ SubmitFails(size, chunk, retry, len)
  BY Zenon DEF SendfileWithConfig
<1> DEFINE len == IF lost THEN size - 1 ELSE size
           c == InitConfig(size, chunk, retry)
<1>2. size \in Nat /\ len \in Nat BY SendfileAssumption
<1> HIDE DEF len
<1>3. /\ sf_ctx.state = "none" /\ sf_conn.state = "open" /\ sf_len' = len
      /\ sf_conn' = [sf_conn EXCEPT !.keepalive = keepalive] /\ UNCHANGED sf_stray
      /\ \/ SmallFile(size) \/ StartFails(size, len) \/ HeadersFail(size, chunk, retry, len)
         \/ Started(size, chunk, retry) \/ SubmitFails(size, chunk, retry, len)
  BY <1>1 DEF len
<1>4. /\ sf_wire = <<>> /\ sf_stray = <<>> /\ sf_req.state = "idle" /\ sf_close.calls = 0
      /\ sf_close.state = "none" /\ sf_headers = "none" /\ ~sf_conn.reading
      /\ sf_conn \in ConnSt /\ sf_conn.fd = "own" /\ sf_req \in ReqType
  BY <1>3 DEF SendfileInv, NotYet, OwnFirst, SendfileTypeOK, ReleaseOK
<1>5. /\ sf_conn' \in ConnSt /\ sf_conn'.state = "open" /\ sf_conn'.fd = "own"
  BY <1>3, <1>4 DEF ConnSt
<1>6. /\ c \in CtxType /\ c.state = "live" /\ c.offset = 0 /\ ~c.completed
      /\ c.timer = "none" /\ ~c.timed_out
  BY InitConfigIs
<1> HIDE DEF c
<1>7. OwnFirst' BY <1>3, <1>4, <1>5 DEF OwnFirst
<1>8. /\ sf_close' \in [state : {"none", "queued", "done"}, calls : Nat]
      /\ sf_close'.calls \in {0, 1} /\ (sf_close'.state # "none" => sf_close'.calls = 1)
      /\ (sf_close'.calls = 1 => sf_req' = sf_req)
  <2>1. CASE UNCHANGED sf_close BY <1>4, <2>1 DEF SendfileInv, SendfileTypeOK
  <2>2. CASE FsClose /\ sf_req' = sf_req BY <1>4, <2>2 DEF FsClose
  <2> QED BY <1>3, <2>1, <2>2 DEF SmallFile, StartFails, HeadersFail, Started, SubmitFails
<1>9. sf_wire' \in Seq(Int) /\ InOrder(sf_wire')
  <2>1. ASSUME NEW w, w = sf_wire \/ w = Append(sf_wire, HEADERS)
        PROVE  /\ SendFileChunked(size, len, w) \in Seq(Int)
               /\ InOrder(SendFileChunked(size, len, w))
    BY <1>2, <1>4, <2>1, ChunkedIs, HeadersIs
  <2> QED BY <1>3, <1>4, <2>1, HeadersIs
      DEF SmallFile, StartFails, HeadersFail, Started, SubmitFails
<1>10. BodyInOrder'
  <2>1. DOMAIN sf_stray' = {} BY <1>3, <1>4
  <2> QED BY <1>9, <2>1 DEF BodyInOrder, InOrder
<1>11. sf_headers' \in {"none", "queued", "written"} /\ sf_len' \in Nat /\ sf_stray' \in Seq(Int)
  BY <1>2, <1>3, <1>4 DEF SmallFile, StartFails, HeadersFail, Started, SubmitFails
<1>12. CASE Started(size, chunk, retry)
  <2>1. /\ sf_ctx' = [c EXCEPT !.cork = TRUE, !.timer = "armed"]
        /\ sf_req' = [sf_req EXCEPT !.state = "queued"]
        /\ sf_wire' = Append(sf_wire, HEADERS) /\ UNCHANGED sf_close
    BY <1>12 DEF Started, c
  <2>2. /\ sf_ctx' \in CtxType /\ sf_ctx'.state = "live" /\ sf_ctx'.offset = 0
        /\ ~sf_ctx'.completed /\ sf_ctx'.timer = "armed"
    BY <1>6, <2>1 DEF CtxType
  <2>3. sf_req' \in ReqType /\ sf_req'.state = "queued" BY <1>4, <2>1 DEF ReqType
  <2>4. UnitsIn(sf_wire', Len(sf_wire')) = 0 /\ Len(sf_stray') = 0
    BY <1>3, <1>4, <2>1, HeadersIs
  <2>5. SentSoFar' BY <2>2, <2>3, <2>4 DEF SentSoFar
  <2>6. ReleaseOK' BY <1>4, <2>1, <2>2, <2>3 DEF ReleaseOK, ReleasedAtMostOnce
  <2>7. NotYet' BY <2>2 DEF NotYet
  <2> QED BY <1>5, <1>7, <1>8, <1>9, <1>10, <1>11, <2>2, <2>3, <2>5, <2>6, <2>7
      DEF SendfileInv, SendfileTypeOK
<1>13. CASE ~Started(size, chunk, retry)
  <2>1. /\ \/ sf_ctx' = [NoCtx EXCEPT !.state = "freed"]
           \/ sf_ctx' = c
           \/ sf_ctx' = [c EXCEPT !.cork = TRUE, !.timer = "closed"]
        /\ UNCHANGED sf_req
    BY <1>3, <1>13 DEF SmallFile, StartFails, HeadersFail, SubmitFails, c
  <2>2. /\ sf_ctx' \in CtxType /\ sf_ctx'.state # "none" /\ ~sf_ctx'.completed
        /\ sf_ctx'.timer \notin {"armed", "closing"}
    <3>1. CASE sf_ctx' = [NoCtx EXCEPT !.state = "freed"] BY <3>1, NoCtxIs
    <3>2. CASE sf_ctx' = c BY <1>6, <3>2
    <3>3. CASE sf_ctx' = [c EXCEPT !.cork = TRUE, !.timer = "closed"]
      BY <1>6, <3>3 DEF CtxType
    <3> QED BY <2>1, <3>1, <3>2, <3>3
  <2>3. sf_req' \in ReqType /\ sf_req'.state = "idle" BY <1>4, <2>1
  <2>4. SentSoFar' BY <2>3 DEF SentSoFar
  <2>5. ReleaseOK' BY <1>8, <2>2, <2>3 DEF ReleaseOK, ReleasedAtMostOnce
  <2>6. NotYet' BY <2>2 DEF NotYet
  <2> QED BY <1>5, <1>7, <1>8, <1>9, <1>10, <1>11, <2>2, <2>3, <2>4, <2>5, <2>6
      DEF SendfileInv, SendfileTypeOK
<1> QED BY <1>12, <1>13

\* A chunk is sent, wholly or in part, or fails.
LEMMA PoolKeeps == SendfileInv /\ PoolSendfile => SendfileInv'
<1> SUFFICES ASSUME SendfileInv, PoolSendfile PROVE SendfileInv' OBVIOUS
<1> DEFINE a == sf_ctx.offset
           u == UnitsIn(sf_wire, Len(sf_wire))
           l == Len(sf_stray)
<1>1. /\ sf_req.state = "queued" /\ sf_ctx.state # "none"
      /\ UNCHANGED <<sf_ctx, sf_close, sf_conn, sf_headers, sf_len>>
  BY DEF PoolSendfile, SendfileInv, NotYet
<1>2. /\ a \in Nat /\ sf_ctx.chunk \in Nat /\ sf_ctx.size \in Nat /\ sf_wire \in Seq(Int)
      /\ sf_stray \in Seq(Int) /\ InOrder(sf_wire)
      /\ \A i \in DOMAIN sf_stray : sf_stray[i] = u + i - 1
  BY DEF SendfileInv, SendfileTypeOK, CtxType, BodyInOrder, InOrder
<1>3. u \in Nat /\ l \in Nat /\ u + l = a
  <2>1. Len(sf_wire) \in Nat /\ l \in Nat BY <1>2, LenProperties
  <2>2. u \in Nat BY <2>1, UnitsFinite
  <2> QED BY <1>1, <2>1, <2>2 DEF SendfileInv, SentSoFar
<1>4. ReleaseOK /\ OwnFirst /\ SendfileTypeOK BY DEF SendfileInv
<1>5. ASSUME NEW r \in Int, sf_req' = [state |-> "done", result |-> r],
             sf_wire' \in Seq(Int), sf_stray' \in Seq(Int), BodyInOrder', OwnFirst', SentSoFar'
      PROVE  SendfileInv'
  <2>1. sf_req' \in ReqType /\ sf_req'.state = "done" BY <1>5 DEF ReqType
  <2>2. NotYet' BY <1>1 DEF NotYet
  <2>3. ReleaseOK' BY <1>1, <1>4, <2>1 DEF ReleaseOK, ReleasedAtMostOnce
  <2> QED BY <1>1, <1>4, <1>5, <2>1, <2>2, <2>3 DEF SendfileInv, SendfileTypeOK
<1>6. CASE /\ \E r \in {EAGAIN, EOTHER} : sf_req' = [state |-> "done", result |-> r]
           /\ UNCHANGED <<sf_wire, sf_stray>>
  <2>1. PICK r \in {EAGAIN, EOTHER} : sf_req' = [state |-> "done", result |-> r] BY <1>6
  <2>2. r \in Int /\ ~(r >= 0) BY DEF EAGAIN, EOTHER
  <2>3. sf_req'.state = "done" /\ sf_req'.result = r BY <2>1
  <2>4. SentSoFar'
    <3>1. a + 0 = a BY <1>2
    <3> QED BY <1>1, <1>3, <1>6, <2>2, <2>3, <3>1 DEF SentSoFar
  <2>5. BodyInOrder' /\ OwnFirst' BY <1>1, <1>6 DEF SendfileInv, BodyInOrder, OwnFirst
  <2> QED BY <1>2, <1>5, <1>6, <2>1, <2>2, <2>4, <2>5
<1>7. ASSUME NEW n \in Nat, sf_req' = [state |-> "done", result |-> n],
             sf_conn.fd = "own", sf_wire' = sf_wire \o Units(a, a + n), UNCHANGED sf_stray
      PROVE  SendfileInv'
  <2>1. sf_stray = <<>> /\ l = 0 /\ u = a BY <1>3, <1>4, <1>7 DEF OwnFirst
  <2>2. /\ sf_wire' \in Seq(Int) /\ InOrder(sf_wire')
        /\ Len(sf_wire') = Len(sf_wire) + n
        /\ UnitsIn(sf_wire', Len(sf_wire) + n) = a + n
    <3> HIDE DEF a, l
    <3>1. a = UnitsIn(sf_wire, Len(sf_wire)) BY <2>1
    <3>2. /\ sf_wire \o Units(a, a + n) \in Seq(Int) /\ InOrder(sf_wire \o Units(a, a + n))
          /\ Len(sf_wire \o Units(a, a + n)) = Len(sf_wire) + n
          /\ UnitsIn(sf_wire \o Units(a, a + n), Len(sf_wire) + n) = a + n
      <4>1. sf_wire \in Seq(Int) /\ InOrder(sf_wire) /\ n \in Nat BY <1>2, <1>7
      <4> QED BY <3>1, <4>1, UnitsBehind, Zenon
    <3> QED BY <1>7, <3>2, Zenon
  <2>3. BodyInOrder'
    <3>1. DOMAIN sf_stray' = {} BY <1>7, <2>1
    <3> QED BY <2>2, <3>1 DEF BodyInOrder, InOrder
  <2>4. sf_req'.state = "done" /\ sf_req'.result = n /\ n >= 0 BY <1>7
  <2>5. SentSoFar'
    <3>1. UnitsIn(sf_wire', Len(sf_wire')) = a + n BY <2>2
    <3>2. Len(sf_stray') = 0 /\ (a + n) + 0 = a + n BY <1>2, <1>7, <2>1
    <3> QED BY <1>1, <2>4, <3>1, <3>2 DEF SentSoFar
  <2>6. OwnFirst' BY <1>1, <1>7 DEF SendfileInv, OwnFirst
  <2> QED BY <1>2, <1>5, <1>7, <2>2, <2>3, <2>5, <2>6
<1>8. ASSUME NEW n \in Nat, sf_req' = [state |-> "done", result |-> n],
             sf_conn.fd # "own", sf_stray' = sf_stray \o Units(a, a + n), UNCHANGED sf_wire
      PROVE  SendfileInv'
  <2> DEFINE v == Units(a, a + n)
  <2>1. v \in Seq(Int) /\ Len(v) = n /\ \A j \in 1 .. n : v[j] = a + j - 1
    <3>1. v = [j \in 1 .. n |-> a + j - 1] BY <1>2 DEF Units
    <3> QED BY <1>2, <3>1
  <2> HIDE DEF v
  <2>2. sf_stray' \in Seq(Int) /\ Len(sf_stray') = l + n
    <3>1. sf_stray \o v \in Seq(Int) /\ Len(sf_stray \o v) = Len(sf_stray) + Len(v)
      BY <1>2, <2>1, ConcatProperties
    <3> QED BY <1>8, <2>1, <3>1, Zenon DEF v
  <2>3. \A i \in 1 .. l + n : sf_stray'[i] = IF i <= l THEN sf_stray[i] ELSE v[i - l]
    <3>1. \A i \in 1 .. Len(sf_stray) + Len(v) :
            (sf_stray \o v)[i] = IF i <= Len(sf_stray) THEN sf_stray[i] ELSE v[i - Len(sf_stray)]
      BY <1>2, <2>1, ConcatProperties
    <3>2. sf_stray' = sf_stray \o v BY <1>8 DEF v
    <3> QED BY <2>1, <3>1, <3>2, Zenon
  <2>4. DOMAIN sf_stray' = 1 .. l + n /\ DOMAIN sf_stray = 1 .. l BY <1>2, <2>2, LenProperties
  <2> HIDE DEF a, u, l
  <2>5. \A i \in 1 .. l + n : sf_stray'[i] = u + i - 1
    <3> SUFFICES ASSUME NEW i \in 1 .. l + n PROVE sf_stray'[i] = u + i - 1 OBVIOUS
    <3>1. CASE i <= l
      <4>1. i \in DOMAIN sf_stray BY <1>3, <2>4, <3>1
      <4> QED BY <1>2, <2>3, <3>1, <4>1
    <3>2. CASE ~(i <= l)
      <4>1. i - l \in 1 .. n BY <1>3, <3>2
      <4>2. sf_stray'[i] = a + (i - l) - 1 BY <2>1, <2>3, <3>2, <4>1
      <4> QED BY <1>3, <4>2
    <3> QED BY <3>1, <3>2
  <2>6. BodyInOrder' BY <1>2, <1>8, <2>4, <2>5 DEF BodyInOrder, InOrder, u
  <2>7. sf_req'.state = "done" /\ sf_req'.result = n /\ n >= 0 BY <1>8
  <2>8. u + (l + n) = a + n BY <1>3
  <2>9. SentSoFar' BY <1>1, <1>8, <2>2, <2>7, <2>8 DEF SentSoFar, u, a
  <2>10. OwnFirst' BY <1>1, <1>4, <1>8 DEF OwnFirst
  <2> QED BY <1>2, <1>5, <1>8, <2>2, <2>6, <2>9, <2>10
<1>9. CASE \E n \in 0 .. Least(sf_ctx.chunk, sf_ctx.size - sf_ctx.offset) :
             /\ sf_req' = [state |-> "done", result |-> n]
             /\ IF sf_conn.fd = "own"
                THEN sf_wire' = sf_wire \o Units(a, a + n) /\ UNCHANGED sf_stray
                ELSE sf_stray' = sf_stray \o Units(a, a + n) /\ UNCHANGED sf_wire
  <2>1. PICK n \in 0 .. Least(sf_ctx.chunk, sf_ctx.size - sf_ctx.offset) :
             /\ sf_req' = [state |-> "done", result |-> n]
             /\ IF sf_conn.fd = "own"
                THEN sf_wire' = sf_wire \o Units(a, a + n) /\ UNCHANGED sf_stray
                ELSE sf_stray' = sf_stray \o Units(a, a + n) /\ UNCHANGED sf_wire
    BY <1>9
  <2>2. Least(sf_ctx.chunk, sf_ctx.size - sf_ctx.offset) \in Int BY <1>2 DEF Least
  <2>3. n \in Nat BY <2>2
  <2> QED BY <1>7, <1>8, <2>1, <2>3
<1> QED BY <1>6, <1>9, Zenon DEF PoolSendfile

\* A completion: the next chunk begins where this one ended, or the file is closed.
LEMMA CompleteKeeps == SendfileInv /\ OnSendfileComplete => SendfileInv'
<1> SUFFICES ASSUME SendfileInv, OnSendfileComplete PROVE SendfileInv' OBVIOUS
<1> DEFINE c == [sf_ctx EXCEPT !.timer = StopTimer(@)]
           sent == sf_ctx.offset + sf_req.result
<1>1. /\ sf_req.state = "done" /\ sf_ctx.state # "none"
      /\ UNCHANGED <<sf_conn, sf_headers, sf_wire, sf_stray, sf_len>>
  BY DEF OnSendfileComplete, SendfileInv, NotYet
<1>2. sf_ctx \in CtxType /\ sf_req.result \in Int /\ ReleaseOK /\ SendfileTypeOK
  BY DEF SendfileInv, SendfileTypeOK, ReqType
<1>3. /\ c \in CtxType /\ c.state = sf_ctx.state /\ c.offset = sf_ctx.offset
      /\ c.completed = sf_ctx.completed /\ c.timed_out = sf_ctx.timed_out
      /\ c.timer # "armed" /\ (c.timer = "closing" => sf_ctx.timer = "closing")
      /\ c.retry \in Nat
  BY <1>2 DEF CtxType, StopTimer
<1> HIDE DEF c
<1>4. ASSUME NEW x \in CtxType, sf_ctx' = x, x.state = sf_ctx.state,
             x.timed_out = sf_ctx.timed_out, x.timer = c.timer,
             ~sf_ctx.completed,
             \/ Resend /\ ~x.completed
                /\ x.offset = sf_ctx.offset + IF sf_req.result >= 0 THEN sf_req.result ELSE 0
             \/ GiveUp
      PROVE  SendfileInv'
  <2>1. sf_close.calls = 0 BY <1>1, <1>2, <1>4 DEF ReleaseOK
  <2>2. sf_req' \in ReqType /\ sf_req'.state \in {"idle", "queued"}
    BY <1>4 DEF Resend, GiveUp, ReqType
  <2>3. /\ sf_close' \in [state : {"none", "queued", "done"}, calls : Nat]
        /\ sf_close'.calls \in {0, 1}
        /\ sf_close'.state # "none" => sf_close'.calls = 1
        /\ sf_close'.calls = 1 => sf_req'.state = "idle"
    BY <1>2, <1>4, <2>1 DEF Resend, GiveUp, FsClose, SendfileTypeOK, ReleaseOK
  <2>4. x.completed => sf_req'.state = "idle" BY <1>4 DEF GiveUp
  <2>5. sf_ctx.state = "freed" => sf_ctx.timed_out BY <1>1, <1>2 DEF ReleaseOK, ReleasedAtMostOnce
  <2>6. ReleaseOK' BY <1>2, <1>3, <1>4, <2>3, <2>4, <2>5 DEF ReleaseOK, ReleasedAtMostOnce
  <2>7. SentSoFar'
    <3>1. CASE sf_req'.state = "queued"
      <4>1. x.offset = sf_ctx.offset + IF sf_req.result >= 0 THEN sf_req.result ELSE 0
        BY <1>4, <3>1 DEF GiveUp
      <4> QED BY <1>1, <1>4, <3>1, <4>1 DEF SendfileInv, SentSoFar
    <3>2. CASE sf_req'.state = "idle" BY <3>2 DEF SentSoFar
    <3> QED BY <2>2, <3>1, <3>2
  <2>8. NotYet' /\ OwnFirst' /\ BodyInOrder'
    BY <1>1, <1>4 DEF SendfileInv, NotYet, OwnFirst, BodyInOrder
  <2> QED BY <1>1, <1>2, <1>4, <2>2, <2>3, <2>6, <2>7, <2>8 DEF SendfileInv, SendfileTypeOK
<1>5. CASE /\ sf_ctx.completed /\ sf_req' = [state |-> "idle", result |-> 0]
           /\ UNCHANGED <<sf_ctx, sf_close>>
  <2>1. sf_req' \in ReqType /\ sf_req'.state = "idle" BY <1>5 DEF ReqType
  <2>2. ReleaseOK' BY <1>1, <1>2, <1>5, <2>1 DEF ReleaseOK, ReleasedAtMostOnce
  <2>3. SentSoFar' BY <2>1 DEF SentSoFar
  <2>4. NotYet' /\ OwnFirst' /\ BodyInOrder'
    BY <1>1, <1>5 DEF SendfileInv, NotYet, OwnFirst, BodyInOrder
  <2> QED BY <1>1, <1>2, <1>5, <2>1, <2>2, <2>3, <2>4 DEF SendfileInv, SendfileTypeOK
<1>6. CASE ~sf_ctx.completed /\ sf_req.result = EAGAIN /\ sf_ctx' = Retried(c) /\ Continue
  <2>1. /\ sf_ctx' \in CtxType /\ sf_ctx'.state = c.state /\ sf_ctx'.offset = c.offset
        /\ sf_ctx'.completed = c.completed /\ sf_ctx'.timed_out = c.timed_out
        /\ sf_ctx'.timer = c.timer
    BY <1>3, <1>6 DEF Retried, CtxType
  <2>2. sf_ctx.offset = sf_ctx.offset + 0 /\ ~(sf_req.result >= 0)
    BY <1>2, <1>6 DEF CtxType, EAGAIN
  <2> QED BY <1>3, <1>4, <1>6, <2>1, <2>2 DEF Continue
<1>7. CASE ~sf_ctx.completed /\ sf_ctx' = c /\ GiveUp BY <1>3, <1>4, <1>7
<1>8. CASE /\ ~sf_ctx.completed /\ sf_req.result >= 0 /\ GiveUp
           /\ sf_ctx' = [c EXCEPT !.offset = sent, !.completed = TRUE, !.cork = FALSE]
  <2>1. sent \in Nat BY <1>2, <1>8 DEF CtxType
  <2> HIDE DEF sent
  <2>2. /\ sf_ctx' \in CtxType /\ sf_ctx'.state = c.state /\ sf_ctx'.timed_out = c.timed_out
        /\ sf_ctx'.timer = c.timer
    BY <1>3, <1>8, <2>1 DEF CtxType
  <2> QED BY <1>3, <1>4, <1>8, <2>2
<1>9. CASE /\ ~sf_ctx.completed /\ sf_req.result >= 0 /\ Continue
           /\ sf_ctx' = [c EXCEPT !.offset = sent]
  <2>1. sent \in Nat /\ sent = sf_ctx.offset + IF sf_req.result >= 0 THEN sf_req.result ELSE 0
    BY <1>2, <1>9 DEF CtxType
  <2> HIDE DEF sent
  <2>2. /\ sf_ctx' \in CtxType /\ sf_ctx'.state = c.state /\ sf_ctx'.timed_out = c.timed_out
        /\ sf_ctx'.timer = c.timer /\ sf_ctx'.offset = sent /\ sf_ctx'.completed = c.completed
    BY <1>3, <1>9, <2>1 DEF CtxType
  <2> QED BY <1>3, <1>4, <1>9, <2>1, <2>2 DEF Continue
<1> QED BY <1>5, <1>6, <1>7, <1>8, <1>9, Zenon DEF OnSendfileComplete, Advanced, c, sent

\* The timer and the close of the file.
LEMMA TimerKeeps ==
  ASSUME SendfileInv, OnSendfileTimeout \/ TimerClosed \/ PoolClose \/ OnFileClose
  PROVE  SendfileInv'
<1>1. /\ sf_ctx \in CtxType /\ ReleaseOK /\ SendfileTypeOK /\ NotYet
      /\ sf_close \in [state : {"none", "queued", "done"}, calls : Nat]
  BY DEF SendfileInv, SendfileTypeOK
<1>2. UNCHANGED <<sf_req, sf_conn, sf_headers, sf_wire, sf_stray, sf_len>>
  BY DEF OnSendfileTimeout, TimerClosed, PoolClose, OnFileClose
<1>3. SUFFICES /\ sf_ctx' \in CtxType /\ sf_ctx'.offset = sf_ctx.offset /\ sf_ctx'.state # "none"
               /\ sf_close' \in [state : {"none", "queued", "done"}, calls : Nat]
               /\ ReleaseOK'
  <2>1. NotYet' BY <1>3 DEF NotYet
  <2>2. SentSoFar' /\ OwnFirst' /\ BodyInOrder'
    BY <1>2, <1>3 DEF SendfileInv, SentSoFar, OwnFirst, BodyInOrder
  <2> QED BY <1>2, <1>3, <2>1, <2>2 DEF SendfileInv, SendfileTypeOK
<1>4. CASE OnSendfileTimeout
  <2>1. /\ sf_ctx.timer = "armed" /\ sf_ctx.state = "live" /\ ~sf_ctx.completed
        /\ sf_ctx' = [sf_ctx EXCEPT !.completed = TRUE, !.timer = "closing", !.timed_out = TRUE]
        /\ FsClose
    BY <1>4 DEF OnSendfileTimeout
  <2>2. /\ sf_ctx' \in CtxType /\ sf_ctx'.state = "live" /\ sf_ctx'.offset = sf_ctx.offset
        /\ sf_ctx'.completed /\ sf_ctx'.timed_out /\ sf_ctx'.timer = "closing"
    BY <1>1, <2>1 DEF CtxType
  <2>3. sf_close.calls = 0 BY <1>1, <2>1 DEF ReleaseOK
  <2>4. sf_close' = [state |-> "queued", calls |-> 1] BY <2>1, <2>3 DEF FsClose
  <2> QED BY <1>2, <2>2, <2>4 DEF ReleaseOK, ReleasedAtMostOnce
<1>5. CASE TimerClosed
  <2>1. /\ sf_ctx.timer = "closing" /\ sf_ctx' = [sf_ctx EXCEPT !.timer = "closed"]
        /\ UNCHANGED sf_close
    BY <1>5 DEF TimerClosed
  <2>2. /\ sf_ctx' \in CtxType /\ sf_ctx'.state = sf_ctx.state /\ sf_ctx'.offset = sf_ctx.offset
        /\ sf_ctx'.completed = sf_ctx.completed /\ sf_ctx'.timed_out = sf_ctx.timed_out
        /\ sf_ctx'.timer = "closed"
    BY <1>1, <2>1 DEF CtxType
  <2>3. sf_ctx.state # "none" BY <1>1, <2>1 DEF ReleaseOK, NotYet
  <2> QED BY <1>1, <1>2, <2>1, <2>2, <2>3 DEF ReleaseOK, ReleasedAtMostOnce
<1>6. CASE PoolClose \/ OnFileClose
  <2>1. sf_close.calls = 1 /\ sf_ctx.state # "none"
    BY <1>1, <1>6 DEF ReleaseOK, NotYet, PoolClose, OnFileClose
  <2>2. /\ sf_close' \in [state : {"none", "queued", "done"}, calls : Nat]
        /\ sf_close'.calls = 1
    BY <1>1, <1>6, <2>1 DEF PoolClose, OnFileClose
  <2>3. /\ sf_ctx' \in CtxType /\ sf_ctx'.state # "none" /\ sf_ctx'.offset = sf_ctx.offset
        /\ sf_ctx'.completed = sf_ctx.completed /\ sf_ctx'.timed_out = sf_ctx.timed_out
        /\ sf_ctx'.timer = sf_ctx.timer
    BY <1>1, <1>6, <2>1 DEF PoolClose, OnFileClose, CtxType
  <2> QED BY <1>1, <1>2, <2>1, <2>2, <2>3 DEF ReleaseOK, ReleasedAtMostOnce
<1> QED BY <1>4, <1>5, <1>6

\* The connection, the client and the file.
LEMMA SurroundingsKeep ==
  ASSUME SendfileInv,
         HeadersWritten \/ NextAnswer \/ PeerLeaves \/ FdReused \/ ShortenFile
  PROVE  SendfileInv'
<1>1. /\ sf_conn \in ConnSt /\ NotYet /\ OwnFirst /\ SendfileTypeOK
      /\ sf_wire \in Seq(Int) /\ sf_stray \in Seq(Int)
  BY DEF SendfileInv, SendfileTypeOK
<1>2. UNCHANGED <<sf_ctx, sf_req, sf_close, sf_stray>>
  BY DEF HeadersWritten, NextAnswer, PeerLeaves, FdReused, ShortenFile
<1>3. /\ sf_headers' \in {"none", "queued", "written"} /\ sf_len' \in Nat
      /\ sf_ctx.state = "none" => sf_headers' = "none"
  BY <1>1 DEF HeadersWritten, NextAnswer, PeerLeaves, FdReused, ShortenFile,
              SendfileTypeOK, NotYet
<1>4. /\ sf_conn' \in ConnSt
      /\ sf_conn'.state = "open" => sf_conn.state = "open" /\ sf_conn'.fd = sf_conn.fd
      /\ sf_conn.fd # "own" => sf_conn'.fd # "own"
      /\ sf_ctx.state = "none" => ~sf_conn'.reading
  <2>1. CASE HeadersWritten
    <3>1. sf_ctx.state # "none" BY <1>1, <2>1 DEF HeadersWritten, NotYet
    <3> QED BY <1>1, <2>1, <3>1 DEF HeadersWritten, ConnSt
  <2>2. CASE NextAnswer BY <1>1, <2>2 DEF NextAnswer, ConnSt
  <2>3. CASE PeerLeaves BY <1>1, <2>3 DEF PeerLeaves, ConnSt
  <2>4. CASE FdReused BY <1>1, <2>4 DEF FdReused, ConnSt, OwnFirst, NotYet
  <2>5. CASE ShortenFile BY <1>1, <2>5 DEF ShortenFile, NotYet
  <2> QED BY <2>1, <2>2, <2>3, <2>4, <2>5
<1>5. OwnFirst' BY <1>1, <1>2, <1>4 DEF OwnFirst
<1>6. ReleaseOK' BY <1>2 DEF SendfileInv, ReleaseOK, ReleasedAtMostOnce
<1>7. CASE UNCHANGED sf_wire
  <2>1. BodyInOrder' /\ SentSoFar' /\ NotYet'
    BY <1>1, <1>2, <1>3, <1>4, <1>7 DEF SendfileInv, BodyInOrder, SentSoFar, NotYet
  <2> QED BY <1>1, <1>2, <1>3, <1>4, <1>5, <1>6, <1>7, <2>1 DEF SendfileInv, SendfileTypeOK
<1>8. CASE NextAnswer
  <2>1. sf_stray = <<>> /\ sf_ctx.state # "none" BY <1>1, <1>8 DEF NextAnswer, OwnFirst, NotYet
  <2>2. sf_wire' = Append(sf_wire, NEXT) /\ NEXT \in Int /\ NEXT < 0 BY <1>8 DEF NextAnswer, NEXT
  <2>3. /\ sf_wire' \in Seq(Int) /\ Len(sf_wire') = Len(sf_wire) + 1
        /\ sf_wire'[Len(sf_wire) + 1] < 0 /\ \A i \in 1 .. Len(sf_wire) : sf_wire'[i] = sf_wire[i]
    BY <1>1, <2>2, AppendProperties
  <2>4. InOrder(sf_wire) BY DEF SendfileInv, BodyInOrder, InOrder
  <2>5. InOrder(sf_wire') /\ UnitsIn(sf_wire', Len(sf_wire')) = UnitsIn(sf_wire, Len(sf_wire))
    BY <1>1, <2>3, <2>4, MarkBehind
  <2>6. BodyInOrder'
    <3>1. DOMAIN sf_stray' = {} BY <1>2, <2>1
    <3> QED BY <2>5, <3>1 DEF BodyInOrder, InOrder
  <2>7. SentSoFar' BY <1>2, <2>5 DEF SendfileInv, SentSoFar
  <2>8. NotYet' BY <1>2, <2>1 DEF NotYet
  <2> QED BY <1>1, <1>2, <1>3, <1>4, <1>5, <1>6, <2>3, <2>6, <2>7, <2>8
      DEF SendfileInv, SendfileTypeOK
<1> QED BY <1>7, <1>8 DEF HeadersWritten, PeerLeaves, FdReused, ShortenFile

\* The invariant of a transfer is inductive.
LEMMA SendfileInvInit == SendfileInit => SendfileInv
<1> SUFFICES ASSUME SendfileInit PROVE SendfileInv OBVIOUS
<1>1. /\ sf_ctx = NoCtx /\ sf_req = [state |-> "idle", result |-> 0]
      /\ sf_close = [state |-> "none", calls |-> 0]
      /\ sf_conn = [state |-> "open", by |-> "none", fd |-> "own",
                    keepalive |-> TRUE, reading |-> FALSE]
      /\ sf_headers = "none" /\ sf_wire = <<>> /\ sf_stray = <<>> /\ sf_len = 0
  BY DEF SendfileInit
<1>2. /\ sf_ctx \in CtxType /\ sf_ctx.state = "none" /\ ~sf_ctx.completed
      /\ sf_ctx.timer = "none"
  BY <1>1 DEF NoCtx, CtxType
<1>3. SendfileTypeOK /\ sf_req.state = "idle"
  BY <1>1, <1>2 DEF SendfileTypeOK, ReqType, ConnSt
<1>4. sf_wire \in Seq(Int) /\ sf_stray \in Seq(Int) /\ BodyInOrder
  BY <1>1 DEF BodyInOrder
<1>5. NotYet /\ OwnFirst /\ SentSoFar BY <1>1, <1>2, <1>3 DEF NotYet, OwnFirst, SentSoFar
<1>6. ReleaseOK BY <1>1, <1>2 DEF ReleaseOK, ReleasedAtMostOnce
<1> QED BY <1>3, <1>4, <1>5, <1>6 DEF SendfileInv

\* The invariant of a transfer holds at all times.
LEMMA SendfileInvariance == SendfileSpec => []SendfileInv
<1>1. SendfileInv /\ [SendfileNext]_sendfileVars => SendfileInv'
  <2> SUFFICES ASSUME SendfileInv, [SendfileNext]_sendfileVars PROVE SendfileInv' OBVIOUS
  <2>1. CASE UNCHANGED sendfileVars
    BY <2>1 DEF sendfileVars, SendfileInv, SendfileTypeOK, NotYet, OwnFirst, BodyInOrder,
                SentSoFar, ReleaseOK, ReleasedAtMostOnce
  <2> QED BY <2>1, StartKeeps, PoolKeeps, CompleteKeeps, TimerKeeps, SurroundingsKeep
      DEF SendfileNext, SendfileLoop
<1> QED BY <1>1, SendfileInvInit, PTL DEF SendfileSpec

\* However the pool, the partial sends, the retries, the timer and the completions
\* of uvhttp_static_sendfile are interleaved, the units of the file go out in their
\* order, each once, none skipped.
THEOREM BodyArrivesInOrder == SendfileSpec => []BodyInOrder
<1>1. SendfileInv => BodyInOrder BY DEF SendfileInv
<1> QED BY <1>1, SendfileInvariance, PTL

\* The file of a transfer is closed, and its context freed, at most once, whichever
\* of the completion, the timeout and the failures gets there first.
THEOREM FileClosedOnce == SendfileSpec => []ReleasedAtMostOnce
<1>1. SendfileInv => ReleasedAtMostOnce BY DEF SendfileInv, ReleaseOK
<1> QED BY <1>1, SendfileInvariance, PTL

-----------------------------------------------------------------------------
(* The gzip cache.                                                         *)

\* What a slot in use holds: the key stands for a body, the length is that of its
\* compressed form.
GzEntry == [key : Bodies, len : Nat, age : Nat]

GzType == [slots : Seq(GzEntry \cup {GzNoEntry}), older : SUBSET (Nat \X Nat),
           max_entries : Nat \ {0}, max_memory : Nat \ {0}, total : Int, ttl : Nat]

\* A cache whose bookkeeping is exact, within its limits or not ...
GzShape(c) ==
  /\ c \in GzType
  /\ \A i \in GzValid(c) : /\ c.slots[i] \in GzEntry /\ c.slots[i].key # NoBody
                           /\ c.slots[i].len = CompressedLength[c.slots[i].key]
  /\ c.total = GzMemory(c, GzValid(c))
  /\ \A i, j \in GzValid(c) : c.slots[i].key = c.slots[j].key => i = j
  /\ GzOrders(c.older, GzValid(c))

\* ... and within them.
GzWithin(c) == GzCount(c) <= c.max_entries /\ c.total <= c.max_memory + GzOverhead

\* An order of fewer slots.
LEMMA OrderWithout ==
  ASSUME NEW R, NEW V, NEW S, GzOrders(R, V)
  PROVE  GzOrders({p \in R : p[1] \notin S /\ p[2] \notin S}, V \ S)
BY DEF GzOrders

\* The order when slot i was used last, whether it was in use before or not.
LEMMA OrderTouched ==
  ASSUME NEW R, NEW V, NEW W, NEW i \in W, V \subseteq W, W \subseteq V \cup {i}, GzOrders(R, V)
  PROVE  GzOrders({p \in R : p[1] # i} \cup {<<j, i>> : j \in W \ {i}}, W)
<1> DEFINE Q == {p \in R : p[1] # i} \cup {<<j, i>> : j \in W \ {i}}
<1>1. Q \subseteq W \X W BY DEF GzOrders
<1>2. \A a, b \in W : <<a, b>> \in Q <=> a # i /\ (b = i \/ <<a, b>> \in R)
  BY DEF GzOrders
<1> HIDE DEF Q
<1>3. \A a \in W : <<a, a>> \notin Q BY <1>2 DEF GzOrders
<1>4. \A a, b \in W : a # b => (<<a, b>> \in Q <=> <<b, a>> \notin Q) BY <1>2 DEF GzOrders
<1>5. \A a, b, d \in W : <<a, b>> \in Q /\ <<b, d>> \in Q => <<a, d>> \in Q
  BY <1>2 DEF GzOrders
<1>6. GzOrders(Q, W) BY <1>1, <1>3, <1>4, <1>5 DEF GzOrders
<1> QED BY <1>6 DEF Q

\* The slots in use are finitely many, and each takes memory.
LEMMA ShapeFacts ==
  ASSUME NEW c, GzShape(c)
  PROVE  /\ IsFiniteSet(GzValid(c)) /\ GzCount(c) \in Nat
         /\ GzValid(c) \subseteq DOMAIN c.slots /\ DOMAIN c.slots = 1 .. Len(c.slots)
         /\ Len(c.slots) \in Nat /\ GzOverhead \in Nat
         /\ \A i \in GzValid(c) : c.slots[i].len + GzOverhead \in Nat
         /\ c.total \in Nat
<1>1. c.slots \in Seq(GzEntry \cup {GzNoEntry}) BY DEF GzShape, GzType
<1>2. DOMAIN c.slots = 1 .. Len(c.slots) /\ Len(c.slots) \in Nat BY <1>1, LenProperties
<1>3. GzValid(c) \subseteq DOMAIN c.slots BY DEF GzValid
<1>4. IsFiniteSet(DOMAIN c.slots) BY <1>2, FS_Interval
<1>5. IsFiniteSet(GzValid(c)) BY <1>3, <1>4, FS_Subset
<1>6. GzCount(c) \in Nat BY <1>5, FS_CardinalityType DEF GzCount
<1>7. GzOverhead \in Nat BY GzipAssumption
<1>8. \A i \in GzValid(c) : c.slots[i].len + GzOverhead \in Nat
  BY <1>7 DEF GzShape, GzEntry
<1>9. c.total \in Nat
  <2> DEFINE f == [i \in GzValid(c) |-> c.slots[i].len + GzOverhead]
  <2>1. \A i \in GzValid(c) : f[i] \in Nat BY <1>8
  <2>2. c.total = SumFunctionOnSet(f, GzValid(c)) BY DEF GzShape, GzMemory
  <2> HIDE DEF f
  <2> QED BY <1>5, <2>1, <2>2, SumNat
<1> QED BY <1>2, <1>3, <1>5, <1>6, <1>7, <1>8, <1>9

\* Slots are freed: the others stay as they are, and the total still counts them.
LEMMA FreeKeeps ==
  ASSUME NEW c, GzShape(c), NEW S \in SUBSET GzValid(c)
  PROVE  /\ GzShape(GzFree(c, S))
         /\ GzValid(GzFree(c, S)) = GzValid(c) \ S
         /\ DOMAIN GzFree(c, S).slots = DOMAIN c.slots
         /\ \A i \in DOMAIN c.slots :
              GzFree(c, S).slots[i] = IF i \in S THEN GzNoEntry ELSE c.slots[i]
         /\ GzFree(c, S).max_entries = c.max_entries /\ GzFree(c, S).max_memory = c.max_memory
         /\ GzFree(c, S).total <= c.total /\ GzCount(GzFree(c, S)) <= GzCount(c)
<1> DEFINE d == GzFree(c, S)
           V == GzValid(c)
           f == [i \in V |-> c.slots[i].len + GzOverhead]
<1>1. /\ IsFiniteSet(V) /\ V \subseteq DOMAIN c.slots /\ DOMAIN c.slots = 1 .. Len(c.slots)
      /\ Len(c.slots) \in Nat /\ \A i \in V : c.slots[i].len + GzOverhead \in Nat
      /\ c.total \in Nat
  BY ShapeFacts
<1>2. /\ d.slots = [i \in DOMAIN c.slots |-> IF i \in S THEN GzNoEntry ELSE c.slots[i]]
      /\ d.total = c.total - GzMemory(c, S)
      /\ d.older = {p \in c.older : p[1] \notin S /\ p[2] \notin S}
      /\ d.max_entries = c.max_entries /\ d.max_memory = c.max_memory /\ d.ttl = c.ttl
  BY DEF GzFree, GzShape, GzType
<1>3. c \in GzType BY DEF GzShape
<1>4. d.slots \in Seq(GzEntry \cup {GzNoEntry})
  <2>1. \A i \in 1 .. Len(c.slots) : d.slots[i] \in GzEntry \cup {GzNoEntry}
    BY <1>1, <1>2, <1>3 DEF GzType
  <2>2. d.slots \in [1 .. Len(c.slots) -> GzEntry \cup {GzNoEntry}] BY <1>1, <1>2, <2>1
  <2> QED BY <1>1, <2>2, SeqDef
<1>5. GzValid(d) = V \ S BY <1>2 DEF GzValid
<1>6. \A i \in V \ S : d.slots[i] = c.slots[i] BY <1>1, <1>2
<1>7. IsFiniteSet(S) /\ IsFiniteSet(V \ S) /\ V \ S \subseteq V BY <1>1, FS_Subset
<1>8. /\ GzMemory(c, S) \in Nat
      /\ c.total = GzMemory(c, S) + GzMemory(d, V \ S)
  <2> DEFINE g == [i \in S |-> c.slots[i].len + GzOverhead]
             h == [i \in V \ S |-> d.slots[i].len + GzOverhead]
  <2>1. \A i \in V : f[i] \in Nat BY <1>1
  <2>2. \A i \in S : f[i] = g[i] OBVIOUS
  <2>3. \A i \in V \ S : f[i] = h[i] BY <1>6
  <2>4. /\ GzMemory(c, S) = SumFunctionOnSet(g, S)
        /\ GzMemory(d, V \ S) = SumFunctionOnSet(h, V \ S)
        /\ c.total = SumFunctionOnSet(f, V)
    BY DEF GzMemory, GzShape
  <2> HIDE DEF f, g, h, V, d
  <2>5. SumFunctionOnSet(f, S) = SumFunctionOnSet(g, S) BY <1>7, <2>2, SumSame
  <2>6. SumFunctionOnSet(f, V \ S) = SumFunctionOnSet(h, V \ S) BY <1>7, <2>3, SumSame
  <2>7. S \in SUBSET V BY DEF V
  <2>8. \A i \in V : f[i] \in Int BY <2>1
  <2>9. SumFunctionOnSet(f, V) = SumFunctionOnSet(f, S) + SumFunctionOnSet(f, V \ S)
    BY <1>1, <2>7, <2>8, SumWithout
  <2>10. \A i \in S : f[i] \in Nat BY <2>1, <2>7
  <2>11. SumFunctionOnSet(f, S) \in Nat BY <1>7, <2>10, SumNat
  <2> QED BY <2>4, <2>5, <2>6, <2>9, <2>11
<1>9. d.total = GzMemory(d, GzValid(d)) /\ d.total <= c.total /\ d.total \in Int
  <2>1. GzMemory(d, V \ S) \in Int /\ c.total - GzMemory(c, S) = GzMemory(d, V \ S)
    <3> DEFINE h == [i \in V \ S |-> d.slots[i].len + GzOverhead]
    <3>1. GzMemory(d, V \ S) = SumFunctionOnSet(h, V \ S) BY DEF GzMemory
    <3>2. \A i \in V \ S : h[i] \in Int BY <1>1, <1>6
    <3> HIDE DEF h, d, V
    <3>3. GzMemory(d, V \ S) \in Int BY <1>7, <3>1, <3>2, SumInt
    <3> QED BY <1>8, <3>3
  <2> HIDE DEF d, V
  <2> QED BY <1>1, <1>2, <1>5, <1>8, <2>1
<1>10. GzOrders(d.older, GzValid(d))
  <2>1. GzOrders(c.older, V) BY DEF GzShape
  <2> HIDE DEF d, V
  <2>2. GzOrders({p \in c.older : p[1] \notin S /\ p[2] \notin S}, V \ S) BY <2>1, OrderWithout
  <2> QED BY <1>2, <1>5, <2>2
<1>11. d \in GzType
  <2>1. d.older \in SUBSET (Nat \X Nat) BY <1>2, <1>3 DEF GzType
  <2> QED BY <1>2, <1>3, <1>4, <1>9, <2>1 DEF GzType, GzFree
<1>12. GzShape(d) BY <1>5, <1>6, <1>9, <1>10, <1>11 DEF GzShape
<1>13. GzCount(d) <= GzCount(c) BY <1>1, <1>5, <1>7, FS_Subset DEF GzCount
<1> QED BY <1>2, <1>5, <1>9, <1>12, <1>13

\* Called often enough, gzip_cache_evict_one leaves nothing.
LEMMA EvictAll ==
  ASSUME NEW c, GzShape(c)
  PROVE  GzOldest(c, GzCount(c)) = GzValid(c)
<1> DEFINE V == GzValid(c)
<1>1. IsFiniteSet(V) BY ShapeFacts
<1>2. ASSUME NEW i \in V PROVE Cardinality({j \in V : <<j, i>> \in c.older}) < Cardinality(V)
  <2> DEFINE P == {j \in V : <<j, i>> \in c.older}
  <2>1. P \in SUBSET V /\ i \notin P BY <1>2 DEF GzShape, GzOrders
  <2> HIDE DEF P, V
  <2>2. /\ IsFiniteSet(P) /\ Cardinality(P) <= Cardinality(V)
        /\ Cardinality(V) = Cardinality(P) => V = P
    BY <1>1, <2>1, FS_Subset
  <2>3. Cardinality(P) # Cardinality(V) BY <1>2, <2>1, <2>2
  <2>4. Cardinality(P) \in Nat /\ Cardinality(V) \in Nat BY <1>1, <2>2, FS_CardinalityType
  <2>5. Cardinality(P) < Cardinality(V) BY <2>2, <2>3, <2>4
  <2> QED BY <2>5 DEF P
<1> QED BY <1>2 DEF GzOldest, GzCount

\* The eviction loops reach what they loop for, or the empty cache.
LEMMA EvictDownTo ==
  ASSUME NEW c, GzShape(c), NEW memory \in Int, NEW entries \in Int,
         NEW d, d = GzEvictDownTo(c, memory, entries)
  PROVE  /\ GzShape(d) /\ GzValid(d) \subseteq GzValid(c)
         /\ DOMAIN d.slots = DOMAIN c.slots
         /\ \A i \in GzValid(d) : d.slots[i] = c.slots[i]
         /\ d.max_entries = c.max_entries /\ d.max_memory = c.max_memory
         /\ d.total <= c.total /\ GzCount(d) <= GzCount(c)
         /\ \/ d.total <= memory /\ GzCount(d) <= entries
            \/ d.total = 0 /\ GzCount(d) = 0
<1> DEFINE K == {k \in 0 .. GzCount(c) :
                    \/ k = GzCount(c)
                    \/ GzEvict(c, k).total <= memory /\ GzCount(GzEvict(c, k)) <= entries}
           k == Min(K)
<1>1. GzCount(c) \in Nat BY ShapeFacts
<1>2. GzCount(c) \in K /\ K \in SUBSET Nat BY <1>1
<1>3. k \in K
  <2> HIDE DEF K
  <2> QED BY <1>2, MinIsLeast
<1>4. d = GzFree(c, GzOldest(c, k)) BY DEF GzEvictDownTo, GzEvict
<1>5. \/ k = GzCount(c)
      \/ d.total <= memory /\ GzCount(d) <= entries
  BY <1>3, <1>4 DEF GzEvict
<1> DEFINE S == GzOldest(c, k)
<1>6. S \in SUBSET GzValid(c) BY DEF GzOldest
<1>7. k = GzCount(c) => S = GzValid(c) BY EvictAll
<1> HIDE DEF k, S
<1>8. d = GzFree(c, S) BY <1>4 DEF S
<1>9. /\ GzShape(d) /\ GzValid(d) = GzValid(c) \ S
      /\ DOMAIN d.slots = DOMAIN c.slots
      /\ \A i \in DOMAIN c.slots : d.slots[i] = IF i \in S THEN GzNoEntry ELSE c.slots[i]
      /\ d.max_entries = c.max_entries /\ d.max_memory = c.max_memory
      /\ d.total <= c.total /\ GzCount(d) <= GzCount(c)
  BY <1>6, <1>8, FreeKeeps
<1>10. \A i \in GzValid(d) : d.slots[i] = c.slots[i] BY <1>9 DEF GzValid
<1>11. S = GzValid(c) => d.total = 0 /\ GzCount(d) = 0
  <2> SUFFICES ASSUME S = GzValid(c) PROVE d.total = 0 /\ GzCount(d) = 0 OBVIOUS
  <2>1. GzValid(d) = {} BY <1>9
  <2>2. d.total = 0
    <3> DEFINE f == [i \in GzValid(d) |-> d.slots[i].len + GzOverhead]
    <3>1. d.total = SumFunctionOnSet(f, GzValid(d)) BY <1>9 DEF GzShape, GzMemory
    <3> HIDE DEF f
    <3> QED BY <2>1, <3>1, SumEmpty
  <2>3. GzCount(d) = 0 BY <2>1, FS_EmptySet DEF GzCount
  <2> QED BY <2>2, <2>3
<1> QED BY <1>5, <1>7, <1>9, <1>10, <1>11

\* A slot in use is used again.
LEMMA TouchKeeps ==
  ASSUME NEW c, GzShape(c), NEW i \in GzValid(c)
  PROVE  /\ GzShape(GzTouch(c, i)) /\ GzValid(GzTouch(c, i)) = GzValid(c)
         /\ GzTouch(c, i).slots = c.slots /\ GzTouch(c, i).total = c.total
         /\ GzTouch(c, i).max_entries = c.max_entries
         /\ GzTouch(c, i).max_memory = c.max_memory
<1> DEFINE d == GzTouch(c, i)
           V == GzValid(c)
<1>1. c \in GzType BY DEF GzShape
<1>2. /\ d.slots = c.slots /\ d.total = c.total /\ d.max_entries = c.max_entries
      /\ d.max_memory = c.max_memory /\ d.ttl = c.ttl
      /\ d.older = {p \in c.older : p[1] # i} \cup {<<j, i>> : j \in V \ {i}}
  BY <1>1 DEF GzTouch, GzType
<1>3. GzValid(d) = V BY <1>2 DEF GzValid
<1>4. GzOrders(d.older, V)
  <2>1. GzOrders(c.older, V) BY DEF GzShape
  <2>2. V \subseteq V /\ V \subseteq V \cup {i} /\ i \in V OBVIOUS
  <2> HIDE DEF d, V
  <2> QED BY <1>2, <2>1, <2>2, OrderTouched
<1>5. V \subseteq Nat BY ShapeFacts
<1>6. d \in GzType
  <2>1. d.older \in SUBSET (Nat \X Nat) BY <1>4, <1>5 DEF GzOrders
  <2> QED BY <1>1, <1>2, <2>1 DEF GzType, GzTouch
<1>7. GzMemory(d, V) = GzMemory(c, V) BY <1>2 DEF GzMemory
<1>8. GzShape(d) BY <1>2, <1>3, <1>4, <1>6, <1>7 DEF GzShape
<1> QED BY <1>2, <1>3, <1>8

\* uvhttp_gzip_cache_find: a hit is the body that was asked for.
LEMMA FindKeeps ==
  ASSUME NEW c, GzShape(c), GzWithin(c), NEW key, key # NoBody
  PROVE  /\ GzShape(GzFind(c, key).cache) /\ GzWithin(GzFind(c, key).cache)
         /\ GzFind(c, key).slot # 0 => c.slots[GzFind(c, key).slot].key = key
<1> DEFINE hits == GzHolding(c, key)
           upto == IF hits = {} THEN Len(c.slots) ELSE Min(hits)
           S == {i \in 1 .. upto : GzExpired(c, i)}
           swept == GzFree(c, S)
           f == GzFind(c, key)
<1>1. /\ DOMAIN c.slots = 1 .. Len(c.slots) /\ Len(c.slots) \in Nat
      /\ c.total \in Nat /\ GzCount(c) \in Nat /\ GzOverhead \in Nat
  BY ShapeFacts
<1>2. hits \in SUBSET Nat /\ hits \subseteq DOMAIN c.slots BY <1>1 DEF GzHolding
<1>3. hits # {} => Min(hits) \in hits
  <2> HIDE DEF hits
  <2> QED BY <1>2, MinIsLeast
<1>4. upto \in 0 .. Len(c.slots) BY <1>1, <1>2, <1>3
<1>5. S \in SUBSET GzValid(c) BY <1>1, <1>4 DEF GzExpired, GzValid
<1>6. /\ f.cache = (IF hits = {} THEN swept ELSE GzTouch(swept, upto))
      /\ f.slot = IF hits = {} THEN 0 ELSE upto
  BY DEF GzFind
<1>7. hits # {} => upto \in GzValid(c) /\ upto \notin S /\ c.slots[upto].key = key
  <2>1. GzNoEntry.key = NoBody BY DEF GzNoEntry, NoBody
  <2> QED BY <1>1, <1>2, <1>3, <2>1 DEF GzHolding, GzValid
<1> HIDE DEF S, hits, upto
<1>8. /\ GzShape(swept) /\ GzValid(swept) = GzValid(c) \ S
      /\ swept.max_entries = c.max_entries /\ swept.max_memory = c.max_memory
      /\ swept.total <= c.total /\ GzCount(swept) <= GzCount(c)
  BY <1>5, FreeKeeps
<1>9. swept.total \in Nat /\ GzCount(swept) \in Nat BY <1>8, ShapeFacts
<1> HIDE DEF swept
<1>10. GzWithin(swept)
  <2>1. c.max_entries \in Nat /\ c.max_memory \in Nat BY DEF GzShape, GzType
  <2> QED BY <1>1, <1>8, <1>9, <2>1 DEF GzWithin
<1>11. hits # {} => GzShape(GzTouch(swept, upto)) /\ GzWithin(GzTouch(swept, upto))
  <2> SUFFICES ASSUME hits # {}
               PROVE GzShape(GzTouch(swept, upto)) /\ GzWithin(GzTouch(swept, upto))
    OBVIOUS
  <2>1. upto \in GzValid(swept) BY <1>7, <1>8
  <2> QED BY <1>8, <1>10, <2>1, TouchKeeps DEF GzWithin, GzCount
<1> QED BY <1>6, <1>7, <1>8, <1>10, <1>11

\* A body is stored in a free slot.
LEMMA StoreKeeps ==
  ASSUME NEW c, GzShape(c), NEW i \in DOMAIN c.slots, c.slots[i] = GzNoEntry,
         NEW key \in Bodies, key # NoBody, \A j \in GzValid(c) : c.slots[j].key # key,
         NEW len, len = CompressedLength[key]
  PROVE  /\ GzShape(GzStore(c, i, key, len))
         /\ GzStore(c, i, key, len).total = c.total + len + GzOverhead
         /\ GzCount(GzStore(c, i, key, len)) = GzCount(c) + 1
         /\ GzStore(c, i, key, len).max_entries = c.max_entries
         /\ GzStore(c, i, key, len).max_memory = c.max_memory
<1> DEFINE d == GzStore(c, i, key, len)
           V == GzValid(c)
           W == V \cup {i}
           new == [key |-> key, len |-> len, age |-> 0]
           b == [c EXCEPT !.slots[i] = new, !.total = c.total + len + GzOverhead]
<1>1. /\ IsFiniteSet(V) /\ DOMAIN c.slots = 1 .. Len(c.slots) /\ V \subseteq DOMAIN c.slots
      /\ Len(c.slots) \in Nat /\ \A j \in V : c.slots[j].len + GzOverhead \in Nat
      /\ c.total \in Nat /\ GzOverhead \in Nat /\ GzCount(c) \in Nat
  BY ShapeFacts
<1>2. c \in GzType /\ c.slots \in Seq(GzEntry \cup {GzNoEntry}) BY DEF GzShape, GzType
<1>3. len \in Nat BY ResponseAssumption
<1>4. new \in GzEntry /\ new # GzNoEntry /\ new.key = key /\ new.len = len
  BY <1>3 DEF GzEntry, GzNoEntry, NoBody
<1> HIDE DEF new
<1>5. d = GzTouch(b, i) BY DEF GzStore, new
<1>6. /\ b.slots = [c.slots EXCEPT ![i] = new] /\ b.total = c.total + len + GzOverhead
      /\ b.older = c.older /\ b.max_entries = c.max_entries /\ b.max_memory = c.max_memory
      /\ b.ttl = c.ttl
      /\ b \in [slots : {b.slots}, older : {b.older}, max_entries : {b.max_entries},
                max_memory : {b.max_memory}, total : {b.total}, ttl : {b.ttl}]
  BY <1>2 DEF GzType
<1> HIDE DEF b
<1>7. /\ DOMAIN b.slots = DOMAIN c.slots
      /\ \A j \in DOMAIN c.slots : b.slots[j] = IF j = i THEN new ELSE c.slots[j]
  BY <1>2, <1>6
<1>8. GzValid(b) = W /\ i \notin V BY <1>4, <1>7 DEF GzValid
<1>9. /\ d.slots = b.slots /\ d.total = b.total /\ d.max_entries = b.max_entries
      /\ d.max_memory = b.max_memory /\ d.ttl = b.ttl
      /\ d.older = {p \in c.older : p[1] # i} \cup {<<j, i>> : j \in W \ {i}}
      /\ d \in [slots : {d.slots}, older : {d.older}, max_entries : {d.max_entries},
                max_memory : {d.max_memory}, total : {d.total}, ttl : {d.ttl}]
  BY <1>5, <1>6, <1>8 DEF GzTouch
<1> HIDE DEF d
<1>10. GzValid(d) = W BY <1>8, <1>9 DEF GzValid
<1>11. GzOrders(d.older, W)
  <2>1. GzOrders(c.older, V) BY DEF GzShape
  <2>2. V \subseteq W /\ W \subseteq V \cup {i} /\ i \in W OBVIOUS
  <2> HIDE DEF V, W
  <2> QED BY <1>9, <2>1, <2>2, OrderTouched
<1>12. d.slots \in Seq(GzEntry \cup {GzNoEntry})
  <2>1. d.slots \in [1 .. Len(c.slots) -> GzEntry \cup {GzNoEntry}]
    BY <1>1, <1>2, <1>4, <1>6, <1>9
  <2> QED BY <1>1, <2>1, SeqDef
<1>13. d.total \in Nat /\ d.total = c.total + len + GzOverhead BY <1>1, <1>3, <1>6, <1>9
<1>14. d \in GzType
  <2>1. W \subseteq Nat BY <1>1
  <2>2. d.older \in SUBSET (Nat \X Nat) BY <1>11, <2>1 DEF GzOrders
  <2>3. /\ d.max_entries \in Nat \ {0} /\ d.max_memory \in Nat \ {0} /\ d.ttl \in Nat
        /\ d.total \in Int
    BY <1>2, <1>6, <1>9, <1>13 DEF GzType
  <2>4. d \in [slots : {d.slots}, older : {d.older}, max_entries : {d.max_entries},
               max_memory : {d.max_memory}, total : {d.total}, ttl : {d.ttl}]
    BY <1>9
  <2> QED BY <1>12, <2>2, <2>3, <2>4 DEF GzType
<1>15. d.total = GzMemory(d, W)
  <2> DEFINE f == [j \in V |-> c.slots[j].len + GzOverhead]
             g == [j \in W |-> d.slots[j].len + GzOverhead]
  <2>1. \A j \in V : g[j] = f[j] /\ f[j] \in Nat BY <1>1, <1>7, <1>8, <1>9
  <2>2. g[i] = len + GzOverhead BY <1>1, <1>4, <1>7, <1>9
  <2>3. c.total = SumFunctionOnSet(f, V) /\ GzMemory(d, W) = SumFunctionOnSet(g, W)
    BY DEF GzShape, GzMemory
  <2>4. V \cup {i} = W OBVIOUS
  <2> HIDE DEF f, g, V, W
  <2>5. \A j \in V \cup {i} : g[j] \in Int
    <3>1. g[i] \in Int BY <1>1, <1>3, <2>2
    <3>2. \A j \in V : g[j] \in Int BY <2>1
    <3> QED BY <3>1, <3>2
  <2>6. SumFunctionOnSet(g, W) = g[i] + SumFunctionOnSet(g, V)
    BY <1>1, <1>8, <2>4, <2>5, SumAdd
  <2>7. SumFunctionOnSet(g, V) = SumFunctionOnSet(f, V) BY <1>1, <2>1, SumSame
  <2> QED BY <1>1, <1>3, <1>13, <2>2, <2>3, <2>6, <2>7
<1>16. \A j \in W : /\ d.slots[j] \in GzEntry /\ d.slots[j].key # NoBody
                    /\ d.slots[j].len = CompressedLength[d.slots[j].key]
  BY <1>1, <1>4, <1>7, <1>9 DEF GzShape
<1>17. \A j, k \in W : d.slots[j].key = d.slots[k].key => j = k
  BY <1>1, <1>4, <1>7, <1>9 DEF GzShape
<1>18. GzShape(d) BY <1>10, <1>11, <1>14, <1>15, <1>16, <1>17 DEF GzShape
<1>19. GzCount(d) = GzCount(c) + 1
  <2>1. Cardinality(W) = Cardinality(V) + 1 BY <1>1, <1>8, FS_AddElement
  <2> QED BY <1>10, <2>1 DEF GzCount
<1> QED BY <1>6, <1>9, <1>13, <1>18, <1>19 DEF d

\* A body that is cached is stored again: it takes what it took.
LEMMA ReplaceKeeps ==
  ASSUME NEW c, GzShape(c), NEW i \in GzValid(c), NEW key, c.slots[i].key = key,
         NEW len, len = CompressedLength[key]
  PROVE  /\ GzShape(GzReplace(c, i, key, len))
         /\ GzReplace(c, i, key, len).total = c.total
         /\ GzCount(GzReplace(c, i, key, len)) = GzCount(c)
         /\ GzReplace(c, i, key, len).max_entries = c.max_entries
         /\ GzReplace(c, i, key, len).max_memory = c.max_memory
<1> DEFINE d == GzReplace(c, i, key, len)
           V == GzValid(c)
           new == [key |-> key, len |-> len, age |-> 0]
           a == [c EXCEPT !.total = c.total - (c.slots[i].len + GzOverhead)]
           b == [a EXCEPT !.slots[i] = new, !.total = a.total + len + GzOverhead]
<1>1. /\ IsFiniteSet(V) /\ DOMAIN c.slots = 1 .. Len(c.slots) /\ V \subseteq DOMAIN c.slots
      /\ Len(c.slots) \in Nat /\ c.total \in Nat /\ GzOverhead \in Nat
  BY ShapeFacts
<1>2. c \in GzType /\ c.slots \in Seq(GzEntry \cup {GzNoEntry}) BY DEF GzShape, GzType
<1>3. c.slots[i] \in GzEntry /\ key # NoBody /\ c.slots[i].len = len /\ len \in Nat /\ key \in Bodies
  BY DEF GzShape, GzEntry
<1>4. new \in GzEntry /\ new # GzNoEntry /\ new.key = key /\ new.len = len
  BY <1>3 DEF GzEntry, GzNoEntry, NoBody
<1> HIDE DEF new
<1>5. d = GzTouch(b, i) BY DEF GzReplace, GzStore, new
<1>6. /\ b.slots = [c.slots EXCEPT ![i] = new]
      /\ b.total = c.total - (c.slots[i].len + GzOverhead) + len + GzOverhead
      /\ b.older = c.older /\ b.max_entries = c.max_entries /\ b.max_memory = c.max_memory
      /\ b.ttl = c.ttl
      /\ b \in [slots : {b.slots}, older : {b.older}, max_entries : {b.max_entries},
                max_memory : {b.max_memory}, total : {b.total}, ttl : {b.ttl}]
  BY <1>2 DEF GzType
<1> HIDE DEF a, b
<1>7. b.total = c.total BY <1>1, <1>3, <1>6
<1>8. /\ DOMAIN b.slots = DOMAIN c.slots
      /\ \A j \in DOMAIN c.slots : b.slots[j] = IF j = i THEN new ELSE c.slots[j]
  BY <1>2, <1>6
<1>9. GzValid(b) = V BY <1>1, <1>4, <1>8 DEF GzValid
<1>10. b \in GzType
  <2>1. b.slots \in [1 .. Len(c.slots) -> GzEntry \cup {GzNoEntry}] BY <1>1, <1>2, <1>4, <1>6
  <2>2. b.slots \in Seq(GzEntry \cup {GzNoEntry}) BY <1>1, <2>1, SeqDef
  <2> QED BY <1>2, <1>6, <1>7, <2>2 DEF GzType
<1>11. GzMemory(b, V) = GzMemory(c, V)
  <2>1. \A j \in V : b.slots[j].len = c.slots[j].len BY <1>1, <1>3, <1>4, <1>8
  <2>2. [j \in V |-> b.slots[j].len + GzOverhead] = [j \in V |-> c.slots[j].len + GzOverhead]
    BY <2>1
  <2> QED BY <2>2 DEF GzMemory
<1>12. \A j \in V : /\ b.slots[j] \in GzEntry /\ b.slots[j].key = c.slots[j].key
                    /\ b.slots[j].len = CompressedLength[b.slots[j].key]
  BY <1>1, <1>4, <1>8 DEF GzShape
<1>13. GzShape(b) BY <1>6, <1>7, <1>9, <1>10, <1>11, <1>12 DEF GzShape
<1>14. i \in GzValid(b) BY <1>9
<1> QED BY <1>5, <1>6, <1>7, <1>9, <1>13, <1>14, TouchKeeps DEF GzCount

\* uvhttp_gzip_cache_put
LEMMA PutKeeps ==
  ASSUME NEW c, GzShape(c), GzWithin(c), NEW key \in Bodies, key # NoBody, NEW mem
  PROVE  LET d == GzPut(c, key, CompressedLength[key], mem) IN GzShape(d) /\ GzWithin(d)
<1> DEFINE len == CompressedLength[key]
           d == GzPut(c, key, len, mem)
           same == {i \in DOMAIN c.slots : c.slots[i].key = key}
           roomy == GzMakeRoom(c, len)
           free == {i \in DOMAIN roomy.slots : roomy.slots[i] = GzNoEntry}
<1>1. /\ DOMAIN c.slots = 1 .. Len(c.slots) /\ Len(c.slots) \in Nat
      /\ c.total \in Nat /\ GzCount(c) \in Nat /\ GzOverhead \in Nat
  BY ShapeFacts
<1>2. c.max_entries \in Nat \ {0} /\ c.max_memory \in Nat \ {0} BY DEF GzShape, GzType
<1>3. len \in Nat \ {0} BY ResponseAssumption
<1> HIDE DEF len
<1>4. CASE len > c.max_memory
  <2>1. d = c BY <1>2, <1>3, <1>4 DEF GzPut
  <2> QED BY <2>1 DEF len
<1>5. CASE len <= c.max_memory /\ same # {}
  <2>1. d = IF mem THEN GzReplace(c, Min(same), key, len) ELSE c BY <1>2, <1>3, <1>5 DEF GzPut
  <2>2. same \in SUBSET Nat BY <1>1
  <2>3. Min(same) \in same
    <3> HIDE DEF same
    <3> QED BY <1>5, <2>2, MinIsLeast
  <2>4. Min(same) \in GzValid(c) /\ c.slots[Min(same)].key = key
    BY <2>3 DEF GzValid, GzNoEntry, NoBody
  <2> HIDE DEF same, d
  <2>5. ASSUME d = GzReplace(c, Min(same), key, len) PROVE GzShape(d) /\ GzWithin(d)
    BY <2>4, <2>5, ReplaceKeeps DEF GzWithin, len
  <2>6. GzShape(d) /\ GzWithin(d) BY <2>1, <2>5
  <2> QED BY <2>6 DEF d, len
<1>6. CASE len <= c.max_memory /\ same = {}
  <2>1. d = IF free # {} /\ mem THEN GzStore(roomy, Min(free), key, len) ELSE roomy
    BY <1>2, <1>3, <1>6 DEF GzPut
  <2>2. roomy = GzEvictDownTo(c, c.max_memory - len, c.max_entries - 1) BY DEF GzMakeRoom
  <2>3. c.max_memory - len \in Int /\ c.max_entries - 1 \in Int BY <1>2, <1>3
  <2> HIDE DEF roomy, d
  <2>4. /\ GzShape(roomy) /\ GzValid(roomy) \subseteq GzValid(c)
        /\ DOMAIN roomy.slots = DOMAIN c.slots
        /\ \A i \in GzValid(roomy) : roomy.slots[i] = c.slots[i]
        /\ roomy.max_entries = c.max_entries /\ roomy.max_memory = c.max_memory
        /\ roomy.total <= c.total /\ GzCount(roomy) <= GzCount(c)
        /\ \/ roomy.total <= c.max_memory - len /\ GzCount(roomy) <= c.max_entries - 1
           \/ roomy.total = 0 /\ GzCount(roomy) = 0
    BY <2>2, <2>3, EvictDownTo
  <2>5. roomy.total \in Nat /\ GzCount(roomy) \in Nat BY <2>4, ShapeFacts
  <2>6. GzWithin(roomy) BY <1>1, <1>2, <2>4, <2>5 DEF GzWithin
  <2>7. ASSUME free # {}, d = GzStore(roomy, Min(free), key, len) PROVE GzShape(d) /\ GzWithin(d)
    <3>1. free \in SUBSET Nat BY <1>1, <2>4
    <3>2. Min(free) \in free
      <4> HIDE DEF free
      <4> QED BY <2>7, <3>1, MinIsLeast
    <3>3. Min(free) \in DOMAIN roomy.slots /\ roomy.slots[Min(free)] = GzNoEntry BY <3>2
    <3>4. \A j \in GzValid(roomy) : roomy.slots[j].key # key
      BY <1>6, <2>4 DEF GzValid
    <3> DEFINE m == Min(free)
    <3> HIDE DEF m
    <3>5. m \in DOMAIN roomy.slots /\ roomy.slots[m] = GzNoEntry /\ d = GzStore(roomy, m, key, len)
      BY <2>7, <3>3 DEF m
    <3>6. /\ GzShape(d) /\ d.total = roomy.total + len + GzOverhead
          /\ GzCount(d) = GzCount(roomy) + 1
          /\ d.max_entries = roomy.max_entries /\ d.max_memory = roomy.max_memory
      BY <2>4, <3>4, <3>5, StoreKeeps DEF len
    <3> QED BY <1>1, <1>2, <1>3, <1>6, <2>4, <2>5, <3>6 DEF GzWithin
  <2>8. GzShape(d) /\ GzWithin(d) BY <2>1, <2>4, <2>6, <2>7
  <2> QED BY <2>8 DEF d, len
<1>7. len > c.max_memory \/ len <= c.max_memory BY <1>2, <1>3
<1> QED BY <1>4, <1>5, <1>6, <1>7

\* The cache as it is created, and cleared.
LEMMA EmptyShape ==
  ASSUME NEW c \in GzType, \A i \in DOMAIN c.slots : c.slots[i] = GzNoEntry,
         c.total = 0, c.older = {}
  PROVE  GzShape(c) /\ GzWithin(c)
<1>1. GzValid(c) = {} BY DEF GzValid
<1>2. GzOverhead \in Nat /\ c.max_memory \in Nat /\ c.max_entries \in Nat
  BY GzipAssumption DEF GzType
<1>3. c.total = GzMemory(c, GzValid(c))
  <2> DEFINE f == [i \in GzValid(c) |-> c.slots[i].len + GzOverhead]
  <2>1. GzMemory(c, GzValid(c)) = SumFunctionOnSet(f, GzValid(c)) BY DEF GzMemory
  <2> HIDE DEF f
  <2> QED BY <1>1, <2>1, SumEmpty
<1>4. GzCount(c) = 0 BY <1>1, FS_EmptySet DEF GzCount
<1> QED BY <1>1, <1>2, <1>3, <1>4 DEF GzShape, GzWithin, GzOrders

\* The embedder's settings.
LEMMA SettingsKeep ==
  ASSUME NEW c, GzShape(c), GzWithin(c)
  PROVE  /\ GzShape(GzClear(c)) /\ GzWithin(GzClear(c))
         /\ \A t \in Nat : GzShape(GzSetTTL(c, t)) /\ GzWithin(GzSetTTL(c, t))
         /\ \A n \in Nat \ {0} : GzShape(GzSetMaxMemory(c, n)) /\ GzWithin(GzSetMaxMemory(c, n))
         /\ \A n \in Nat \ {0}, mem \in BOOLEAN :
              GzShape(GzSetMaxEntries(c, n, mem)) /\ GzWithin(GzSetMaxEntries(c, n, mem))
         /\ GzShape(GzAge(c)) /\ GzWithin(GzAge(c))
<1>1. /\ DOMAIN c.slots = 1 .. Len(c.slots) /\ Len(c.slots) \in Nat
      /\ c.total \in Nat /\ GzCount(c) \in Nat /\ GzOverhead \in Nat
      /\ IsFiniteSet(GzValid(c)) /\ GzValid(c) \subseteq DOMAIN c.slots
  BY ShapeFacts
<1>2. /\ c \in GzType /\ c.max_entries \in Nat \ {0} /\ c.max_memory \in Nat \ {0}
      /\ c.slots \in Seq(GzEntry \cup {GzNoEntry})
  BY DEF GzShape, GzType
<1>3. GzShape(GzClear(c)) /\ GzWithin(GzClear(c))
  <2> DEFINE d == GzClear(c)
  <2>1. /\ d.slots = [i \in DOMAIN c.slots |-> GzNoEntry] /\ d.total = 0 /\ d.older = {}
        /\ d.max_entries = c.max_entries /\ d.max_memory = c.max_memory /\ d.ttl = c.ttl
        /\ d \in [slots : {d.slots}, older : {d.older}, max_entries : {d.max_entries},
                  max_memory : {d.max_memory}, total : {d.total}, ttl : {d.ttl}]
    BY <1>2 DEF GzClear, GzType
  <2>2. d.slots \in Seq(GzEntry \cup {GzNoEntry})
    <3>1. d.slots \in [1 .. Len(c.slots) -> GzEntry \cup {GzNoEntry}] BY <1>1, <2>1
    <3> QED BY <1>1, <3>1, SeqDef
  <2>3. d \in GzType
    <3>1. c.ttl \in Nat BY <1>2 DEF GzType
    <3>2. d \in [slots : {d.slots}, older : {d.older}, max_entries : {d.max_entries},
                 max_memory : {d.max_memory}, total : {d.total}, ttl : {d.ttl}]
      BY <2>1
    <3>3. /\ d.older \in SUBSET (Nat \X Nat) /\ d.ttl \in Nat /\ d.total \in Int
          /\ d.max_entries \in Nat \ {0} /\ d.max_memory \in Nat \ {0}
      BY <1>2, <2>1, <3>1
    <3> QED BY <2>2, <3>2, <3>3 DEF GzType
  <2>4. \A i \in DOMAIN d.slots : d.slots[i] = GzNoEntry BY <2>1
  <2> HIDE DEF d
  <2>5. GzShape(d) /\ GzWithin(d) BY <2>1, <2>3, <2>4, EmptyShape
  <2> QED BY <2>5 DEF d
<1>4. ASSUME NEW t \in Nat PROVE GzShape(GzSetTTL(c, t)) /\ GzWithin(GzSetTTL(c, t))
  <2> DEFINE d == GzSetTTL(c, t)
  <2>1. /\ d.slots = c.slots /\ d.total = c.total /\ d.older = c.older
        /\ d.max_entries = c.max_entries /\ d.max_memory = c.max_memory /\ d \in GzType
    BY <1>2, <1>4 DEF GzSetTTL, GzType
  <2> HIDE DEF d
  <2>2. GzShape(d) /\ GzWithin(d)
    BY <2>1 DEF GzShape, GzWithin, GzValid, GzMemory, GzCount
  <2> QED BY <2>2 DEF d
<1>5. ASSUME NEW n \in Nat \ {0}
      PROVE  GzShape(GzSetMaxMemory(c, n)) /\ GzWithin(GzSetMaxMemory(c, n))
  <2> DEFINE b == [c EXCEPT !.max_memory = n]
             d == GzSetMaxMemory(c, n)
  <2>1. /\ b.slots = c.slots /\ b.total = c.total /\ b.older = c.older
        /\ b.max_entries = c.max_entries /\ b.max_memory = n /\ b \in GzType
    BY <1>2, <1>5 DEF GzType
  <2>2. d = GzEvictDownTo(b, n, GzCount(c)) BY DEF GzSetMaxMemory
  <2> HIDE DEF b, d
  <2>3. GzShape(b) BY <2>1 DEF GzShape, GzValid, GzMemory
  <2>4. GzCount(b) = GzCount(c) BY <2>1 DEF GzCount, GzValid
  <2>5. n \in Int /\ GzCount(c) \in Int BY <1>1, <1>5
  <2>6. /\ GzShape(d) /\ d.max_entries = b.max_entries /\ d.max_memory = b.max_memory
        /\ d.total <= b.total /\ GzCount(d) <= GzCount(b)
        /\ (d.total <= n /\ GzCount(d) <= GzCount(c)) \/ (d.total = 0 /\ GzCount(d) = 0)
    BY <2>2, <2>3, <2>5, EvictDownTo
  <2>7. d.total \in Nat /\ GzCount(d) \in Nat BY <2>6, ShapeFacts
  <2>8. GzWithin(d) BY <1>1, <1>2, <1>5, <2>1, <2>4, <2>6, <2>7 DEF GzWithin
  <2> QED BY <2>6, <2>8 DEF d
<1>6. ASSUME NEW n \in Nat \ {0}, NEW mem \in BOOLEAN
      PROVE  GzShape(GzSetMaxEntries(c, n, mem)) /\ GzWithin(GzSetMaxEntries(c, n, mem))
  <2> DEFINE grown == [c EXCEPT !.slots = [i \in 1 .. n |-> IF i <= Len(c.slots) THEN c.slots[i]
                                                            ELSE GzNoEntry]]
             large == IF n > Len(c.slots) THEN grown ELSE c
             b == [large EXCEPT !.max_entries = n]
             d == GzSetMaxEntries(c, n, mem)
  <2>1. CASE n > Len(c.slots) /\ ~mem
    <3>1. d = c BY <2>1 DEF GzSetMaxEntries
    <3> QED BY <3>1
  <2>2. CASE ~(n > Len(c.slots) /\ ~mem)
    <3>1. d = GzEvictDownTo(b, c.total, n) BY <2>2 DEF GzSetMaxEntries
    <3>2. /\ b.total = c.total /\ b.older = c.older /\ b.max_entries = n
          /\ b.max_memory = c.max_memory /\ b.ttl = c.ttl
          /\ b.slots = (IF n > Len(c.slots) THEN grown.slots ELSE c.slots)
          /\ b \in [slots : {b.slots}, older : {b.older}, max_entries : {b.max_entries},
                    max_memory : {b.max_memory}, total : {b.total}, ttl : {b.ttl}]
      BY <1>2 DEF GzType
    <3>3. grown.slots = [i \in 1 .. n |-> IF i <= Len(c.slots) THEN c.slots[i] ELSE GzNoEntry]
      BY <1>2 DEF GzType
    <3> HIDE DEF grown, large, b, d
    <3>4. b.slots \in Seq(GzEntry \cup {GzNoEntry})
      <4>1. CASE n > Len(c.slots)
        <5>1. grown.slots \in [1 .. n -> GzEntry \cup {GzNoEntry}] BY <1>1, <1>2, <1>6, <3>3
        <5>2. grown.slots \in Seq(GzEntry \cup {GzNoEntry}) BY <1>6, <5>1, SeqDef
        <5> QED BY <3>2, <4>1, <5>2
      <4>2. CASE ~(n > Len(c.slots)) BY <1>2, <3>2, <4>2
      <4> QED BY <4>1, <4>2
    <3>5. /\ GzValid(b) = GzValid(c)
          /\ \A i \in GzValid(c) : b.slots[i] = c.slots[i]
      BY <1>1, <1>6, <3>2, <3>3 DEF GzValid
    <3>6. b \in GzType
      <4>1. c.older \in SUBSET (Nat \X Nat) /\ c.ttl \in Nat /\ c.total \in Int BY <1>2 DEF GzType
      <4>2. b \in [slots : {b.slots}, older : {b.older}, max_entries : {b.max_entries},
                   max_memory : {b.max_memory}, total : {b.total}, ttl : {b.ttl}]
        BY <3>2
      <4>3. /\ b.older \in SUBSET (Nat \X Nat) /\ b.ttl \in Nat /\ b.total \in Int
            /\ b.max_entries \in Nat \ {0} /\ b.max_memory \in Nat \ {0}
        BY <1>2, <1>6, <3>2, <4>1
      <4> QED BY <3>4, <4>2, <4>3 DEF GzType
    <3>7. GzMemory(b, GzValid(c)) = GzMemory(c, GzValid(c))
      <4>1. [i \in GzValid(c) |-> b.slots[i].len + GzOverhead]
              = [i \in GzValid(c) |-> c.slots[i].len + GzOverhead]
        BY <3>5
      <4> QED BY <4>1 DEF GzMemory
    <3>8. GzShape(b) BY <3>2, <3>5, <3>6, <3>7 DEF GzShape
    <3>9. c.total \in Int /\ n \in Int BY <1>1, <1>6
    <3>10. /\ GzShape(d) /\ d.max_entries = b.max_entries /\ d.max_memory = b.max_memory
           /\ d.total <= b.total /\ GzCount(d) <= GzCount(b)
           /\ (d.total <= c.total /\ GzCount(d) <= n) \/ (d.total = 0 /\ GzCount(d) = 0)
      BY <3>1, <3>8, <3>9, EvictDownTo
    <3>11. d.total \in Nat /\ GzCount(d) \in Nat BY <3>10, ShapeFacts
    <3>12. GzWithin(d) BY <1>1, <1>2, <1>6, <3>2, <3>10, <3>11 DEF GzWithin
    <3> QED BY <3>10, <3>12 DEF d
  <2> QED BY <2>1, <2>2
<1>7. GzShape(GzAge(c)) /\ GzWithin(GzAge(c))
  <2> DEFINE d == GzAge(c)
             T == [i \in DOMAIN c.slots |-> IF c.slots[i] = GzNoEntry THEN GzNoEntry
                                            ELSE GzAged(c.slots[i])]
  <2>0. d = [c EXCEPT !.slots = T] BY DEF GzAge
  <2>1. /\ d.slots = [i \in DOMAIN c.slots |-> IF c.slots[i] = GzNoEntry THEN GzNoEntry
                                               ELSE GzAged(c.slots[i])]
        /\ d.total = c.total /\ d.older = c.older
        /\ d.max_entries = c.max_entries /\ d.max_memory = c.max_memory /\ d.ttl = c.ttl
        /\ d \in [slots : {d.slots}, older : {d.older}, max_entries : {d.max_entries},
                  max_memory : {d.max_memory}, total : {d.total}, ttl : {d.ttl}]
    <3> HIDE DEF d, T
    <3>1. /\ d.slots = T /\ d.total = c.total /\ d.older = c.older
          /\ d.max_entries = c.max_entries /\ d.max_memory = c.max_memory /\ d.ttl = c.ttl
          /\ d \in [slots : {d.slots}, older : {d.older}, max_entries : {d.max_entries},
                    max_memory : {d.max_memory}, total : {d.total}, ttl : {d.ttl}]
      BY <1>2, <2>0 DEF GzType
    <3> QED BY <3>1 DEF T
  <2>2. \A e \in GzEntry : GzAged(e) \in GzEntry /\ GzAged(e).key = e.key /\ GzAged(e).len = e.len
    BY DEF GzEntry, GzAged
  <2> HIDE DEF d
  <2>3. \A i \in GzValid(c) : /\ c.slots[i] \in GzEntry /\ d.slots[i] = GzAged(c.slots[i])
                              /\ GzAged(c.slots[i]) # GzNoEntry
    <3>1. GzNoEntry.key = NoBody BY DEF GzNoEntry, NoBody
    <3> QED BY <1>1, <2>1, <2>2, <3>1 DEF GzShape, GzValid
  <2>4. GzValid(d) = GzValid(c) BY <2>1, <2>3 DEF GzValid
  <2>5. d.slots \in Seq(GzEntry \cup {GzNoEntry})
    <3>1. d.slots \in [1 .. Len(c.slots) -> GzEntry \cup {GzNoEntry}]
      BY <1>1, <2>1, <2>2, <2>3 DEF GzValid
    <3> QED BY <1>1, <3>1, SeqDef
  <2>6. d \in GzType
    <3>1. c.older \in SUBSET (Nat \X Nat) /\ c.ttl \in Nat /\ c.total \in Int BY <1>2 DEF GzType
    <3>2. d \in [slots : {d.slots}, older : {d.older}, max_entries : {d.max_entries},
                 max_memory : {d.max_memory}, total : {d.total}, ttl : {d.ttl}]
      BY <2>1
    <3>3. /\ d.older \in SUBSET (Nat \X Nat) /\ d.ttl \in Nat /\ d.total \in Int
          /\ d.max_entries \in Nat \ {0} /\ d.max_memory \in Nat \ {0}
      BY <1>2, <2>1, <3>1
    <3> QED BY <2>5, <3>2, <3>3 DEF GzType
  <2>7. GzMemory(d, GzValid(c)) = GzMemory(c, GzValid(c))
    <3>1. \A i \in GzValid(c) : d.slots[i].len = c.slots[i].len BY <2>2, <2>3
    <3>2. [i \in GzValid(c) |-> d.slots[i].len + GzOverhead]
            = [i \in GzValid(c) |-> c.slots[i].len + GzOverhead]
      BY <3>1
    <3> QED BY <3>2 DEF GzMemory
  <2>8. GzShape(d)
    <3>1. \A i \in GzValid(c) : /\ d.slots[i] \in GzEntry /\ d.slots[i].key = c.slots[i].key
                                /\ d.slots[i].len = c.slots[i].len
      BY <2>2, <2>3
    <3> QED BY <2>1, <2>4, <2>6, <2>7, <3>1 DEF GzShape
  <2>9. GzWithin(d) BY <2>1, <2>4 DEF GzWithin, GzCount
  <2> QED BY <2>8, <2>9 DEF d
<1> QED BY <1>3, <1>4, <1>5, <1>6, <1>7

-----------------------------------------------------------------------------
(* Responses.                                                              *)

HeaderType == [name : {"length", "other", "encoding"}, n : Nat]
ResponseType == [status : Nat, headers : Seq(HeaderType), capacity : Nat,
                 body : Bodies \cup {NoBody}, compress : BOOLEAN, threshold : Nat,
                 sent : BOOLEAN, finished : BOOLEAN]

\* A response with room for the headers it has.
Roomy(r) == r \in ResponseType /\ Len(r.headers) <= r.capacity

\* What ResponseFramed needs besides itself: the array of headers is never
\* overrun, the cache holds each body under its own key, and a message lasts
\* until the reset, during which the response is not touched.
ResponseInv ==
  /\ Roomy(rs) /\ GzShape(rs_gzip) /\ GzWithin(rs_gzip)
  /\ rs_out # NoMessage => rs.sent
  /\ ResponseFramed

\* uvhttp_response_set_header appends, or leaves a response whose array is full.
LEMMA HeaderAdded ==
  ASSUME NEW r, Roomy(r), NEW h \in HeaderType, NEW mem, NEW w, w = WithHeader(r, h, mem)
  PROVE  /\ Roomy(w) /\ w.body = r.body /\ w.sent = r.sent
         /\ \/ w.headers = Append(r.headers, h)
            \/ w = r /\ Len(r.headers) = r.capacity
<1>1. /\ r \in ResponseType /\ r.headers \in Seq(HeaderType) /\ Len(r.headers) \in Nat
      /\ r.capacity \in Nat /\ Len(r.headers) <= r.capacity
  BY LenProperties DEF Roomy, ResponseType
<1>2. /\ Append(r.headers, h) \in Seq(HeaderType)
      /\ Len(Append(r.headers, h)) = Len(r.headers) + 1
  BY <1>1, AppendProperties
<1>3. Grown(r.capacity) \in Nat
  <2>1. MaxHeaders \in Nat BY ResponseAssumption
  <2>2. {2 * r.capacity, MaxHeaders} \in SUBSET Nat /\ {2 * r.capacity, MaxHeaders} # {}
    BY <1>1, <2>1
  <2> DEFINE T == {2 * r.capacity, MaxHeaders}
  <2> HIDE DEF T
  <2>3. Min(T) \in T /\ T \in SUBSET Nat BY <2>2, MinIsLeast DEF T
  <2> QED BY <2>3 DEF T, Grown
<1>4. CASE Len(r.headers) < r.capacity
  <2>1. w = [r EXCEPT !.headers = Append(r.headers, h)] BY <1>4 DEF WithHeader
  <2>2. /\ w \in ResponseType /\ w.headers = Append(r.headers, h) /\ w.capacity = r.capacity
        /\ w.body = r.body /\ w.sent = r.sent
    BY <1>1, <1>2, <2>1 DEF ResponseType
  <2> QED BY <1>1, <1>2, <1>4, <2>2 DEF Roomy
<1>5. CASE ~(Len(r.headers) < r.capacity) /\ Grown(r.capacity) > r.capacity /\ mem
  <2>1. w = [r EXCEPT !.headers = Append(r.headers, h), !.capacity = Grown(r.capacity)]
    BY <1>5 DEF WithHeader
  <2>2. /\ w \in ResponseType /\ w.headers = Append(r.headers, h)
        /\ w.capacity = Grown(r.capacity) /\ w.body = r.body /\ w.sent = r.sent
    BY <1>1, <1>2, <1>3, <2>1 DEF ResponseType
  <2>3. Len(r.headers) + 1 <= Grown(r.capacity) BY <1>1, <1>3, <1>5
  <2>4. Len(w.headers) <= w.capacity BY <1>2, <2>2, <2>3
  <2> QED BY <2>2, <2>4 DEF Roomy
<1>6. CASE ~(Len(r.headers) < r.capacity) /\ ~(Grown(r.capacity) > r.capacity /\ mem)
  <2>1. w = r BY <1>6 DEF WithHeader
  <2>2. Len(r.headers) = r.capacity BY <1>1, <1>6
  <2> QED BY <2>1, <2>2
<1> QED BY <1>4, <1>5, <1>6

\* One more encoding is declared.
LEMMA OneMoreEncoding ==
  ASSUME NEW r, Roomy(r), NEW w, w.headers = Append(r.headers, ENCODING)
  PROVE  Encodings(w) = Encodings(r) + 1
<1> DEFINE n == Len(r.headers)
           E == {i \in DOMAIN r.headers : r.headers[i].name = "encoding"}
           F == {i \in DOMAIN w.headers : w.headers[i].name = "encoding"}
<1>1. r.headers \in Seq(HeaderType) BY DEF Roomy, ResponseType
<1>2. ENCODING \in HeaderType /\ ENCODING.name = "encoding" BY DEF ENCODING, HeaderType
<1>3. n \in Nat /\ DOMAIN r.headers = 1 .. n BY <1>1, LenProperties
<1>4. /\ w.headers \in Seq(HeaderType) /\ Len(w.headers) = n + 1
      /\ \A i \in 1 .. n : w.headers[i] = r.headers[i]
      /\ w.headers[n + 1] = ENCODING
  BY <1>1, <1>2, AppendProperties
<1>5. DOMAIN w.headers = 1 .. n + 1 BY <1>4, LenProperties
<1> HIDE DEF n
<1>6. F = E \cup {n + 1} /\ n + 1 \notin E BY <1>2, <1>3, <1>4, <1>5
<1>7. IsFiniteSet(1 .. n) BY <1>3, FS_Interval
<1>8. IsFiniteSet(E) BY <1>3, <1>7, FS_Subset
<1> HIDE DEF E, F
<1>9. Cardinality(F) = Cardinality(E) + 1 BY <1>6, <1>8, FS_AddElement
<1> QED BY <1>9 DEF E, F, Encodings

\* The lines of the header block can be compared.
LEMMA LinesCounted ==
  ASSUME NEW r, Roomy(r)
  PROVE  HeaderLines(r) \in Nat
<1>1. Len(r.headers) \in Nat BY LenProperties DEF Roomy, ResponseType
<1>2. IsFiniteSet({"type", "length", "connection"})
  <2>1. IsFiniteSet({"type"}) BY FS_Singleton
  <2>2. IsFiniteSet({"type"} \cup {"length"}) BY <2>1, FS_AddElement
  <2>3. IsFiniteSet(({"type"} \cup {"length"}) \cup {"connection"}) BY <2>2, FS_AddElement
  <2>4. ({"type"} \cup {"length"}) \cup {"connection"} = {"type", "length", "connection"}
    OBVIOUS
  <2> QED BY <2>3, <2>4
<1> DEFINE S == {"type", "length", "connection"} \ {h.name : h \in Range(r.headers)}
<1>3. IsFiniteSet(S) BY <1>2, FS_Subset
<1> HIDE DEF S
<1>4. Cardinality(S) \in Nat BY <1>3, FS_CardinalityType
<1> QED BY <1>1, <1>4 DEF S, HeaderLines

\* Step 1 of uvhttp_response_build_data.
LEMMA Step1Is ==
  ASSUME ResponseInv, NEW z \in BOOLEAN, NEW mem \in BOOLEAN, NEW s, s = Step1(rs, z, mem)
  PROVE  /\ Roomy(s.r) /\ s.r.body = rs.body /\ s.r.sent = rs.sent
         /\ GzShape(s.cache) /\ GzWithin(s.cache)
         /\ s.content = rs.body
         /\ \/ s.compressed = FALSE /\ s.r = rs
            \/ /\ s.compressed = TRUE /\ s.r = WithHeader(rs, ENCODING, mem)
               /\ rs.body # NoBody /\ rs.body \in Bodies
<1> DEFINE b == rs.body
           found == GzFind(rs_gzip, b)
           clen == CompressedLength[b]
<1>1. rs \in ResponseType /\ Roomy(rs) /\ GzShape(rs_gzip) /\ GzWithin(rs_gzip)
  BY DEF ResponseInv, Roomy
<1>2. b \in Bodies \cup {NoBody} BY <1>1 DEF ResponseType
<1>3. CASE ~Wanted(rs)
  <2>1. s = Plain(rs) BY <1>3 DEF Step1
  <2> QED BY <1>1, <2>1 DEF Plain
<1>4. CASE Wanted(rs)
  <2>1. s = Compressed(rs, z, mem) BY <1>4 DEF Step1
  <2>2. b # NoBody /\ b \in Bodies BY <1>2, <1>4 DEF Wanted
  <2>3. /\ GzShape(found.cache) /\ GzWithin(found.cache)
        /\ found.slot # 0 => rs_gzip.slots[found.slot].key = b
    BY <1>1, <2>2, FindKeeps
  <2>4. GzShape(GzPut(found.cache, b, clen, mem)) /\ GzWithin(GzPut(found.cache, b, clen, mem))
    BY <2>2, <2>3, PutKeeps
  <2>5. ENCODING \in HeaderType BY DEF ENCODING, HeaderType
  <2> DEFINE w == WithHeader(rs, ENCODING, mem)
  <2>6. Roomy(w) /\ w.body = b /\ w.sent = rs.sent BY <1>1, <2>5, HeaderAdded
  <2>7. \/ s = [r |-> w, cache |-> found.cache,
                content |-> rs_gzip.slots[found.slot].key, compressed |-> TRUE]
           /\ found.slot # 0
        \/ s = [r |-> w, cache |-> GzPut(found.cache, b, clen, mem), content |-> b,
                compressed |-> TRUE]
        \/ s = [r |-> rs, cache |-> found.cache, content |-> b, compressed |-> FALSE]
    BY <2>1 DEF Compressed, Declare, Plain
  <2> HIDE DEF w, found, clen
  <2>8. CASE /\ s = [r |-> w, cache |-> found.cache,
                     content |-> rs_gzip.slots[found.slot].key, compressed |-> TRUE]
             /\ found.slot # 0
    BY <2>2, <2>3, <2>6, <2>8 DEF w
  <2>9. CASE s = [r |-> w, cache |-> GzPut(found.cache, b, clen, mem), content |-> b,
                  compressed |-> TRUE]
    BY <2>2, <2>4, <2>6, <2>9 DEF w
  <2>10. CASE s = [r |-> rs, cache |-> found.cache, content |-> b, compressed |-> FALSE]
    BY <1>1, <2>3, <2>10
  <2> QED BY <2>7, <2>8, <2>9, <2>10
<1> QED BY <1>3, <1>4

\* What uvhttp_response_send writes is framed.
LEMMA SendFramed ==
  ASSUME ResponseInv, Send
  PROVE  ResponseInv'
<1>1. PICK z \in BOOLEAN, mem \in BOOLEAN, written \in BOOLEAN :
        /\ rs' = [Step1(rs, z, mem).r EXCEPT !.sent = TRUE, !.finished = written]
        /\ rs_gzip' = Step1(rs, z, mem).cache
        /\ rs_out' = IF written THEN Message(Step1(rs, z, mem)) ELSE NoMessage
  BY DEF Send
<1> DEFINE s == Step1(rs, z, mem)
           w == s.r
<1>2. /\ Roomy(w) /\ w.body = rs.body /\ GzShape(s.cache) /\ GzWithin(s.cache)
      /\ s.content = rs.body
      /\ \/ s.compressed = FALSE /\ w = rs
         \/ /\ s.compressed = TRUE /\ w = WithHeader(rs, ENCODING, mem)
            /\ rs.body # NoBody /\ rs.body \in Bodies
  BY Step1Is
<1> HIDE DEF s
<1>3. w \in ResponseType BY <1>2 DEF Roomy
<1>4. /\ rs' \in ResponseType /\ rs'.headers = w.headers /\ rs'.capacity = w.capacity
      /\ rs'.sent = TRUE
  BY <1>1, <1>3 DEF s, ResponseType
<1>5. Roomy(rs') /\ GzShape(rs_gzip)' /\ GzWithin(rs_gzip)' BY <1>1, <1>2, <1>4 DEF s, Roomy
<1>6. CASE ~written
  BY <1>1, <1>4, <1>5, <1>6 DEF ResponseInv, ResponseFramed
<1>7. CASE written
  <2> DEFINE m == Message(s)
  <2>1. rs_out' = m BY <1>1, <1>7 DEF s
  <2>2. /\ m.content = s.content /\ m.asked = w.body /\ m.bytes = BytesOf(s)
        /\ m.compressed = s.compressed /\ m.encodings = Encodings(w) /\ m.stale = Encodings(rs)
        /\ m.lengths = Lengths(w, Declared(s))
        /\ m.spilled = (HeaderLines(w) >= HeaderBuffer)
    BY DEF Message
  <2> HIDE DEF m
  <2>3. m.content = m.asked BY <1>2, <2>2
  <2>4. \/ m.lengths = <<m.bytes>> \/ DeclaresLength(rs') \/ (m.compressed /\ m.spilled)
    <3> SUFFICES ASSUME ~DeclaresLength(rs'), ~(m.compressed /\ m.spilled)
                 PROVE  m.lengths = <<m.bytes>>
      OBVIOUS
    <3>1. ~DeclaresLength(w) BY <1>4 DEF DeclaresLength
    <3>2. m.lengths = <<Declared(s)>> BY <2>2, <3>1 DEF Lengths
    <3>3. Declared(s) = BytesOf(s)
      <4>1. CASE s.compressed = FALSE BY <1>2, <4>1 DEF Declared, BytesOf
      <4>2. CASE s.compressed = TRUE
        <5>1. ~(HeaderLines(w) >= HeaderBuffer) BY <2>2, <4>2
        <5>2. HeaderLines(w) \in Nat /\ HeaderBuffer \in Nat
          BY <1>2, LinesCounted, ResponseAssumption
        <5>3. HeaderLines(w) < HeaderBuffer BY <5>1, <5>2
        <5> QED BY <4>2, <5>3 DEF Declared
      <4> QED BY <1>2, <4>1, <4>2
    <3> QED BY <2>2, <3>2, <3>3
  <2>5. \/ m.encodings = m.stale + (IF m.compressed THEN 1 ELSE 0)
        \/ m.compressed /\ Len(rs'.headers) = rs'.capacity
    <3>1. CASE s.compressed = FALSE /\ w = rs
      <4>1. Encodings(rs) \in Nat
        <5>1. rs.headers \in Seq(HeaderType) BY DEF ResponseInv, Roomy, ResponseType
        <5>2. IsFiniteSet(DOMAIN rs.headers) BY <5>1, LenProperties, FS_Interval
        <5>3. IsFiniteSet({i \in DOMAIN rs.headers : rs.headers[i].name = "encoding"})
          BY <5>2, FS_Subset
        <5> QED BY <5>3, FS_CardinalityType DEF Encodings
      <4> QED BY <2>2, <3>1, <4>1
    <3>2. CASE s.compressed = TRUE /\ w = WithHeader(rs, ENCODING, mem)
      <4>1. ENCODING \in HeaderType BY DEF ENCODING, HeaderType
      <4>2. Roomy(rs) BY DEF ResponseInv
      <4>3. w.headers = Append(rs.headers, ENCODING) \/ (w = rs /\ Len(rs.headers) = rs.capacity)
        BY <3>2, <4>1, <4>2, HeaderAdded
      <4>4. CASE w.headers = Append(rs.headers, ENCODING)
        <5>1. Encodings(w) = Encodings(rs) + 1 BY <4>2, <4>4, OneMoreEncoding
        <5> QED BY <2>2, <3>2, <5>1
      <4>5. CASE w = rs /\ Len(rs.headers) = rs.capacity BY <1>4, <2>2, <3>2, <4>5
      <4> QED BY <4>3, <4>4, <4>5
    <3> QED BY <1>2, <3>1, <3>2
  <2>6. ResponseFramed' BY <2>1, <2>3, <2>4, <2>5 DEF ResponseFramed
  <2> QED BY <1>4, <1>5, <2>6 DEF ResponseInv
<1> QED BY <1>6, <1>7

\* A step of the handler, the build or the embedder, before the send.
LEMMA BeforeSend ==
  ASSUME ResponseInv, ~rs.sent, Roomy(rs'), GzShape(rs_gzip)', GzWithin(rs_gzip)',
         rs_out' = rs_out
  PROVE  ResponseInv'
<1>1. rs_out = NoMessage BY DEF ResponseInv
<1>2. NoMessage' = NoMessage BY DEF NoMessage, NoBody
<1> QED BY <1>1, <1>2 DEF ResponseInv, ResponseFramed

\* Every step keeps the invariant.
LEMMA ResponseInvNext == ResponseInv /\ [ResponseNext]_responseVars => ResponseInv'
<1> SUFFICES ASSUME ResponseInv, [ResponseNext]_responseVars PROVE ResponseInv' OBVIOUS
<1>1. /\ Roomy(rs) /\ rs \in ResponseType /\ GzShape(rs_gzip) /\ GzWithin(rs_gzip)
      /\ rs.threshold \in Nat /\ rs.capacity \in Nat
  BY DEF ResponseInv, Roomy, ResponseType
<1>2. DefaultThreshold \in Nat /\ CompressThresholds \subseteq Nat BY ResponseAssumption
<1>3. ASSUME Handler, rs' \in ResponseType, rs'.headers = rs.headers, rs'.capacity = rs.capacity
      PROVE  ResponseInv'
  <2>1. Roomy(rs') BY <1>1, <1>3 DEF Roomy
  <2> QED BY <1>1, <1>3, <2>1, BeforeSend DEF Handler
<1>4. CASE \E h \in {[name |-> "length", n |-> 1], [name |-> "other", n |-> 0]} : SetHeader(h)
  <2>1. PICK h \in {[name |-> "length", n |-> 1], [name |-> "other", n |-> 0]} : SetHeader(h)
    BY <1>4
  <2>2. h \in HeaderType BY DEF HeaderType
  <2>3. PICK mem \in BOOLEAN : rs' = WithHeader(rs, h, mem) BY <2>1 DEF SetHeader
  <2>4. Roomy(rs') BY <1>1, <2>2, <2>3, HeaderAdded
  <2> QED BY <1>1, <2>1, <2>4, BeforeSend DEF SetHeader, Handler
<1>5. CASE SetStatus(200) BY <1>1, <1>3, <1>5 DEF SetStatus, ResponseType
<1>6. CASE \E b \in Bodies : SetBody(b)
  <2>1. PICK b \in Bodies : SetBody(b) BY <1>6
  <2>2. rs' = [rs EXCEPT !.body = b] \/ rs' = [rs EXCEPT !.body = NoBody] BY <2>1 DEF SetBody
  <2>3. rs' \in ResponseType /\ rs'.headers = rs.headers /\ rs'.capacity = rs.capacity
    BY <1>1, <2>2 DEF ResponseType
  <2> QED BY <1>3, <2>1, <2>3 DEF SetBody
<1>7. CASE \/ \E e \in BOOLEAN : SetCompress(e)
           \/ \E k \in {"text", "other"} : SetCompressBy(k)
  <2>1. \E e \in BOOLEAN, t \in Nat : rs' = [rs EXCEPT !.compress = e, !.threshold = t]
    <3>1. OrDefault(rs.threshold) \in Nat BY <1>1, <1>2 DEF OrDefault
    <3> QED BY <1>1, <1>7, <3>1 DEF SetCompress, SetCompressBy, ShouldCompress
  <2>2. rs' \in ResponseType /\ rs'.headers = rs.headers /\ rs'.capacity = rs.capacity
    BY <1>1, <2>1 DEF ResponseType
  <2> QED BY <1>3, <1>7, <2>2 DEF SetCompress, SetCompressBy
<1>8. CASE \E t \in CompressThresholds : SetCompressThreshold(t)
  BY <1>1, <1>2, <1>3, <1>8 DEF SetCompressThreshold, ResponseType
<1>9. CASE BuildFails
  <2>1. PICK z \in BOOLEAN, mem \in BOOLEAN :
          rs' = Step1(rs, z, mem).r /\ rs_gzip' = Step1(rs, z, mem).cache
    BY <1>9 DEF BuildFails
  <2> DEFINE s == Step1(rs, z, mem)
  <2>2. Roomy(s.r) /\ GzShape(s.cache) /\ GzWithin(s.cache) BY Step1Is
  <2> QED BY <1>9, <2>1, <2>2, BeforeSend DEF BuildFails
<1>10. CASE Send BY <1>10, SendFramed
<1>11. CASE ResetResponse
  <2>1. rs_out' = NoMessage /\ rs_gzip' = rs_gzip BY <1>11 DEF ResetResponse
  <2>2. rs' = [FreshResponse EXCEPT !.status = 0, !.capacity = rs.capacity,
                                    !.threshold = DefaultThreshold]
    BY <1>11 DEF ResetResponse
  <2>3. rs' \in ResponseType /\ rs'.headers = <<>> /\ rs'.capacity = rs.capacity
    <3>1. InlineHeaders \in Nat BY ResponseAssumption
    <3>2. FreshResponse \in ResponseType /\ FreshResponse.headers = <<>>
      BY <3>1 DEF FreshResponse, ResponseType
    <3> QED BY <1>1, <1>2, <2>2, <3>2 DEF ResponseType
  <2>4. Roomy(rs') BY <1>1, <2>3 DEF Roomy
  <2>5. NoMessage' = NoMessage BY DEF NoMessage, NoBody
  <2> QED BY <1>1, <2>1, <2>4, <2>5 DEF ResponseInv, ResponseFramed
<1>12. CASE \/ ClearGzip \/ GzipSecond
            \/ \E t \in GzTTLs : SetGzipTTL(t)
            \/ \E n \in GzMemories : SetGzipMemory(n)
            \/ \E n \in GzEntries : SetGzipEntries(n)
  <2>1. GzTTLs \subseteq Nat /\ GzMemories \subseteq Nat \ {0} /\ GzEntries \subseteq Nat \ {0}
    BY ResponseAssumption, GzipAssumption
  <2>2. GzShape(rs_gzip') /\ GzWithin(rs_gzip')
    <3>1. /\ GzShape(GzClear(rs_gzip)) /\ GzWithin(GzClear(rs_gzip))
          /\ \A t \in Nat : GzShape(GzSetTTL(rs_gzip, t)) /\ GzWithin(GzSetTTL(rs_gzip, t))
          /\ \A n \in Nat \ {0} :
               GzShape(GzSetMaxMemory(rs_gzip, n)) /\ GzWithin(GzSetMaxMemory(rs_gzip, n))
          /\ \A n \in Nat \ {0}, mem \in BOOLEAN : GzShape(GzSetMaxEntries(rs_gzip, n, mem))
                                                   /\ GzWithin(GzSetMaxEntries(rs_gzip, n, mem))
          /\ GzShape(GzAge(rs_gzip)) /\ GzWithin(GzAge(rs_gzip))
      BY <1>1, SettingsKeep
    <3> QED BY <1>12, <2>1, <3>1
        DEF ClearGzip, GzipSecond, SetGzipTTL, SetGzipMemory, SetGzipEntries
  <2>3. ~rs.sent /\ rs' = rs /\ rs_out' = rs_out
    BY <1>12 DEF ClearGzip, GzipSecond, SetGzipTTL, SetGzipMemory, SetGzipEntries, Settings
  <2> QED BY <1>1, <2>2, <2>3, BeforeSend
<1>13. CASE UNCHANGED responseVars
  <2>1. NoMessage' = NoMessage BY DEF NoMessage, NoBody
  <2>2. rs' = rs /\ rs_gzip' = rs_gzip /\ rs_out' = rs_out BY <1>13 DEF responseVars
  <2> QED BY <2>1, <2>2 DEF ResponseInv, ResponseFramed
<1> QED BY <1>4, <1>5, <1>6, <1>7, <1>8, <1>9, <1>10, <1>11, <1>12, <1>13 DEF ResponseNext

\* uvhttp_server_new creates the cache, the connection its response.
LEMMA ResponseInvInit == ResponseInit => ResponseInv
<1> SUFFICES ASSUME ResponseInit PROVE ResponseInv OBVIOUS
<1> DEFINE c == GzCreate(0, 0, 0)
<1>1. GzDefaultEntries \in Nat \ {0} /\ GzDefaultMemory \in Nat \ {0} BY GzipAssumption
<1>2. c = [slots |-> [i \in 1 .. GzDefaultEntries |-> GzNoEntry], older |-> {},
           max_entries |-> GzDefaultEntries, max_memory |-> GzDefaultMemory, total |-> 0,
           ttl |-> 0]
  BY DEF GzCreate
<1> HIDE DEF c
<1>3. /\ c.slots = [i \in 1 .. GzDefaultEntries |-> GzNoEntry] /\ c.older = {}
      /\ c.total = 0
  BY <1>2
<1>4. c.slots \in Seq(GzEntry \cup {GzNoEntry})
  <2>1. c.slots \in [1 .. GzDefaultEntries -> GzEntry \cup {GzNoEntry}] BY <1>3
  <2> QED BY <1>1, <2>1, SeqDef
<1>5. c \in GzType BY <1>1, <1>2, <1>3, <1>4 DEF GzType
<1>6. \A i \in DOMAIN c.slots : c.slots[i] = GzNoEntry BY <1>3
<1>7. GzShape(c) /\ GzWithin(c) BY <1>3, <1>5, <1>6, EmptyShape
<1>8. InlineHeaders \in Nat BY ResponseAssumption
<1>9. FreshResponse \in ResponseType /\ FreshResponse.headers = <<>>
      /\ FreshResponse.capacity = InlineHeaders
  BY <1>8 DEF FreshResponse, ResponseType
<1>10. Roomy(FreshResponse) BY <1>8, <1>9 DEF Roomy
<1> QED BY <1>7, <1>10 DEF ResponseInit, ResponseInv, ResponseFramed, c

\* The invariant of responses and the gzip cache holds at all times.
LEMMA ResponseInvariance == ResponseSpec => []ResponseInv
BY ResponseInvInit, ResponseInvNext, PTL DEF ResponseSpec

\* Whatever handlers set, in whatever order, whichever allocations fail and however
\* the cache is set, cleared and aged: what uvhttp_response_send writes is the body
\* the handler set, Content-Length is its length but for the two cases the property
\* names, and it is declared encoded just when it is.
THEOREM ResponsesAreFramed == ResponseSpec => []ResponseFramed
<1>1. ResponseInv => ResponseFramed BY DEF ResponseInv
<1> QED BY <1>1, ResponseInvariance, PTL

\* total_memory of the gzip cache is exactly what its entries take, for every budget
\* and every sequence of puts, hits, expiries, evictions and changed limits; it
\* exceeds the budget by the overhead of one entry at most.
THEOREM GzipIsAccounted == ResponseSpec => []GzipAccounting
<1>1. ResponseInv => GzipAccounting
  BY DEF ResponseInv, GzShape, GzWithin, GzipAccounting, GzAccounted
<1> QED BY <1>1, ResponseInvariance, PTL

=============================================================================
