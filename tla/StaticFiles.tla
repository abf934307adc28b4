----------------------------- MODULE StaticFiles -----------------------------
(***************************************************************************)
(* The request handler of uvhttp_static.c: path resolution, the LRU cache  *)
(* in front of the disk, directories, the size limit, precompressed files, *)
(* conditional requests and the choice of how to send.                     *)
(*                                                                         *)
(* A page is a file below the root with, perhaps, a .gz beside it; the     *)
(* embedder deploys new versions of a page, both forms at once, while the  *)
(* server runs, also between the stat and the read of one request, though  *)
(* not twice in a second, which Last-Modified could not tell apart.  The   *)
(* cache is a map here: its list, limits and evictions are LruCache, from  *)
(* which an entry may vanish at any time.  A request takes less than a     *)
(* second.  The transfer by sendfile is the module Sendfile.               *)
(***************************************************************************)
EXTENDS Integers, Sequences, FiniteSets

CONSTANTS
  Pages, IndexPage,  \* IndexPage is config.index_file
  StPaths,           \* what is asked for: pages, "/", "dir" and "missing"
  StSizes,           \* lengths of a page
  GzSizes,           \* lengths of its .gz (0: there is none)
  GzFrom,            \* pages of at least 512 bytes may be precompressed
  SendfileFrom,      \* UVHTTP_SENDFILE_MIN_FILE_SIZE
  StDefaultMax,      \* UVHTTP_STATIC_MAX_FILE_SIZE
  StTTLs, StMaxSizes, Zones,  \* values of cache_ttl, of max_file_size, and
                     \* offsets of the local time from GMT
  MaxVersion, StMaxTime, MaxWarm  \* bounds: versions of a page, clock, prewarmings

\* canonical: root_directory is written as realpath would write it.
StConfigs == [cache_ttl : StTTLs, max_file_size : StMaxSizes, listing : BOOLEAN,
              canonical : BOOLEAN, tz : Zones]

ASSUME StaticAssumption ==
  /\ IsFiniteSet(Pages) /\ StPaths \subseteq Pages \cup {"/", "dir", "missing"}
  /\ IndexPage \in Pages /\ StSizes \subseteq Nat \ {0} /\ GzSizes \subseteq Nat
  /\ GzFrom \in Nat /\ SendfileFrom \in Nat /\ StDefaultMax \in Nat
  /\ StTTLs \subseteq Nat /\ StMaxSizes \subseteq Nat /\ Zones \subseteq Int
  /\ MaxVersion \in Nat /\ StMaxTime \in Nat /\ MaxWarm \in Nat

VARIABLES
  st_conf,   \* ctx->config, or NoConfig before uvhttp_static_create
  st_disk,   \* the versions of each page: lengths and modification time
  st_cache,  \* the entries of ctx->cache for the pages themselves
  st_copy,   \* the client's copy of each page: version, form and validators
  st_now,    \* the wall clock, in seconds
  st_req,    \* the request being handled and the handler's locals
  st_ans,    \* what the last request of this second was answered
  st_bufs,   \* buffers of read_file_content not freed
  st_leaked  \* ... of them, those that no pointer is left to

staticVars == <<st_conf, st_disk, st_cache, st_copy, st_now, st_req, st_ans, st_bufs, st_leaked>>

NoConfig == [cache_ttl |-> -1]
NoItem == [ver |-> 0, form |-> "plain", size |-> 0, mtime |-> 0, at |-> 0]
StIdle == [stage |-> "idle"]
NoHeaders == [type |-> "none", encoding |-> FALSE, length |-> 0]
NoAnswer == [code |-> 0, page |-> IndexPage, item |-> NoItem, headers |-> NoHeaders,
             sent |-> 0, by |-> "none"]

StaticInit ==
  /\ st_conf = NoConfig
  /\ st_disk = [p \in Pages |-> <<[plain |-> 3, gz |-> 1, mtime |-> 0]>>]
  /\ st_cache = [p \in Pages |-> NoItem]
  /\ st_copy = [p \in Pages |-> NoItem]
  /\ st_now = 0 /\ st_req = StIdle /\ st_ans = NoAnswer /\ st_bufs = 0 /\ st_leaked = 0

-----------------------------------------------------------------------------
(* Files and their validators.                                             *)

Current(p) == Len(st_disk[p])
Disk(p) == st_disk[p][Current(p)]
SizeOf(p, v, f) == IF f = "gz" THEN st_disk[p][v].gz ELSE st_disk[p][v].plain

\* uvhttp_static_generate_etag
Etag(item) == <<item.size, item.mtime>>

\* Mutant: the date of the client is compared the wrong way round.
NotModifiedSwapped(cond, copy, item) ==
  \/ cond = "etag" /\ copy.ver # 0 /\ Etag(copy) = Etag(item)
  \/ cond = "date" /\ copy.ver # 0 /\ copy.mtime - st_conf.tz <= item.mtime

\* uvhttp_static_check_conditional_request.  The date was written by gmtime and
\* is read by mktime: it is off by the time zone.
NotModified(cond, copy, item) ==
  \/ cond = "etag" /\ copy.ver # 0 /\ Etag(copy) = Etag(item)
  \/ cond = "date" /\ copy.ver # 0 /\ copy.mtime - st_conf.tz >= item.mtime

\* uvhttp_static_get_mime_type: the slot of the hash table is compared before it
\* is believed, so that it agrees with the list.
MimeType(form) == IF form = "gz" THEN "application/gzip" ELSE "text/html"

\* uvhttp_static_set_response_headers strips .gz and declares the encoding.
HeadersOf(item) == [type |-> MimeType("plain"), encoding |-> item.form = "gz",
                    length |-> item.size]

\* The headers of uvhttp_static_sendfile_with_config: the type is that of the
\* file as it is named, and no encoding is declared.
SendfileHeaders(item) == [type |-> MimeType(item.form), encoding |-> FALSE,
                          length |-> item.size]

\* uvhttp_lru_cache_is_expired
StExpired(item) == st_conf.cache_ttl > 0 /\ st_now - item.at > st_conf.cache_ttl

-----------------------------------------------------------------------------
(* Answers.                                                                *)

Reply(code, p, item, headers, sent, by) ==
  st_ans' = [code |-> code, page |-> p, item |-> item, headers |-> headers,
             sent |-> sent, by |-> by]

\* The client keeps the body, with its validators, of a 200 it receives.
Keep(p, item) == st_copy' = [st_copy EXCEPT ![p] = [item EXCEPT !.at = 0]]

\* The handler fails; its caller answers 404, whatever status was set.
Fail == /\ Reply(404, IndexPage, NoItem, NoHeaders, 1, "caller")
        /\ UNCHANGED st_copy

\* uvhttp_static_set_response_headers, uvhttp_response_set_body and the send.
Serve(p, item, by) ==
  /\ Reply(200, p, item, HeadersOf(item), 1, by)
  /\ Keep(p, item)

-----------------------------------------------------------------------------
(* uvhttp_static_handle_request.                                           *)

\* Up to the disk: what "/" stands for, resolve_safe_path, the cache.
ResolvedPage(path) == IF path \in {"/", "dir"} THEN IndexPage ELSE path

Unresolved ==
  /\ Fail /\ UNCHANGED <<st_cache, st_req>>

\* A directory has no entry of its own; the path asked for names the plain file.
CacheHit(path, p, cond) ==
  LET e == st_cache[p] IN
  /\ path # "dir" /\ e.ver # 0 /\ ~StExpired(e)
  /\ IF NotModified(cond, st_copy[p], e)
     THEN Reply(304, p, st_copy[p], NoHeaders, 1, "cache") /\ UNCHANGED st_copy
     ELSE Serve(p, e, "cache")
  /\ UNCHANGED <<st_cache, st_req>>

\* generate_directory_listing: the page is set as body, and not sent.
Listing(path) ==
  /\ path = "dir" /\ st_conf.listing
  /\ Reply(200, IndexPage, NoItem, NoHeaders, 0, "listing")
  /\ UNCHANGED <<st_copy, st_cache, st_req>>

TooLarge(p) ==
  /\ Disk(p).plain > st_conf.max_file_size
  /\ Fail /\ UNCHANGED st_req

\* The form sent: the .gz beside the file, if the client takes it.
Form(p, gzip) ==
  IF gzip /\ Disk(p).plain >= GzFrom /\ Disk(p).gz > 0 THEN "gz" ELSE "plain"

OnDisk(p, f) ==
  [ver |-> Current(p), form |-> f, size |-> SizeOf(p, Current(p), f),
   mtime |-> Disk(p).mtime, at |-> st_now]

\* A large file: 304 is set and not sent, or sendfile takes over.  It declares
\* the type of the .gz and no encoding.
BySendfile(p, f, cond) ==
  LET item == OnDisk(p, f) IN
  /\ item.size > SendfileFrom
  /\ IF NotModified(cond, st_copy[p], item)
     THEN Reply(304, p, st_copy[p], NoHeaders, 0, "stat") /\ UNCHANGED st_copy
     ELSE Reply(200, p, item, SendfileHeaders(item), 1, "sendfile") /\ Keep(p, item)
  /\ UNCHANGED st_req

\* A small file is about to be read: of the stat, its time is kept.
ToRead(p, f, cond) ==
  /\ SizeOf(p, Current(p), f) <= SendfileFrom
  /\ st_req' = [stage |-> "read", page |-> p, form |-> f, cond |-> cond,
                stat |-> [mtime |-> Disk(p).mtime, size |-> SizeOf(p, Current(p), f)]]
  /\ st_ans' = NoAnswer /\ UNCHANGED st_copy

\* uvhttp_lru_cache_find removes the entry it finds expired.
CacheMiss(path, p, gzip, cond) ==
  /\ path = "dir" \/ st_cache[p].ver = 0 \/ StExpired(st_cache[p])
  /\ \/ Listing(path)                \* or there is no memory for it
     \/ /\ st_cache' = IF path = "dir" THEN st_cache
                       ELSE [st_cache EXCEPT ![p] = NoItem]
        /\ \/ TooLarge(p)
           \/ /\ Disk(p).plain <= st_conf.max_file_size
              /\ \/ BySendfile(p, Form(p, gzip), cond)
                 \/ ToRead(p, Form(p, gzip), cond)

HandleRequest ==
  /\ st_conf # NoConfig /\ st_req = StIdle
  /\ \E path \in StPaths, gzip \in BOOLEAN, cond \in {"none", "etag", "date"} :
       IF path = "missing" THEN Unresolved
       ELSE \/ CacheHit(path, ResolvedPage(path), cond)
            \/ CacheMiss(path, ResolvedPage(path), gzip, cond)
  /\ UNCHANGED <<st_conf, st_disk, st_now, st_bufs, st_leaked>>

\* Mutant: the length of the stat is kept.
ReadKeepsStat(stat, p, f) == [OnDisk(p, f) EXCEPT !.mtime = stat.mtime, !.size = stat.size]

\* read_file_content: content and length of now, the time of the stat.
ReadFile(stat, p, f) == [OnDisk(p, f) EXCEPT !.mtime = stat.mtime]

\* uvhttp_lru_cache_put, or it fails.  The .gz is put under its own name, which
\* is not the one looked up for the page.
Put(p, item) ==
  \/ item.form = "plain" /\ st_cache' = [st_cache EXCEPT ![p] = item]
  \/ UNCHANGED st_cache

\* The small file is read into a buffer.
ReadContent ==
  /\ st_req.stage = "read"
  /\ st_req' = [stage |-> "answer", page |-> st_req.page, cond |-> st_req.cond,
                item |-> ReadFile(st_req.stat, st_req.page, st_req.form)]
  /\ st_bufs' = st_bufs + 1
  /\ UNCHANGED <<st_conf, st_disk, st_cache, st_copy, st_now, st_ans, st_leaked>>

\* The client's copy is this: the buffer is freed, 304 set and not sent.
Same ==
  /\ st_req.stage = "answer" /\ st_req' = StIdle
  /\ NotModified(st_req.cond, st_copy[st_req.page], st_req.item)
  /\ Reply(304, st_req.page, st_copy[st_req.page], NoHeaders, 0, "read")
  /\ st_bufs' = st_bufs - 1
  /\ UNCHANGED <<st_conf, st_disk, st_cache, st_copy, st_now, st_leaked>>

\* The content is cached and sent, the buffer freed.
CacheAndSend ==
  /\ st_req.stage = "answer" /\ st_req' = StIdle
  /\ ~NotModified(st_req.cond, st_copy[st_req.page], st_req.item)
  /\ Put(st_req.page, st_req.item)
  /\ Serve(st_req.page, st_req.item, "read")
  /\ st_bufs' = st_bufs - 1
  /\ UNCHANGED <<st_conf, st_disk, st_now, st_leaked>>

\* read_file_content fails: 500 is set, the caller answers 404.
ReadFails ==
  /\ st_req.stage = "read" /\ st_req' = StIdle
  /\ Fail
  /\ UNCHANGED <<st_conf, st_disk, st_cache, st_now, st_bufs, st_leaked>>

-----------------------------------------------------------------------------
(* The embedder's calls.                                                   *)

\* uvhttp_static_create
StaticCreate ==
  /\ st_conf = NoConfig /\ st_conf' \in StConfigs
  /\ UNCHANGED <<st_disk, st_cache, st_copy, st_now, st_req, st_ans, st_bufs, st_leaked>>

Embedder ==
  /\ st_conf # NoConfig /\ st_req = StIdle
  /\ UNCHANGED <<st_disk, st_copy, st_now, st_req, st_ans>>

\* uvhttp_static_prewarm_cache for each of some pages.  The key is the root as
\* configured, joined with the name: handle_request looks it up only if that is
\* what realpath returns.  The buffer is freed if the put fails, and only then.
Prewarm(S) ==
  /\ Embedder /\ \A p \in S : Disk(p).plain <= st_conf.max_file_size
  /\ st_leaked + Cardinality(S) <= MaxWarm
  /\ st_cache' = [p \in Pages |-> IF p \in S /\ st_conf.canonical
                     THEN OnDisk(p, "plain")
                     ELSE st_cache[p]]
  /\ st_bufs' = st_bufs + Cardinality(S) /\ st_leaked' = st_leaked + Cardinality(S)
  /\ UNCHANGED st_conf

\* uvhttp_static_prewarm_directory: the pages in it one by one, those that fail
\* skipped, until max_files are warm (0: no limit).
PrewarmDirectory(max_files) ==
  \E S \in SUBSET Pages :
    /\ max_files > 0 => Cardinality(S) <= max_files
    /\ Prewarm(S)

\* uvhttp_static_clear_cache
ClearCache ==
  /\ Embedder /\ st_cache' = [p \in Pages |-> NoItem]
  /\ UNCHANGED <<st_conf, st_bufs, st_leaked>>

\* uvhttp_static_cleanup_expired_cache, and what the cache evicts.
DropEntry(p) ==
  /\ st_req = StIdle /\ st_cache' = [st_cache EXCEPT ![p] = NoItem]
  /\ UNCHANGED <<st_conf, st_disk, st_copy, st_now, st_req, st_ans, st_bufs, st_leaked>>

\* uvhttp_static_set_max_file_size: 0 stands for the default, here and not in
\* uvhttp_static_create.
SetMaxFileSize(n) ==
  /\ Embedder
  /\ st_conf' = [st_conf EXCEPT !.max_file_size = IF n > 0 THEN n ELSE StDefaultMax]
  /\ UNCHANGED <<st_cache, st_bufs, st_leaked>>

\* uvhttp_static_set_cache_config, and the same of the cache.
SetCacheTTL(t) ==
  /\ Embedder /\ st_conf' = [st_conf EXCEPT !.cache_ttl = t]
  /\ UNCHANGED <<st_cache, st_bufs, st_leaked>>

-----------------------------------------------------------------------------
(* The surroundings.                                                       *)

Deploy(p) ==
  /\ Current(p) < MaxVersion /\ st_now > Disk(p).mtime
  /\ \E s \in StSizes, g \in GzSizes :
       st_disk' = [st_disk EXCEPT ![p] = Append(@, [plain |-> s, gz |-> g, mtime |-> st_now])]
  /\ UNCHANGED <<st_conf, st_cache, st_copy, st_now, st_req, st_ans, st_bufs, st_leaked>>

StTick ==
  /\ st_req = StIdle /\ st_now < StMaxTime /\ st_now' = st_now + 1
  /\ st_ans' = NoAnswer
  /\ UNCHANGED <<st_conf, st_disk, st_cache, st_copy, st_req, st_bufs, st_leaked>>

StaticNext ==
  \/ StaticCreate \/ HandleRequest \/ ReadContent \/ Same \/ CacheAndSend \/ ReadFails
  \/ ClearCache \/ StTick
  \/ \E p \in Pages : Deploy(p) \/ DropEntry(p)
  \/ \E n \in StMaxSizes : SetMaxFileSize(n)
  \/ \E t \in StTTLs : SetCacheTTL(t)
  \/ \E n \in {0, 1} : PrewarmDirectory(n)

StaticSpec == StaticInit /\ [][StaticNext]_staticVars

-----------------------------------------------------------------------------
(* Properties.                                                             *)

\* Version v of page p was on the disk less than the cache's TTL ago.
Recent(p, v) ==
  \/ st_conf.cache_ttl = 0 \/ v = Current(p)
  \/ st_now - st_disk[p][v + 1].mtime <= st_conf.cache_ttl

\* A client that asks for a page and is answered 200 or 304 then holds a
\* version not older than cache_ttl allows: neither the cache, nor a validator
\* made of a stat and a later read, nor the other form of the page makes
\* handle_request confirm or serve something older.
FreshWithinTTL ==
  [][ st_ans' # st_ans /\ st_ans'.code \in {200, 304} /\ st_ans'.item.ver # 0
      => Recent(st_ans'.page, st_ans'.item.ver) ]_staticVars

\* Content-Length and Content-Encoding of a small file are those of the body,
\* though the file may have changed between get_file_info and the read.
HeadersDescribeBody ==
  st_ans.code = 200 /\ st_ans.by \in {"read", "cache"} =>
    /\ st_ans.headers.length = SizeOf(st_ans.page, st_ans.item.ver, st_ans.item.form)
    /\ st_ans.headers.encoding = (st_ans.item.form = "gz")
    /\ st_ans.headers.type = MimeType("plain")

\* Every path through handle_request frees the buffer it read; those that stay
\* are the ones uvhttp_static_prewarm_cache keeps on success.
BuffersReturned == st_req = StIdle => st_bufs = st_leaked

\* A file of a size that is read at once is described as it was read, and its
\* buffer given back, whatever happened to it between stat, read and answer.
ReadsConsistent == HeadersDescribeBody /\ BuffersReturned

=============================================================================
