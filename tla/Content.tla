------------------------------ MODULE Content ------------------------------
(***************************************************************************)
(* What is in a body the CDN sends (src/cdn/chunk.go, manifest.go) and how *)
(* it is decrypted (src/steamcrypto): a client lists the content servers,  *)
(* then fetches a chunk or a manifest, and tries again when a body is not  *)
(* what it must be.  Which server sends a body, and when, is module Cdn.   *)
(* The session (src/session) reads the manifest ids of locked branches.    *)
(*                                                                         *)
(* A byte goes to ByteMax and a cipher block has BlockLen bytes, 255 and   *)
(* 16 in the code.  AES is external, as are the three compressions: any    *)
(* permutation of blocks, and any partial function on what they compress.  *)
(* A hash is as good as what it is a hash of.                              *)
(***************************************************************************)
EXTENDS Integers, Sequences, SequencesExt

CONSTANTS
  ByteMax, BlockLen,
  Xor(_, _),    \* of two bytes
  Decrypt,      \* Decrypt[key][block]: AES with a key, backwards
  DepotKey,     \* the depot's key, or NoKey; for an id, the branch's
  NoKey,
  Inflate,      \* Inflate[b]: what the compressed bytes b stand for
  ServerLists,  \* what GetServersForSteamPipe may answer
  Chunks,       \* the chunks that may be asked for, each the bytes it stands for
  Bodies,       \* what a server may send for a chunk
  Manifests,    \* what may be in the zip a server sends for a manifest
  Ids,          \* the encrypted manifest ids there may be in product info
  ExtraSweeps, Backoff, Signed64  \* c.retries(), c.Backoff, and 2^63

VARIABLES
  what,         \* "chunk", "manifest" or "id"
  chunk,        \* the chunk that is fetched
  fetch,        \* what the fetch does, or how it ended
  servers,      \* c.Servers
  tries,        \* bodies that were no good
  wait,         \* how long the last backoff was
  data,         \* the chunk, or the id
  files,        \* m.Files: the name and the link target of each
  body          \* history: the last body that came

contentVars == <<what, chunk, fetch, servers, tries, wait, data, files, body>>

ContentInit ==
  /\ \/ what \in {"chunk", "manifest"} /\ fetch = "servers"
     \/ what = "id" /\ fetch = "resolve"
  /\ chunk \in Chunks
  /\ servers = <<>> /\ tries = 0 /\ wait = 0
  /\ data = <<>> /\ files = <<>> /\ body = <<>>

FetchEnds(how) == fetch' = how /\ UNCHANGED <<what, chunk, servers, tries, wait>>

\* Servers: which of the servers listed are used.
Usable(s) == s.type \in {"CDN", "SteamCache"} /\ ~s.proxy /\ ~s.china

ListServers ==
  /\ fetch = "servers"
  /\ \E list \in ServerLists :
       /\ servers' = SelectSeq(list, Usable)
       /\ fetch' = IF servers' = <<>> THEN "failed" ELSE "get"
  /\ UNCHANGED <<what, chunk, tries, wait, data, files, body>>

----------------------------------------------------------------------------
\* steamcrypto.

NotOk == [ok |-> FALSE, out |-> <<>>]
Good(bytes) == [ok |-> TRUE, out |-> bytes]
Then(r, Step(_)) == IF r.ok THEN Step(r.out) ELSE NotOk

Byte   == 0 .. ByteMax
Blocks == [1 .. BlockLen -> Byte]
XorBlock(a, b) == [k \in 1 .. BlockLen |-> Xor(a[k], b[k])]
BlockAt(bytes, n) == [k \in 1 .. BlockLen |-> bytes[(n - 1) * BlockLen + k]]
BlocksIn(bytes) == Len(bytes) \div BlockLen
Joined(blocks) ==
  [k \in 1 .. Len(blocks) * BlockLen |->
     blocks[((k - 1) \div BlockLen) + 1][((k - 1) % BlockLen) + 1]]

Unpad(b) ==
  IF b = <<>> THEN NotOk
  ELSE LET n == Last(b)
       IN  IF \/ n = 0 \/ n > BlockLen \/ n > Len(b)
              \/ \E k \in Len(b) - n + 1 .. Len(b) : b[k] # n THEN NotOk
           ELSE Good(SubSeq(b, 1, Len(b) - n))

Whole(bytes) == Len(bytes) % BlockLen = 0

\* The first block is the IV, itself encrypted; the others are chained to it.
PlainBlock(raw, key, n) ==
  XorBlock(Decrypt[key][BlockAt(raw, n)],
           IF n = 2 THEN Decrypt[key][BlockAt(raw, 1)] ELSE BlockAt(raw, n - 1))

SymmetricDecrypt(raw, key) ==
  IF key \notin DOMAIN Decrypt \/ ~Whole(raw) \/ BlocksIn(raw) < 2 THEN NotOk
  ELSE Unpad(Joined([n \in 1 .. BlocksIn(raw) - 1 |-> PlainBlock(raw, key, n + 1)]))

DecryptECB(raw, key) ==
  IF key \notin DOMAIN Decrypt \/ ~Whole(raw) THEN NotOk
  ELSE Unpad(Joined([n \in 1 .. BlocksIn(raw) |-> Decrypt[key][BlockAt(raw, n)]]))

Encrypt(key, block) == CHOOSE b \in DOMAIN Decrypt[key] : Decrypt[key][b] = block

Padded(plain) ==
  LET n == BlockLen - (Len(plain) % BlockLen)
  IN  plain \o [k \in 1 .. n |-> n]

Chained(p, key, iv) ==
  LET chained[n \in 0 .. BlocksIn(p)] ==
        IF n = 0 THEN iv ELSE Encrypt(key, XorBlock(BlockAt(p, n), chained[n - 1]))
  IN  chained

SymmetricEncrypt(plain, key, iv) ==
  LET p       == Padded(plain)
      chained == Chained(p, key, iv)
  IN  Joined([n \in 1 .. BlocksIn(p) + 1 |->
                IF n = 1 THEN Encrypt(key, iv) ELSE chained[n - 1]])

\* Two sums, the second over the first, both from zero; 65521 is Modulus here.
Modulus == 3
Adler(bytes) ==
  FoldLeft(LAMBDA s, byte : <<(s[1] + byte) % Modulus, (s[2] + s[1] + byte) % Modulus>>,
           <<0, 0>>, bytes)

----------------------------------------------------------------------------
\* DecodeChunk and what FetchChunk checks.  The letters a container begins with are
\* a byte here; the size in its footer is one as well, and zip has none.

VSZ == 1
VZ  == 2
PK  == 3

Middle(b) == SubSeq(b, 2, Len(b) - 1)
Inflated(b) == IF b \in DOMAIN Inflate THEN Good(Inflate[b]) ELSE NotOk

\* The zstd frame must be as long as the footer says.
DecompressVZstd(b) ==
  Then(Inflated(Middle(b)), LAMBDA out : IF Len(out) = Last(b) THEN Good(out) ELSE NotOk)

\* Of the LZMA stream, as much is read as the footer says.
DecompressVZip(b) ==
  Then(Inflated(Middle(b)),
       LAMBDA out : IF Len(out) >= Last(b) THEN Good(SubSeq(out, 1, Last(b))) ELSE NotOk)

DecompressZip(b) == Inflated(Tail(b))

Decompressed(b) ==
  CASE Len(b) > 1 /\ b[1] = VSZ -> DecompressVZstd(b)
    [] Len(b) > 1 /\ b[1] = VZ  -> DecompressVZip(b)
    [] b # <<>> /\ b[1] = PK     -> DecompressZip(b)
    [] OTHER                      -> NotOk

DecodeChunk(raw) == Then(SymmetricDecrypt(raw, DepotKey), Decompressed)

\* Mutant: the SHA is not compared.
SumsOnly(out) == Len(out) = Len(chunk) /\ Adler(out) = Adler(chunk)

Checks(out) ==
  /\ Len(out) = Len(chunk) /\ Adler(out) = Adler(chunk)
  /\ out = chunk

\* c.backoff: the shift wraps, and is cut at ten times the base.
Wrapped(n) == ((n + Signed64) % (2 * Signed64)) - Signed64

WaitBefore(attempt) ==
  LET d == Wrapped(Backoff * 2 ^ attempt)
  IN  IF d > 10 * Backoff THEN 10 * Backoff ELSE d

\* A body that is no good: another sweep after a backoff, or the end.
NoGood ==
  /\ IF tries = ExtraSweeps THEN fetch' = "failed" /\ UNCHANGED <<tries, wait>>
     ELSE fetch' = "backoff" /\ tries' = tries + 1 /\ wait' = WaitBefore(tries)
  /\ UNCHANGED <<what, chunk, servers, data, files>>

TryAgain ==
  /\ fetch = "backoff"
  /\ fetch' = "get" /\ body' = <<>>
  /\ UNCHANGED <<what, chunk, servers, tries, wait, data, files>>

Fetching(kind) == fetch = "get" /\ what = kind

ChunkBody(raw) ==
  /\ Fetching("chunk")
  /\ body' = raw
  /\ LET decoded == DecodeChunk(raw)
     IN  IF decoded.ok /\ Checks(decoded.out)
         THEN data' = decoded.out /\ FetchEnds("ok") /\ UNCHANGED files
         ELSE NoGood

----------------------------------------------------------------------------
\* ParseManifest: the sections up to the one that says end.

ReadSection(m, section) ==
  IF m.ended \/ ~m.ok THEN m
  ELSE IF section.magic = "end" THEN [m EXCEPT !.ended = TRUE]
  ELSE IF ~section.whole THEN [m EXCEPT !.ok = FALSE]
  ELSE CASE section.magic = "payload"   -> [m EXCEPT !.payload = {section.files}]
         [] section.magic = "metadata"  -> [m EXCEPT !.encrypted = {section.encrypted}]
         [] section.magic = "signature" -> m
         [] OTHER                       -> [m EXCEPT !.ok = FALSE]

NothingRead == [ok |-> TRUE, ended |-> FALSE, payload |-> {}, encrypted |-> {}]

Reading(sections) ==
  LET read[n \in 0 .. Len(sections)] ==
        IF n = 0 THEN NothingRead ELSE ReadSection(read[n - 1], sections[n])
  IN  read

ReadSections(sections) == Reading(sections)[Len(sections)]

\* decryptFilenames and normalizeNames.  A name that is no base64 is <<>> here.

NULbyte   == 0
Slash     == 2
Backslash == 3

TrimNULs(bytes) ==
  SubSeq(bytes, 1, SelectLastInSeq(bytes, LAMBDA b : b # NULbyte))

\* Mutant: a name keeps its Windows separators.
AsWritten(name) == name

Normal(name) == [k \in DOMAIN name |-> IF name[k] = Backslash THEN Slash ELSE name[k]]

DecryptName(enc) == Then(SymmetricDecrypt(enc, DepotKey), LAMBDA out : Good(TrimNULs(out)))

DecryptFile(file) ==
  [name |-> DecryptName(file.name),
   link |-> IF file.link = <<>> THEN Good(<<>>) ELSE DecryptName(file.link)]

PlainFile(file) == [name |-> Good(file.name), link |-> Good(file.link)]

AllOk(list) == \A k \in DOMAIN list : list[k].name.ok /\ list[k].link.ok

Normalized(list) ==
  [k \in DOMAIN list |-> [name |-> Normal(list[k].name.out), link |-> Normal(list[k].link.out)]]

\* FetchManifest: a body that cannot be parsed is asked for again; names that cannot
\* be decrypted, or no key to do it, end the fetch.
ManifestBody(sections) ==
  /\ Fetching("manifest")
  /\ body' = sections
  /\ LET m == ReadSections(sections)
     IN  IF ~m.ok \/ m.payload = {} \/ m.encrypted = {} THEN NoGood
         ELSE LET encrypted == m.encrypted = {TRUE}
                  all       == CHOOSE list \in m.payload : TRUE
                  clear     == [k \in DOMAIN all |-> IF encrypted THEN DecryptFile(all[k])
                                                      ELSE PlainFile(all[k])]
              IN  /\ IF encrypted /\ (DepotKey = NoKey \/ ~AllOk(clear))
                     THEN FetchEnds("failed") /\ UNCHANGED files
                     ELSE FetchEnds("ok") /\ files' = Normalized(clear)
                  /\ UNCHANGED data

----------------------------------------------------------------------------
\* ResolveManifest, with the key of a branch: the id is the first bytes of what its
\* ciphertext stands for.  It has IdLen bytes, where the code has eight.

IdLen == BlockLen \div 2

ReadId(enc) ==
  /\ fetch = "resolve"
  /\ body' = enc
  /\ LET plain == DecryptECB(enc, DepotKey)
     IN  IF plain.ok /\ Len(plain.out) >= IdLen
         THEN data' = SubSeq(plain.out, 1, IdLen) /\ FetchEnds("ok")
         ELSE FetchEnds("failed") /\ UNCHANGED data
  /\ UNCHANGED files

ContentNext ==
  \/ ListServers \/ TryAgain
  \/ \E enc \in Ids : ReadId(enc)
  \/ Fetching("chunk") /\ \E raw \in Bodies : ChunkBody(raw)
  \/ Fetching("manifest") /\ \E sections \in Manifests : ManifestBody(sections)

ContentSpec == ContentInit /\ [][ContentNext]_contentVars

----------------------------------------------------------------------------
\* What is known of the constants.  AES is a permutation of blocks, a byte can be
\* xored away again, a padding fits in a byte, and so do the letters of a container
\* and, as its footer has one byte for it, the length of a chunk.
ASSUME CryptoAssumption ==
  /\ ByteMax \in Nat /\ PK <= ByteMax /\ BlockLen \in 1 .. ByteMax
  /\ \A x, y \in Byte : Xor(x, y) \in Byte /\ Xor(Xor(x, y), y) = x
  /\ \A key \in DOMAIN Decrypt :
       /\ Decrypt[key] \in [Blocks -> Blocks]
       /\ \A b \in Blocks : \E a \in Blocks : Decrypt[key][a] = b
       /\ \A a, b \in Blocks : Decrypt[key][a] = Decrypt[key][b] => a = b
  /\ NoKey \notin DOMAIN Decrypt /\ DepotKey \in DOMAIN Decrypt \cup {NoKey}

ASSUME BodiesAssumption ==
  /\ Bodies \subseteq Seq(Byte) /\ Ids \subseteq Seq(Byte) /\ DOMAIN Inflate \subseteq Seq(Byte)
  /\ \A c \in Chunks : c \in Seq(Byte) /\ Len(c) \in Byte

\* What a name is in clear, for every ciphertext that Steam may make of a name; for
\* other bytes it may be anything.
PlainNames(enc) == UNION {[1 .. size -> Byte] : size \in 0 .. Len(enc) - BlockLen - 1}

IVof(raw) == Decrypt[DepotKey][BlockAt(raw, 1)]

IsClear(enc, clear) ==
  \A plain \in PlainNames(enc) :
    enc = SymmetricEncrypt(plain, DepotKey, IVof(enc)) =>
      LET name == TrimNULs(plain)
      IN  clear = [k \in DOMAIN name |-> IF name[k] = Backslash THEN Slash ELSE name[k]]

SentSections == UNION {{sections[k] : k \in DOMAIN sections} : sections \in Manifests}
SentFiles == UNION {{section.files[k] : k \in DOMAIN section.files} : section \in SentSections}

ASSUME ManifestsAssumption ==
  /\ Manifests \subseteq Seq(SentSections)
  /\ \A section \in SentSections :
       section.whole \in BOOLEAN /\ section.encrypted \in BOOLEAN /\ section.files \in Seq(SentFiles)
  /\ DepotKey # NoKey =>
       \A file \in SentFiles :
         /\ file.clear = [name |-> file.clear.name, link |-> file.clear.link]
         /\ file.name \in Seq(Byte) /\ IsClear(file.name, file.clear.name)
         /\ IF file.link = <<>> THEN file.clear.link = <<>>
            ELSE file.link \in Seq(Byte) /\ IsClear(file.link, file.clear.link)

----------------------------------------------------------------------------
\* Every variable has its type, and a backoff is no shorter than c.Backoff and no
\* longer than ten times that.
ContentTypeOK ==
  /\ what \in {"chunk", "manifest", "id"}
  /\ fetch \in {"servers", "get", "backoff", "resolve", "ok", "failed"}
  /\ \A k \in DOMAIN servers : Usable(servers[k])
  /\ tries \in 0 .. ExtraSweeps
  /\ wait \in {0} \cup Backoff .. 10 * Backoff
  /\ what # "id" /\ fetch \in {"get", "ok"} => servers # <<>>

\* The bodies that are the chunk, in any container, with the IV of this one.
Containers ==
  UNION {{<<VSZ>> \o b \o <<Len(chunk)>>, <<VZ>> \o b \o <<Len(chunk)>>, <<PK>> \o b} :
           b \in {x \in DOMAIN Inflate : Inflate[x] = chunk}}

RightBodies ==
  {SymmetricEncrypt(c, DepotKey, IVof(body)) : c \in Containers}

\* An id as Steam encrypts it.
Sealed(id) ==
  LET p == Padded(id)
  IN  Joined([n \in 1 .. BlocksIn(p) |-> Encrypt(DepotKey, BlockAt(p, n))])

\* A chunk that is returned is the chunk that was asked for, whatever bytes a server
\* sends; and a body that holds it, however it is compressed and padded, is accepted.
\* The id of a locked branch's manifest is the one Steam encrypted, and nothing that is
\* no whole number of blocks is an id (chunk.go:19-166, steamcrypto.go:13-61,
\* session.go:303-314).
BytesAsMeant ==
  /\ fetch = "ok" => /\ what = "chunk" => data = chunk
                     /\ what = "id" => Whole(body)
  /\ DepotKey # NoKey =>
       /\ what = "chunk" /\ Len(body) >= BlockLen => (body \in RightBodies => fetch = "ok")
       /\ what = "id" /\ fetch # "resolve" =>
            \A id \in [1 .. IdLen -> Byte] : body = Sealed(id) => fetch = "ok" /\ data = id

\* A manifest that is returned has the files of its last payload, every name and link
\* in clear and with forward slashes, or it is not returned at all: not without its
\* metadata, not with sections cut short, not with some names decrypted and others
\* not (manifest.go:108-226).
ManifestInClear ==
  what = "manifest" /\ fetch = "ok" =>
    LET ends == {k \in DOMAIN body : body[k].magic = "end"}
        read == {k \in DOMAIN body : \A e \in ends : k < e}
        of(magic) == {k \in read : body[k].magic = magic}
        last(magic) == body[CHOOSE k \in of(magic) : \A j \in of(magic) : j <= k]
        sent == last("payload").files
        clear(file) == IF last("metadata").encrypted THEN file.clear
                       ELSE [name |-> Normal(file.name), link |-> Normal(file.link)]
    IN  /\ of("payload") # {} /\ of("metadata") # {}
        /\ \A k \in read : body[k].whole
        /\ files = [k \in DOMAIN sent |-> clear(sent[k])]
============================================================================
