------------------------------- MODULE Compress -------------------------------
(***************************************************************************)
(* The zlib wrappers of src/src/components/io/compress.cpp, called one at  *)
(* a time by a host thread: compress_file, decompress_file, compress_folder *)
(* (POSIX branch) and create_zip.  A file's data is a sequence of blocks,  *)
(* one per CHUNK-sized read.  A gzip file is its data and whether its      *)
(* stream was finished (trailer written): a reader gets all of a finished  *)
(* stream, and of an unfinished one the part that reached the disk, then   *)
(* gzread returns 0 or -1.  Every open, write and close may fail.          *)
(***************************************************************************)
EXTENDS Integers, Sequences, SequencesExt

CONSTANTS
  Blocks,     \* values of a block of file data (positive integers)
  MaxBlocks,  \* bound on the blocks of the input file
  Folders,    \* the folders the program may be given, as readdir lists them
  MaxCalls,   \* bound on the calls the host makes
  NoFile,     \* a path with no file
  Unreadable, \* a folder entry that exists but fopen refuses
  SubDir      \* an empty subdirectory

SubArchive == 0             \* the bytes of that subdirectory's .gz, read as a plain file
SubGz == <<SubArchive>>     \* the folder entry compress_folder(subdir) creates

VARIABLES
  src,      \* the input file of compress_file, or NoFile
  gz,       \* its .gz, written by compress_file and read by decompress_file
  out,      \* decompress_file's output file
  folder,   \* the entries of the folder, in readdir order
  dirgz,    \* compress_folder's <folder>.gz
  zip,      \* create_zip's output
  pc,       \* which function the host thread is in, and where
  todo,     \* the folder entries the running call has yet to visit
  cur,      \* the blocks the running call has yet to read from its input
  eof,      \* the ifstream being read has its eofbit set
  finished, \* create_zip: deflate(Z_FINISH) has ended the stream
  calls,    \* calls made
  compressed,   \* history: the last compress_file returned true
  decompressed, \* history: decompress_file returned true since then
  extracted,    \* extract_zip's output folder: file k is "<total_in>.txt" after the k-th read
  nread         \* extract_zip: reads of the zip file so far

extractVars == <<extracted, nread>>
vars == <<src, gz, out, folder, dirgz, zip, pc, todo, cur, eof, finished,
          calls, compressed, decompressed, extracted, nread>>

Data == Blocks \cup {SubArchive}
Archive == [data : Seq(Data), complete : BOOLEAN]
Entry == Seq(Data) \cup {Unreadable, SubDir}

NewStream == [data |-> <<>>, complete |-> FALSE]
EmptyArchive == [data |-> <<>>, complete |-> TRUE]

\* What gzread hands over before it returns 0 or -1.
Readable(a) == IF a.complete THEN {a.data} ELSE Prefixes(a.data)

Put(a, b) == [a EXCEPT !.data = Append(@, b)]

\* The folder after compress_folder(subdir) created <folder>/subdir.gz.
WithSubGz(f) == IF Contains(f, SubGz) THEN f ELSE Append(f, SubGz)

Call == pc = "idle" /\ calls < MaxCalls /\ calls' = calls + 1

-----------------------------------------------------------------------------
Init ==
  /\ src \in SeqOf(Blocks, MaxBlocks) \cup {NoFile}
  /\ gz = NoFile /\ out = NoFile /\ dirgz = NoFile /\ zip = NoFile
  /\ folder \in Folders
  /\ pc = "idle" /\ todo = <<>> /\ cur = <<>> /\ eof = FALSE
  /\ finished = FALSE
  /\ calls = 0 /\ compressed = FALSE /\ decompressed = FALSE
  /\ extracted = [k \in 1..MaxBlocks |-> <<>>] /\ nread = 0

\* Mutant of CompressBegin: a failed gzopen does not return.
CompressBeginNoReturn ==
  /\ Call
  /\ compressed' = FALSE /\ decompressed' = FALSE
  /\ \/ src = NoFile /\ UNCHANGED <<gz, pc, cur, eof>>
     \/ src # NoFile /\ pc' = "compress" /\ cur' = src /\ eof' = FALSE
        /\ UNCHANGED gz
     \/ src # NoFile /\ gz' = EmptyArchive /\ UNCHANGED <<pc, cur, eof>>
     \/ src # NoFile /\ gz' = NewStream
        /\ pc' = "compress" /\ cur' = src /\ eof' = FALSE
  /\ UNCHANGED <<src, out, folder, dirgz, zip, todo, finished>>
  /\ UNCHANGED extractVars

\* compress_file (lines 54-77): a missing input or a failed gzopen returns
\* false; gzopen "wb" truncates the .gz, and when the ifstream then fails
\* gzclose leaves a finished, empty stream behind.
CompressBegin ==
  /\ Call
  /\ compressed' = FALSE /\ decompressed' = FALSE
  /\ \/ src = NoFile /\ UNCHANGED <<gz, pc, cur, eof>>
     \/ src # NoFile /\ UNCHANGED <<gz, pc, cur, eof>>
     \/ src # NoFile /\ gz' = EmptyArchive /\ UNCHANGED <<pc, cur, eof>>
     \/ src # NoFile /\ gz' = NewStream
        /\ pc' = "compress" /\ cur' = src /\ eof' = FALSE
  /\ UNCHANGED <<src, out, folder, dirgz, zip, todo, finished>>
  /\ UNCHANGED extractVars

\* Mutant of CompressStep: gzwrite is given CHUNK, not gcount(), so the
\* final empty read writes the previous block again.
CompressStepIgnoreCount ==
  /\ pc = "compress" /\ ~eof
  /\ \/ /\ cur = <<>>
        /\ eof' = TRUE
        /\ gz' = IF src # <<>> THEN Put(gz, src[Len(src)]) ELSE gz
        /\ UNCHANGED <<pc, cur>>
     \/ /\ cur # <<>>
        /\ eof' \in IF Len(cur) = 1 THEN BOOLEAN ELSE {FALSE}
        /\ cur' = Tail(cur)
        /\ \/ gz' = Put(gz, Head(cur)) /\ UNCHANGED pc
           \/ pc' = "idle" /\ UNCHANGED gz
     \/ /\ cur # <<>>
        /\ pc' = "compressSpin"
        /\ UNCHANGED <<gz, cur, eof>>
  /\ UNCHANGED <<src, out, folder, dirgz, zip, todo, finished, calls,
                 compressed, decompressed>>
  /\ UNCHANGED extractVars

\* Lines 80-92: in.read of the next block; a short read sets eofbit, so a
\* file whose size is a multiple of CHUNK ends with an empty read, whose
\* gzwrite of 0 bytes succeeds.  A failed gzwrite leaves the stream in
\* error, gzclose writes no trailer, and false is returned.  A read that
\* fails without reaching the end of the file sets failbit, not eofbit.
CompressStep ==
  /\ pc = "compress" /\ ~eof
  /\ \/ /\ cur = <<>>
        /\ eof' = TRUE
        /\ UNCHANGED <<gz, pc, cur>>
     \/ /\ cur # <<>>
        /\ eof' \in IF Len(cur) = 1 THEN BOOLEAN ELSE {FALSE}
        /\ cur' = Tail(cur)
        /\ \/ gz' = Put(gz, Head(cur)) /\ UNCHANGED pc
           \/ pc' = "idle" /\ UNCHANGED gz
     \/ /\ cur # <<>>
        /\ pc' = "compressSpin"
        /\ UNCHANGED <<gz, cur, eof>>
  /\ UNCHANGED <<src, out, folder, dirgz, zip, todo, finished, calls,
                 compressed, decompressed>>
  /\ UNCHANGED extractVars

\* After a failed read every in.read fails again, gcount() is 0 and
\* gzwrite of 0 bytes succeeds; eofbit is never set, so while (!in.eof())
\* (line 80) loops for good and compress_file does not return.
CompressSpin ==
  /\ pc = "compressSpin"
  /\ UNCHANGED vars

\* Lines 94-97: gzclose flushes and writes the trailer, its result is not
\* looked at, and true is returned.
CompressEnd ==
  /\ pc = "compress" /\ eof
  /\ \/ gz' = [gz EXCEPT !.complete = TRUE]
     \/ UNCHANGED gz
  /\ pc' = "idle"
  /\ compressed' = TRUE
  /\ UNCHANGED <<src, out, folder, dirgz, zip, todo, cur, eof, finished,
                 calls, decompressed>>
  /\ UNCHANGED extractVars

\* decompress_file (lines 100-123): a missing .gz or a failed fopen of the
\* output returns false; fopen "wb" truncates the output, and a failed
\* gzopen closes it and returns false.
DecompressBegin ==
  /\ Call
  /\ decompressed' = FALSE
  /\ \/ gz = NoFile /\ UNCHANGED <<out, pc, cur>>
     \/ gz # NoFile /\ UNCHANGED <<out, pc, cur>>
     \/ gz # NoFile /\ out' = <<>> /\ UNCHANGED <<pc, cur>>
     \/ gz # NoFile /\ out' = <<>> /\ pc' = "decompress"
        /\ cur' \in Readable(gz)
  /\ UNCHANGED <<src, gz, folder, dirgz, zip, todo, eof, finished,
                 compressed>>
  /\ UNCHANGED extractVars

\* Lines 127-136: each gzread > 0 is fwritten; a short fwrite closes both
\* files and returns false.
DecompressStep ==
  /\ pc = "decompress" /\ cur # <<>>
  /\ cur' = Tail(cur)
  /\ \/ out' = Append(out, Head(cur)) /\ UNCHANGED pc
     \/ pc' = "idle" /\ UNCHANGED out
  /\ UNCHANGED <<src, gz, folder, dirgz, zip, todo, eof, finished, calls,
                 compressed, decompressed>>
  /\ UNCHANGED extractVars

\* Lines 127, 138-141: gzread returned 0 at the end of the stream, or -1
\* when it ended early: either way the loop stops.  fclose may lose what
\* stdio still buffered; its result is not looked at, and true is returned.
DecompressEnd ==
  /\ pc = "decompress" /\ cur = <<>>
  /\ out' \in Prefixes(out)
  /\ pc' = "idle"
  /\ decompressed' = TRUE
  /\ UNCHANGED <<src, gz, folder, dirgz, zip, todo, cur, eof, finished,
                 calls, compressed>>
  /\ UNCHANGED extractVars

\* compress_folder (lines 144-154, 217-225): <folder>.gz is opened next to
\* the folder; when opendir fails gzclose leaves a finished, empty stream.
FolderBegin ==
  /\ Call
  /\ \/ UNCHANGED <<dirgz, pc, todo>>
     \/ dirgz' = EmptyArchive /\ UNCHANGED <<pc, todo>>
     \/ dirgz' = NewStream /\ pc' = "folder" /\ todo' = folder
  /\ UNCHANGED <<src, gz, out, folder, zip, cur, eof, finished,
                 compressed, decompressed>>
  /\ UNCHANGED extractVars

\* Lines 226-266, the next readdir entry.  A subdirectory is compressed by
\* the recursive call into <folder>/subdir.gz, inside the folder being
\* read: readdir may or may not list that new entry later (POSIX leaves it
\* open).  When the recursive call fails, gzclose finishes the stream and
\* false is returned.  A file fopen refuses is skipped.
FolderEntry ==
  /\ pc = "folder" /\ todo # <<>>
  /\ LET e == Head(todo) IN
     \/ /\ e = SubDir
        /\ folder' = WithSubGz(folder)
        /\ \/ todo' = Tail(todo)
           \/ ~Contains(folder, SubGz) /\ todo' = Append(Tail(todo), SubGz)
        /\ UNCHANGED <<dirgz, pc, cur>>
     \/ /\ e = SubDir
        /\ folder' \in {folder, WithSubGz(folder)}
        /\ dirgz' = [dirgz EXCEPT !.complete = TRUE]
        /\ pc' = "idle"
        /\ UNCHANGED <<todo, cur>>
     \/ /\ e = Unreadable
        /\ todo' = Tail(todo)
        /\ UNCHANGED <<folder, dirgz, pc, cur>>
     \/ /\ e \in Seq(Data)
        /\ todo' = Tail(todo)
        /\ cur' = e
        /\ pc' = "folderFile"
        /\ UNCHANGED <<folder, dirgz>>
  /\ UNCHANGED <<src, gz, out, zip, eof, finished, calls, compressed,
                 decompressed>>
  /\ UNCHANGED extractVars

\* Lines 267-280: fread blocks until it returns 0, gzwrite each; a failed
\* gzwrite leaves the stream in error and returns false.
FolderRead ==
  /\ pc = "folderFile"
  /\ \/ /\ cur = <<>>
        /\ pc' = "folder"
        /\ UNCHANGED <<dirgz, cur>>
     \/ /\ cur # <<>>
        /\ cur' = Tail(cur)
        /\ \/ dirgz' = Put(dirgz, Head(cur)) /\ UNCHANGED pc
           \/ pc' = "idle" /\ UNCHANGED dirgz
  /\ UNCHANGED <<src, gz, out, folder, zip, todo, eof, finished, calls,
                 compressed, decompressed>>
  /\ UNCHANGED extractVars

\* Lines 282-286: readdir is done; gzclose's result is not looked at and
\* true is returned.
FolderEnd ==
  /\ pc = "folder" /\ todo = <<>>
  /\ \/ dirgz' = [dirgz EXCEPT !.complete = TRUE]
     \/ UNCHANGED dirgz
  /\ pc' = "idle"
  /\ UNCHANGED <<src, gz, out, folder, zip, todo, cur, eof, finished, calls,
                 compressed, decompressed>>
  /\ UNCHANGED extractVars

\* create_zip (lines 353-383): the ofstream truncates the zip file; a failed
\* deflateInit2 returns false.  The regular files are listed first; the
\* subdirectory is empty, so only its .gz is one.
ZipBegin ==
  /\ Call
  /\ \/ UNCHANGED <<zip, pc, todo, finished>>
     \/ zip' = NewStream /\ UNCHANGED <<pc, todo, finished>>
     \/ /\ zip' = NewStream
        /\ pc' = "zip"
        /\ todo' = SelectSeq(folder, LAMBDA e : e # SubDir)
        /\ finished' = FALSE
  /\ UNCHANGED <<src, gz, out, folder, dirgz, cur, eof, compressed,
                 decompressed>>
  /\ UNCHANGED extractVars

\* Lines 385-392: the next file; one the ifstream cannot open is skipped.
ZipOpen ==
  /\ pc = "zip" /\ todo # <<>>
  /\ todo' = Tail(todo)
  /\ \/ Head(todo) = Unreadable /\ UNCHANGED <<pc, cur, eof>>
     \/ Head(todo) # Unreadable /\ cur' = Head(todo) /\ eof' = FALSE
        /\ pc' = "zipFile"
  /\ UNCHANGED <<src, gz, out, folder, dirgz, zip, finished, calls,
                 compressed, decompressed>>
  /\ UNCHANGED extractVars

\* Lines 394-423: while the ifstream is good, read a block (eofbit as in
\* compress_file) and deflate it with Z_FINISH.  The first call ends the
\* gzip stream with that block; every later one gets Z_BUF_ERROR, which is
\* not Z_STREAM_ERROR, and its input is dropped.
ZipRead ==
  /\ pc = "zipFile"
  /\ \/ /\ eof
        /\ pc' = "zip"
        /\ UNCHANGED <<cur, eof, zip, finished>>
     \/ /\ ~eof
        /\ \/ cur = <<>> /\ eof' = TRUE /\ UNCHANGED cur
           \/ /\ cur # <<>>
              /\ eof' \in IF Len(cur) = 1 THEN BOOLEAN ELSE {FALSE}
              /\ cur' = Tail(cur)
        /\ finished' = TRUE
        /\ zip' = IF finished THEN zip
                  ELSE [data |-> IF cur = <<>> THEN <<>> ELSE <<Head(cur)>>,
                        complete |-> TRUE]
        /\ UNCHANGED pc
  /\ UNCHANGED <<src, gz, out, folder, dirgz, todo, calls, compressed,
                 decompressed>>
  /\ UNCHANGED extractVars

\* Lines 426-427: deflateEnd, and true is returned.
ZipEnd ==
  /\ pc = "zip" /\ todo = <<>>
  /\ pc' = "idle"
  /\ UNCHANGED <<src, gz, out, folder, dirgz, zip, todo, cur, eof, finished,
                 calls, compressed, decompressed>>
  /\ UNCHANGED extractVars

\* extract_zip (lines 289-312): a zip file the ifstream cannot open, or a
\* failed inflateInit2, returns false.  The gzip stream is read in 8192
\* byte pieces; a block's compressed bytes and the stream's header and
\* trailer come in one piece with it.
ExtractBegin ==
  /\ Call
  /\ \/ zip = NoFile /\ UNCHANGED <<pc, cur, nread>>
     \/ zip # NoFile /\ UNCHANGED <<pc, cur, nread>>
     \/ zip # NoFile /\ pc' = "extract" /\ cur' \in Readable(zip) /\ nread' = 0
  /\ UNCHANGED <<src, gz, out, folder, dirgz, zip, todo, eof, finished,
                 compressed, decompressed, extracted>>

\* Lines 314-347: the next piece; what inflate makes of it is appended
\* (std::ios::app) to "<total_in>.txt", named by the compressed bytes read
\* so far, so a second extraction into the folder appends to the files of
\* the first.
ExtractStep ==
  /\ pc = "extract" /\ cur # <<>>
  /\ nread' = nread + 1
  /\ extracted' = [extracted EXCEPT ![nread + 1] = Append(@, Head(cur))]
  /\ cur' = Tail(cur)
  /\ UNCHANGED <<src, gz, out, folder, dirgz, zip, pc, todo, eof, finished,
                 calls, compressed, decompressed>>

\* Lines 316-321, 349-350: a read of 0 bytes ends the loop, also when the
\* stream ended early; inflateEnd, and true is returned.
ExtractEnd ==
  /\ pc = "extract" /\ cur = <<>>
  /\ pc' = "idle"
  /\ UNCHANGED <<src, gz, out, folder, dirgz, zip, todo, cur, eof, finished,
                 calls, compressed, decompressed, extracted, nread>>

Next ==
  \/ CompressBegin \/ CompressStep \/ CompressSpin \/ CompressEnd
  \/ DecompressBegin \/ DecompressStep \/ DecompressEnd
  \/ FolderBegin \/ FolderEntry \/ FolderRead \/ FolderEnd
  \/ ZipBegin \/ ZipOpen \/ ZipRead \/ ZipEnd
  \/ ExtractBegin \/ ExtractStep \/ ExtractEnd

Spec == Init /\ [][Next]_vars

-----------------------------------------------------------------------------
\* Besides the types: a .gz being written by compress_file is the stream
\* its gzopen "wb" started, not an earlier one.
TypeOK ==
  /\ src \in Seq(Blocks) \cup {NoFile}
  /\ gz \in Archive \cup {NoFile}
  /\ out \in Seq(Data) \cup {NoFile}
  /\ folder \in Seq(Entry)
  /\ dirgz \in Archive \cup {NoFile}
  /\ zip \in Archive \cup {NoFile}
  /\ pc \in {"idle", "compress", "compressSpin", "decompress", "folder",
             "folderFile", "zip", "zipFile", "extract"}
  /\ todo \in Seq(Entry) /\ cur \in Seq(Data)
  /\ eof \in BOOLEAN /\ finished \in BOOLEAN
  /\ calls \in 0..MaxCalls
  /\ compressed \in BOOLEAN /\ decompressed \in BOOLEAN
  /\ extracted \in [1..MaxBlocks -> Seq(Data)] /\ nread \in 0..MaxBlocks
  /\ pc \in {"compress", "compressSpin"} => gz # NoFile /\ ~gz.complete

\* Whatever fails along the way, compress_file and decompress_file only
\* ever lose a tail of the data: the .gz and the decompressed file hold a
\* prefix of the input file, never a block twice or out of order, across
\* any number of calls (lines 80-92, 127-136).
OnlyTailsLost ==
  /\ gz # NoFile => IsPrefix(gz.data, src)
  /\ out # NoFile => IsPrefix(out, src)

\* The messages "Compressed file X -> Y" and "Decompressed file Y -> Z"
\* with true returned by both: Z then holds X (lines 94-97, 138-141).
RoundTrip == (pc = "idle" /\ compressed /\ decompressed) => out = src

=============================================================================
