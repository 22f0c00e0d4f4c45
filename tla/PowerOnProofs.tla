----------------------------- MODULE PowerOnProofs -----------------------------
(***************************************************************************)
(* Theorems about PowerOn, and with it about Boot and Loader: for every    *)
(* image and size of word, every device tree, every layout of memory.      *)
(***************************************************************************)
EXTENDS PowerOn, SequenceTheorems, WellFoundedInduction, TLAPS
-------------------------------------------------------------------------------
(* The inductive invariant of the upload *)

Messages == {"prompt", "ready", "start", "done", "bad_magic", "bad_size"}
LoaderTypes ==
    /\ host \in {"idle", "prompt", "ready", "start", "done", "finished"}
    /\ loader \in {"line", "magic", "size", "data", "booted", "entered"}
    /\ to_loader \in Seq(Bytes) /\ to_host \in Seq(Messages)
    /\ line \in Seq(Bytes) /\ word \in Seq(Bytes)
    /\ kernel_size \in 0 .. KernelMaxSize /\ received \in Nat
    /\ image \in [0 .. KernelMaxSize - 1 -> Bytes]

\* What the loader has read so far of a line, a word or an image.
Parsing ==
    /\ loader # "line" => line = <<>>
    /\ loader \in {"magic", "size"} => Len(word) < WordSize
    /\ loader \notin {"magic", "size"} => word = <<>>
    /\ loader = "data" => received < kernel_size

\* The line never holds more than the loader is going to read as what it reads now: an attempt
\* that fails leaves no bytes of an image that a later one could take for a command.
NoSurplus ==
    host # "finished" =>
        /\ loader \notin {"booted", "entered"}
        /\ loader \in {"line", "magic"} => Len(word) + Len(to_loader) <= 2 * WordSize
        /\ loader = "size" => Len(word) + Len(to_loader) <= WordSize
        /\ loader = "data" => received + Len(to_loader) <= kernel_size

\* So the command to boot is not among what is read as a line.
NoBoot ==
    host # "finished" =>
        /\ \A j \in 1 .. Len(line) : line[j] # BootByte
        /\ loader = "line" => \A j \in 1 .. Len(to_loader) : to_loader[j] # BootByte
        /\ loader = "magic" =>
              \A j \in 1 .. Len(to_loader) : Len(word) + j > WordSize => to_loader[j] # BootByte

\* A message is among the answers, and only as the last one.
Told(message) == \E j \in 1 .. Len(to_host) : to_host[j] = message
ToldLast(message) == \A j \in 1 .. Len(to_host) : to_host[j] = message => j = Len(to_host)

\* What an answer the host waits for tells it about the loader, phase by phase.
Prompting ==
    host = "prompt" =>
        \/ to_host = <<>> /\ Len(to_loader) <= 1 /\ \A j \in 1 .. Len(to_loader) : to_loader[j] = Newline
        \/ /\ to_loader = <<>> /\ ToldLast("prompt")
           /\ Told("prompt") => loader = "line" /\ line = <<>>
Readying ==
    host = "ready" =>
        \/ /\ loader = "line" /\ ~Told("ready")
           /\ \A j \in 1 .. Len(to_loader) - 1 : Getc(to_loader[j]) # Newline
        \/ loader = "magic" /\ word = <<>> /\ to_loader = <<>> /\ ToldLast("ready")

\* The header reaches the loader complete, or too short for it to go on.
Words == Magic \o SizeWord
Whole(n) == /\ n + Len(word) + Len(to_loader) = 2 * WordSize
            /\ \A j \in 1 .. Len(word) : word[j] = Words[n + j]
            /\ \A j \in 1 .. Len(to_loader) : to_loader[j] = Words[n + Len(word) + j]
Starting ==
    host = "start" =>
        \/ /\ ~Told("start")
           /\ \/ loader = "line"
              \/ loader = "magic" /\ (Whole(0) \/ Len(word) + Len(to_loader) < 2 * WordSize)
              \/ loader = "size" /\ (Whole(WordSize) \/ Len(word) + Len(to_loader) < WordSize)
        \/ /\ loader = "data" /\ received = 0 /\ kernel_size = Len(Kernel)
           /\ to_loader = <<>> /\ ToldLast("start")

\* The same of the image.
Loaded == kernel_size = Len(Kernel) /\ \A i \in 1 .. Len(Kernel) : image[i - 1] = Kernel[i]
SoFar == /\ \A i \in 1 .. received : image[i - 1] = Kernel[i]
         /\ \A j \in 1 .. Len(to_loader) : to_loader[j] = Kernel[received + j]
Finishing ==
    host = "done" =>
        \/ /\ ~Told("done") /\ loader = "data" /\ kernel_size = Len(Kernel)
           /\ received + Len(to_loader) = Len(Kernel) => SoFar
        \/ loader = "line" /\ line = <<>> /\ to_loader = <<>> /\ Loaded
Finished ==
    host = "finished" =>
        /\ Loaded /\ loader \in {"line", "booted", "entered"}
        /\ \A j \in 1 .. Len(line) : line[j] # UploadByte
        /\ \A j \in 1 .. Len(to_loader) : to_loader[j] # UploadByte

Entered == loader = "entered" => to_loader = <<>>

LoaderInv == /\ LoaderTypes /\ Parsing /\ NoSurplus /\ NoBoot
             /\ Prompting /\ Readying /\ Starting /\ Finishing /\ Finished /\ Entered
-------------------------------------------------------------------------------
(* Sequences *)

\* Reading the first element of a sequence.
LEMMA HeadTail ==
    ASSUME NEW S, NEW q \in Seq(S), q # <<>>
    PROVE  /\ Len(q) \in Nat \ {0} /\ Head(q) = q[1] /\ q[1] \in S
           /\ Tail(q) \in Seq(S) /\ Len(Tail(q)) = Len(q) - 1
           /\ \A j \in 1 .. Len(q) - 1 : Tail(q)[j] = q[j + 1]
  OBVIOUS

\* A sequence without one of its elements.
Dropped(q, i) == SubSeq(q, 1, i - 1) \o SubSeq(q, i + 1, Len(q))

\* What is left of a sequence without an element.
Left(q, r) == /\ Len(r) = Len(q) - 1
              /\ \A j \in 1 .. Len(r) : r[j] = q[j] \/ r[j] = q[j + 1]

\* The others keep their order.
LEMMA Shortened ==
    ASSUME NEW S, NEW q \in Seq(S), NEW i \in 1 .. Len(q), NEW r,
           r = Dropped(q, i)
    PROVE  r \in Seq(S) /\ Left(q, r)
<1> DEFINE a == SubSeq(q, 1, i - 1)
           b == SubSeq(q, i + 1, Len(q))
<1>1. /\ a \in Seq(S) /\ Len(a) = i - 1 /\ \A j \in 1 .. i - 1 : a[j] = q[j]
  OBVIOUS
<1>2. /\ b \in Seq(S) /\ Len(b) = Len(q) - i /\ \A j \in 1 .. Len(q) - i : b[j] = q[i + j]
  OBVIOUS
<1> HIDE DEF a, b
<1>3. /\ a \o b \in Seq(S) /\ Len(a \o b) = Len(a) + Len(b)
      /\ \A j \in 1 .. Len(a) + Len(b) : (a \o b)[j] = IF j <= Len(a) THEN a[j] ELSE b[j - Len(a)]
  BY <1>1, <1>2, ConcatProperties
<1>4. r = a \o b
  BY DEF a, b, Dropped
<1>5. ASSUME NEW j \in 1 .. Len(r), ~(j < i)
      PROVE  r[j] = q[j + 1]
  <2> DEFINE n == j - (i - 1)
  <2>0. /\ Len(q) \in Nat /\ Len(a) = i - 1 /\ Len(b) = Len(q) - i
        /\ Len(r) = (i - 1) + (Len(q) - i)
    BY ONLY <1>1, <1>2, <1>3, <1>4, q \in Seq(S), LenProperties
  <2>1. n \in 1 .. Len(q) - i /\ i + n = j + 1 /\ j \in 1 .. Len(a) + Len(b) /\ ~(j <= Len(a))
        /\ j - Len(a) = n
    BY ONLY <2>0, <1>5, i \in 1 .. Len(q), j \in 1 .. Len(r)
  <2>2. r[j] = b[n]
    BY <1>3, <1>4, <2>1
  <2> HIDE DEF n
  <2>3. b[n] = q[i + n]
    BY <1>2, <2>1
  <2> QED BY <2>1, <2>2, <2>3
<1>6. ASSUME NEW j \in 1 .. Len(r), j < i
      PROVE  r[j] = q[j]
  <2>0. /\ Len(q) \in Nat /\ Len(a) = i - 1 /\ Len(b) = Len(q) - i
        /\ Len(r) = (i - 1) + (Len(q) - i)
    BY ONLY <1>1, <1>2, <1>3, <1>4, q \in Seq(S), LenProperties
  <2>1. j \in 1 .. i - 1 /\ j \in 1 .. Len(a) + Len(b) /\ j <= Len(a)
    BY ONLY <2>0, <1>6, i \in 1 .. Len(q), j \in 1 .. Len(r)
  <2>2. r[j] = a[j]
    BY <1>3, <1>4, <2>1
  <2> QED BY <1>1, <2>1, <2>2
<1>7. r \in Seq(S) /\ Len(r) = Len(q) - 1
  <2>1. Len(q) \in Nat
    OBVIOUS
  <2>2. /\ r \in Seq(S) /\ Len(r) = Len(a) + Len(b)
        /\ Len(a) = i - 1 /\ Len(b) = Len(q) - i
    BY ONLY <1>1, <1>2, <1>3, <1>4
  <2> QED BY ONLY <2>1, <2>2, i \in 1 .. Len(q)
<1> QED BY <1>5, <1>6, <1>7 DEF Left

\* What is left of a list of answers whose first one came last: nothing.
LEMMA NothingLeft ==
    ASSUME NEW S, NEW q \in Seq(S), q # <<>>, \A j \in 1 .. Len(q) : q[j] = Head(q) => j = Len(q),
           NEW r \in SuffixesOf(Tail(q))
    PROVE  r = <<>>
<1>1. Len(q) = 1 /\ Tail(q) = <<>>
  <2>1. 1 \in 1 .. Len(q) /\ q[1] = Head(q)
    BY HeadTail
  <2>2. Len(q) = 1
    BY <2>1
  <2>3. Tail(q) \in Seq(S) /\ Len(Tail(q)) = 0
    BY <2>2, HeadTail
  <2>4. Tail(q) = <<>>
    BY ONLY <2>3, EmptySeq
  <2> QED BY <2>2, <2>4
<1>2. PICK i \in 1 .. Len(<<>>) + 1 : r = SubSeq(<<>>, i, Len(<<>>))
  BY <1>1 DEF SuffixesOf
<1>3. Len(<<>>) = 0
  OBVIOUS
<1> QED BY <1>2, <1>3

\* What is left of any list is one.
LEMMA SomeLeft ==
    ASSUME NEW S, NEW q \in Seq(S), NEW r \in SuffixesOf(q)
    PROVE  r \in Seq(S)
<1>1. PICK i \in 1 .. Len(q) + 1 : r = SubSeq(q, i, Len(q))
  BY DEF SuffixesOf
<1>2. i \in Int /\ Len(q) \in Int /\ \A j \in i .. Len(q) : q[j] \in S
  <2>1. Len(q) \in Nat /\ \A j \in 1 .. Len(q) : q[j] \in S
    BY LenProperties
  <2> QED BY <2>1
<1>3. SubSeq(q, i, Len(q)) \in Seq(S)
  BY <1>2, SubSeqProperties
<1> QED BY <1>1, <1>3

\* A list without its last element.
LEMMA WithoutLast ==
    ASSUME NEW S, NEW names \in Seq(S), names # <<>>
    PROVE  LET shorter == SubSeq(names, 1, Len(names) - 1)
           IN /\ Len(names) \in Nat \ {0} /\ shorter \in Seq(S) /\ Len(shorter) = Len(names) - 1
              /\ \A k \in 1 .. Len(names) - 1 : shorter[k] = names[k]
<1> DEFINE shorter == SubSeq(names, 1, Len(names) - 1)
<1>1. Len(names) \in Nat \ {0}
  OBVIOUS
<1> DEFINE len == Len(names)
           last == len - 1
<1>2. len \in Nat \ {0} /\ 1 \in 1 .. len + 1 /\ last \in 1 - 1 .. len /\ last - 1 + 1 = last
  BY <1>1
<1> HIDE DEF last
<1>3. shorter \in Seq(S) /\ Len(shorter) = last /\ \A k \in 1 .. last : shorter[k] = names[1 + k - 1]
  BY <1>2, SubSeqProperties DEF last
<1>4. \A k \in 1 .. last : 1 + k - 1 = k
  BY <1>2
<1> QED BY <1>1, <1>3, <1>4 DEF last

\* The two words of a header.
LEMMA WordFacts ==
    /\ WordSize \in Nat \ {0} /\ Words \in Seq(Bytes) /\ Len(Words) = 2 * WordSize
    /\ Magic \in Seq(Bytes) /\ Len(Magic) = WordSize
    /\ SizeWord \in Seq(Bytes) /\ Len(SizeWord) = WordSize
    /\ \A j \in 1 .. WordSize : Words[j] = Magic[j] /\ Words[WordSize + j] = SizeWord[j]
    /\ \A j \in 1 .. WordSize : SizeWord[j] # BootByte
<1>1. /\ WordSize \in Nat \ {0} /\ Magic \in [1 .. WordSize -> Bytes]
      /\ SizeWord \in [1 .. WordSize -> Bytes \ {BootByte}]
  BY WordAssumption
<1>2. /\ Magic \in Seq(Bytes) /\ Len(Magic) = WordSize
      /\ SizeWord \in Seq(Bytes) /\ Len(SizeWord) = WordSize
      /\ \A j \in 1 .. WordSize : SizeWord[j] # BootByte
  BY <1>1
<1>3. /\ Words \in Seq(Bytes) /\ Len(Words) = WordSize + WordSize
      /\ \A j \in 1 .. WordSize + WordSize :
            Words[j] = IF j <= WordSize THEN Magic[j] ELSE SizeWord[j - WordSize]
  BY <1>1, <1>2 DEF Words
<1>4. ASSUME NEW j \in 1 .. WordSize
      PROVE  Words[j] = Magic[j] /\ Words[WordSize + j] = SizeWord[j]
  <2>1. /\ j \in 1 .. WordSize + WordSize /\ j <= WordSize /\ WordSize + j \in 1 .. WordSize + WordSize
        /\ ~(WordSize + j <= WordSize) /\ (WordSize + j) - WordSize = j
    BY <1>1
  <2> QED BY <1>3, <2>1
<1> QED BY <1>1, <1>2, <1>3, <1>4
-------------------------------------------------------------------------------
(* The steps of the upload *)

\* The state that shell_run starts in.
LEMMA LoaderInitHolds == LoaderInit => LoaderInv
<1> SUFFICES ASSUME LoaderInit PROVE LoaderInv
  OBVIOUS
<1>1. /\ host = "idle" /\ to_loader = <<>> /\ to_host = <<"prompt">> /\ loader = "line"
      /\ line = <<>> /\ word = <<>> /\ kernel_size = 0 /\ received = 0
      /\ image = [i \in 0 .. KernelMaxSize - 1 |-> Newline]
  BY DEF LoaderInit
<1>2. Newline \in Bytes /\ WordSize \in Nat \ {0} /\ KernelMaxSize \in Nat
  BY WordAssumption, CommandAssumption
<1>3. LoaderTypes
  BY <1>1, <1>2, EmptySeq DEF LoaderTypes, Messages
<1>4. Parsing /\ NoSurplus /\ NoBoot
  BY <1>1, <1>2, EmptySeq DEF Parsing, NoSurplus, NoBoot
<1>5. Prompting /\ Readying /\ Starting /\ Finishing /\ Finished /\ Entered
  BY <1>1 DEF Prompting, Readying, Starting, Finishing, Finished, Entered
<1> QED BY <1>3, <1>4, <1>5 DEF LoaderInv

\* The lengths and the bounds of a state.
LEMMA LoaderFacts ==
    ASSUME LoaderInv
    PROVE  /\ Len(to_loader) \in Nat /\ Len(to_host) \in Nat /\ Len(line) \in Nat /\ Len(word) \in Nat
           /\ received \in Nat /\ kernel_size \in Nat /\ WordSize \in Nat \ {0}
           /\ to_loader \in Seq(Bytes) /\ to_host \in Seq(Messages) /\ line \in Seq(Bytes)
           /\ word \in Seq(Bytes) /\ Len(word) <= WordSize /\ Len(Kernel) \in Nat
           /\ Newline \in Bytes /\ UploadByte \in Bytes /\ BootByte \in Bytes
           /\ UploadByte # Newline /\ BootByte # Newline /\ BootByte # UploadByte
           /\ Getc(UploadByte) # Newline /\ Getc(Newline) = Newline
<1>1. /\ to_loader \in Seq(Bytes) /\ to_host \in Seq(Messages) /\ line \in Seq(Bytes)
      /\ word \in Seq(Bytes) /\ kernel_size \in 0 .. KernelMaxSize /\ received \in Nat
  BY DEF LoaderInv, LoaderTypes
<1>2. /\ WordSize \in Nat \ {0} /\ KernelMaxSize \in Nat /\ Kernel \in Seq(Bytes)
      /\ Newline \in Bytes /\ UploadByte \in Bytes /\ BootByte \in Bytes
      /\ UploadByte # Newline /\ BootByte # Newline /\ BootByte # UploadByte
      /\ Getc(UploadByte) # Newline /\ Getc(Newline) = Newline
  BY WordAssumption, CommandAssumption DEF Getc
<1>3. Len(word) <= WordSize
  BY <1>1, <1>2, EmptySeq DEF LoaderInv, Parsing
<1> QED BY <1>1, <1>2, <1>3

\* An attempt starts.
LEMMA HostStartHolds == LoaderInv /\ HostStart => LoaderInv'
<1> SUFFICES ASSUME LoaderInv, HostStart PROVE LoaderInv'
  OBVIOUS
<1>1. /\ host' = "prompt" /\ to_loader' = Append(to_loader, Newline) /\ to_host' = <<>>
      /\ UNCHANGED <<loader, line, word, kernel_size, image, received>>
      /\ host = "idle" /\ to_loader = <<>>
  BY DEF HostStart, boardVars
<1>2. /\ to_loader' \in Seq(Bytes) /\ Len(to_loader') = 1
      /\ \A j \in 1 .. Len(to_loader') : to_loader'[j] = Newline
  BY <1>1, LoaderFacts
<1>3. LoaderTypes'
  BY <1>1, <1>2, EmptySeq DEF LoaderInv, LoaderTypes
<1>4. Parsing'
  BY <1>1 DEF LoaderInv, Parsing
<1>5. NoSurplus'
  BY <1>1, <1>2, LoaderFacts, EmptySeq DEF LoaderInv, NoSurplus, Parsing
<1>6. NoBoot'
  BY <1>1, <1>2, LoaderFacts DEF LoaderInv, NoBoot
<1>7. Prompting' /\ Readying' /\ Starting' /\ Finishing' /\ Finished' /\ Entered'
  BY <1>1, <1>2 DEF Prompting, Readying, Starting, Finishing, Finished, Entered, LoaderInv, NoSurplus
<1> QED BY <1>3, <1>4, <1>5, <1>6, <1>7 DEF LoaderInv

\* The host sees the answer it waits for, writes and waits for the next one.
LEMMA SeesPromptHolds == LoaderInv /\ SeesPrompt => LoaderInv'
<1> SUFFICES ASSUME LoaderInv, SeesPrompt PROVE LoaderInv'
  OBVIOUS
<1>1. /\ host = "prompt" /\ to_host # <<>> /\ Head(to_host) = "prompt"
      /\ to_host' \in SuffixesOf(Tail(to_host)) /\ host' = "ready"
      /\ to_loader' = to_loader \o <<UploadByte, Newline>>
      /\ UNCHANGED <<loader, line, word, kernel_size, image, received>>
  BY DEF SeesPrompt, Sees, Sends, boardVars
<1>2. /\ to_loader = <<>> /\ ToldLast("prompt")
      /\ Told("prompt") => loader = "line" /\ line = <<>>
  BY <1>1 DEF LoaderInv, Prompting
<1>3. Told("prompt")
  BY <1>1, HeadTail, LoaderFacts DEF Told
<1>4. to_host' = <<>>
  BY <1>1, <1>2, LoaderFacts, NothingLeft DEF ToldLast
<1>5. /\ to_loader' \in Seq(Bytes) /\ Len(to_loader') = 2
      /\ to_loader'[1] = UploadByte /\ to_loader'[2] = Newline
  BY <1>1, <1>2, LoaderFacts
<1>6. loader = "line" /\ line = <<>> /\ word = <<>>
  BY <1>2, <1>3 DEF LoaderInv, Parsing
<1>7. LoaderTypes'
  BY <1>1, <1>4, <1>5, EmptySeq DEF LoaderInv, LoaderTypes
<1>8. Parsing'
  BY <1>1, <1>6 DEF Parsing
<1>9. NoSurplus'
  BY <1>1, <1>5, <1>6, LoaderFacts, EmptySeq DEF NoSurplus
<1>10. NoBoot'
  BY <1>1, <1>5, <1>6, LoaderFacts, EmptySeq DEF NoBoot
<1>11. Readying'
  BY <1>1, <1>4, <1>5, <1>6, LoaderFacts, EmptySeq DEF Readying, Told
<1>12. Prompting' /\ Starting' /\ Finishing' /\ Finished' /\ Entered'
  BY <1>1, <1>6 DEF Prompting, Starting, Finishing, Finished, Entered
<1> QED BY <1>7, <1>8, <1>9, <1>10, <1>11, <1>12 DEF LoaderInv

\* It has asked for the header: the loader reads nothing else first.
LEMMA SeesReadyHolds == LoaderInv /\ SeesReady => LoaderInv'
<1> SUFFICES ASSUME LoaderInv, SeesReady PROVE LoaderInv'
  OBVIOUS
<1>1. /\ host = "ready" /\ to_host # <<>> /\ Head(to_host) = "ready"
      /\ to_host' \in SuffixesOf(Tail(to_host)) /\ host' = "start"
      /\ to_loader' = to_loader \o Words
      /\ UNCHANGED <<loader, line, word, kernel_size, image, received>>
  BY DEF SeesReady, Sees, Sends, boardVars, Words
<1>2. Told("ready")
  BY <1>1, HeadTail, LoaderFacts DEF Told
<1>3. /\ loader = "magic" /\ word = <<>> /\ to_loader = <<>> /\ ToldLast("ready")
  BY <1>1, <1>2 DEF LoaderInv, Readying
<1>4. to_host' = <<>>
  BY <1>1, <1>3, LoaderFacts, NothingLeft DEF ToldLast
<1>5. to_loader' = Words
  BY <1>1, <1>3, WordFacts, ConcatEmptySeq
<1>6. Len(word) = 0 /\ WordSize \in Nat \ {0} /\ Len(Words) = WordSize + WordSize
  BY <1>3, WordFacts, EmptySeq
<1>7. LoaderTypes'
  BY <1>1, <1>4, <1>5, WordFacts, EmptySeq DEF LoaderInv, LoaderTypes
<1>8. Parsing' /\ NoSurplus'
  BY <1>1, <1>3, <1>5, <1>6 DEF Parsing, NoSurplus, LoaderInv
<1>9. NoBoot'
  <2>1. ASSUME NEW j \in 1 .. Len(Words), j > WordSize PROVE Words[j] # BootByte
    <3> DEFINE i == j - WordSize
    <3>1. i \in 1 .. WordSize /\ WordSize + i = j
      BY <1>6, <2>1
    <3> HIDE DEF i
    <3> QED BY <3>1, WordFacts
  <2> QED BY <1>1, <1>3, <1>5, <1>6, <2>1 DEF NoBoot, LoaderInv
<1>10. Starting'
  <2>1. Whole(0)'
    BY <1>1, <1>3, <1>5, <1>6 DEF Whole, Words
  <2>2. ~Told("start")'
    BY <1>4, EmptySeq DEF Told
  <2> QED BY <1>1, <1>3, <2>1, <2>2 DEF Starting
<1>11. Prompting' /\ Readying' /\ Finishing' /\ Finished' /\ Entered'
  BY <1>1, <1>3 DEF Prompting, Readying, Finishing, Finished, Entered
<1> QED BY <1>7, <1>8, <1>9, <1>10, <1>11 DEF LoaderInv

\* It has seen the header accepted and sends the image: the loader is at its first byte.
LEMMA StartSeen ==
    ASSUME LoaderInv, Sees("start")
    PROVE  /\ loader = "data" /\ received = 0 /\ kernel_size = Len(Kernel) /\ to_loader = <<>>
           /\ line = <<>> /\ word = <<>> /\ to_host' = <<>>
<1>1. /\ host = "start" /\ to_host # <<>> /\ Head(to_host) = "start"
      /\ to_host' \in SuffixesOf(Tail(to_host))
  BY DEF Sees
<1>2. Told("start")
  BY <1>1, HeadTail, LoaderFacts DEF Told
<1>3. /\ loader = "data" /\ received = 0 /\ kernel_size = Len(Kernel) /\ to_loader = <<>>
      /\ ToldLast("start")
  BY <1>1, <1>2 DEF LoaderInv, Starting
<1>4. to_host' = <<>>
  BY <1>1, <1>3, LoaderFacts, NothingLeft DEF ToldLast
<1> QED BY <1>3, <1>4 DEF LoaderInv, Parsing

\* So the image is what it reads from now on.
LEMMA SeesStartHolds == LoaderInv /\ SeesStart => LoaderInv'
<1> SUFFICES ASSUME LoaderInv, SeesStart PROVE LoaderInv'
  OBVIOUS
<1>1. /\ host' = "done" /\ to_loader' = to_loader \o Kernel
      /\ UNCHANGED <<loader, line, word, kernel_size, image, received>>
  BY DEF SeesStart, Sends, boardVars
<1>2. /\ loader = "data" /\ received = 0 /\ kernel_size = Len(Kernel) /\ to_loader = <<>>
      /\ line = <<>> /\ word = <<>> /\ to_host' = <<>>
  BY StartSeen DEF SeesStart
<1>3. Kernel \in Seq(Bytes) /\ Len(Kernel) \in Nat
  BY WordAssumption
<1>4. to_loader' = Kernel
  BY <1>1, <1>2, <1>3, ConcatEmptySeq
<1>5. LoaderTypes'
  BY <1>1, <1>2, <1>3, <1>4, EmptySeq DEF LoaderInv, LoaderTypes
<1>6. Parsing' /\ NoSurplus' /\ NoBoot'
  BY <1>1, <1>2, <1>3, <1>4, EmptySeq DEF LoaderInv, Parsing, NoSurplus, NoBoot
<1>7. Finishing'
  <2>1. SoFar'
    BY <1>1, <1>2, <1>3, <1>4 DEF SoFar
  <2>2. ~Told("done")'
    BY <1>2, EmptySeq DEF Told
  <2> QED BY <1>1, <1>2, <2>1, <2>2 DEF Finishing
<1>8. Prompting' /\ Readying' /\ Starting' /\ Finished' /\ Entered'
  BY <1>1, <1>2 DEF Prompting, Readying, Starting, Finished, Entered
<1> QED BY <1>5, <1>6, <1>7, <1>8 DEF LoaderInv

\* It is interrupted while it sends the image.
LEMMA SendsPartHolds ==
    ASSUME NEW n \in 0 .. Len(Kernel) - 1
    PROVE  LoaderInv /\ SendsPart(n) => LoaderInv'
<1> SUFFICES ASSUME LoaderInv, SendsPart(n) PROVE LoaderInv'
  OBVIOUS
<1>1. /\ host' = "idle" /\ to_loader' = to_loader \o SubSeq(Kernel, 1, n)
      /\ UNCHANGED <<loader, line, word, kernel_size, image, received>>
  BY DEF SendsPart, boardVars
<1>2. /\ loader = "data" /\ received = 0 /\ kernel_size = Len(Kernel) /\ to_loader = <<>>
      /\ line = <<>> /\ word = <<>> /\ to_host' = <<>>
  BY StartSeen DEF SendsPart
<1>3. Kernel \in Seq(Bytes) /\ Len(Kernel) \in Nat
  BY WordAssumption
<1>4. to_loader' \in Seq(Bytes) /\ Len(to_loader') = n
  <2> DEFINE part == SubSeq(Kernel, 1, n)
  <2>1. part \in Seq(Bytes) /\ Len(part) = n
    BY <1>3
  <2> HIDE DEF part
  <2>2. <<>> \o part = part
    BY <2>1, ConcatEmptySeq
  <2>3. to_loader' = part
    BY <1>1, <1>2, <2>2 DEF part
  <2> QED BY <2>1, <2>3
<1>5. LoaderTypes'
  BY <1>1, <1>2, <1>4, EmptySeq DEF LoaderInv, LoaderTypes
<1>6. Parsing' /\ NoSurplus' /\ NoBoot'
  BY <1>1, <1>2, <1>3, <1>4, EmptySeq DEF LoaderInv, Parsing, NoSurplus, NoBoot
<1>7. Prompting' /\ Readying' /\ Starting' /\ Finishing' /\ Finished' /\ Entered'
  BY <1>1, <1>2 DEF Prompting, Readying, Starting, Finishing, Finished, Entered
<1> QED BY <1>5, <1>6, <1>7 DEF LoaderInv

\* It sees the upload done, and the image is in memory.
LEMMA SeesDoneHolds == LoaderInv /\ SeesDone => LoaderInv'
<1> SUFFICES ASSUME LoaderInv, SeesDone PROVE LoaderInv'
  OBVIOUS
<1>1. PICK bytes \in {<<BootByte, Newline>>, <<>>} : Sends(bytes, "finished")
  BY DEF SeesDone
<1>2. /\ host = "done" /\ to_host # <<>> /\ Head(to_host) = "done"
      /\ to_host' \in SuffixesOf(Tail(to_host)) /\ host' = "finished"
      /\ to_loader' = to_loader \o bytes
      /\ UNCHANGED <<loader, line, word, kernel_size, image, received>>
  BY <1>1 DEF SeesDone, Sees, Sends, boardVars
<1>3. Told("done")
  BY <1>2, HeadTail, LoaderFacts DEF Told
<1>4. loader = "line" /\ line = <<>> /\ to_loader = <<>> /\ Loaded /\ word = <<>>
  BY <1>2, <1>3 DEF LoaderInv, Finishing, Parsing
<1>5. to_loader' \in Seq(Bytes) /\ \A j \in 1 .. Len(to_loader') : to_loader'[j] # UploadByte
  <2>1. CASE bytes = <<BootByte, Newline>>
    <3>1. /\ to_loader' \in Seq(Bytes) /\ Len(to_loader') = 2
          /\ to_loader'[1] = BootByte /\ to_loader'[2] = Newline
      BY <1>2, <1>4, <2>1, LoaderFacts
    <3> QED BY <3>1, LoaderFacts
  <2>2. CASE bytes = <<>>
    <3>1. to_loader' = <<>>
      BY <1>2, <1>4, <2>2, ConcatEmptySeq, EmptySeq
    <3> QED BY <3>1, EmptySeq
  <2> QED BY <2>1, <2>2
<1>6. to_host' \in Seq(Messages)
  <2>1. Tail(to_host) \in Seq(Messages)
    BY <1>2, LoaderFacts, HeadTail
  <2> QED BY <1>2, <2>1, SomeLeft
<1>7. LoaderTypes'
  BY <1>2, <1>5, <1>6 DEF LoaderInv, LoaderTypes
<1>8. Parsing' /\ NoSurplus' /\ NoBoot'
  BY <1>2, <1>4 DEF Parsing, NoSurplus, NoBoot
<1>9. Finished'
  BY <1>2, <1>4, <1>5, EmptySeq DEF Finished, Loaded
<1>10. Prompting' /\ Readying' /\ Starting' /\ Finishing' /\ Entered'
  BY <1>2, <1>4 DEF Prompting, Readying, Starting, Finishing, Entered
<1> QED BY <1>7, <1>8, <1>9, <1>10 DEF LoaderInv

\* It skips an answer it does not wait for.
LEMMA SkipsMessageHolds == LoaderInv /\ SkipsMessage => LoaderInv'
<1> SUFFICES ASSUME LoaderInv, SkipsMessage PROVE LoaderInv'
  OBVIOUS
<1>1. /\ to_host # <<>> /\ to_host' = Tail(to_host)
      /\ UNCHANGED <<host, to_loader, loader, line, word, kernel_size, image, received>>
  BY DEF SkipsMessage, boardVars, hostVars
<1>2. /\ to_host' \in Seq(Messages) /\ Len(to_host') = Len(to_host) - 1 /\ Len(to_host) \in Nat \ {0}
      /\ \A j \in 1 .. Len(to_host) - 1 : to_host'[j] = to_host[j + 1]
  BY <1>1, LoaderFacts, HeadTail
<1>3. ASSUME NEW m
      PROVE  /\ ToldLast(m) => ToldLast(m)'
             /\ Told(m)' => Told(m)
  BY <1>2 DEF Told, ToldLast
<1>4. LoaderTypes'
  BY <1>1, <1>2 DEF LoaderInv, LoaderTypes
<1>5. Parsing' /\ NoSurplus' /\ NoBoot' /\ Finished' /\ Entered'
  BY <1>1 DEF LoaderInv, Parsing, NoSurplus, NoBoot, Finished, Loaded, Entered
<1>6. Prompting'
  BY <1>1, <1>3, EmptySeq DEF LoaderInv, Prompting
<1>7. Readying'
  BY <1>1, <1>3 DEF LoaderInv, Readying
<1>8. Starting'
  BY <1>1, <1>3 DEF LoaderInv, Starting, Whole
<1>9. Finishing'
  BY <1>1, <1>3 DEF LoaderInv, Finishing, SoFar, Loaded
<1> QED BY <1>4, <1>5, <1>6, <1>7, <1>8, <1>9 DEF LoaderInv

\* It gives up.
LEMMA GivesUpHolds == LoaderInv /\ (HostTimesOut \/ HostInterrupted) => LoaderInv'
<1> SUFFICES ASSUME LoaderInv, HostTimesOut \/ HostInterrupted PROVE LoaderInv'
  OBVIOUS
<1>1. /\ host # "finished" /\ host' = "idle"
      /\ UNCHANGED <<to_loader, to_host, loader, line, word, kernel_size, image, received>>
  BY DEF HostTimesOut, HostInterrupted, Waiting, lineVars, boardVars
<1>2. LoaderTypes'
  BY <1>1 DEF LoaderInv, LoaderTypes
<1>3. Parsing' /\ NoSurplus' /\ NoBoot'
  BY <1>1 DEF LoaderInv, Parsing, NoSurplus, NoBoot
<1>4. Prompting' /\ Readying' /\ Starting' /\ Finishing' /\ Finished' /\ Entered'
  BY <1>1 DEF Prompting, Readying, Starting, Finishing, Finished, Entered, LoaderInv
<1> QED BY <1>2, <1>3, <1>4 DEF LoaderInv

\* The line loses a byte: what was complete is then too short.
LEMMA LineLosesHolds ==
    ASSUME NEW i \in 1 .. Len(to_loader)
    PROVE  LoaderInv /\ LineLoses(i) => LoaderInv'
<1> SUFFICES ASSUME LoaderInv, LineLoses(i) PROVE LoaderInv'
  OBVIOUS
<1>1. UNCHANGED <<host, to_host, loader, line, word, kernel_size, image, received>>
  BY DEF LineLoses, boardVars, hostVars
<1>2. /\ to_loader' \in Seq(Bytes) /\ Len(to_loader') = Len(to_loader) - 1
      /\ Len(to_loader) \in Nat \ {0} /\ to_loader # <<>>
      /\ \A j \in 1 .. Len(to_loader) - 1 :
            to_loader'[j] = to_loader[j] \/ to_loader'[j] = to_loader[j + 1]
  <2>1. to_loader' = SubSeq(to_loader, 1, i - 1) \o SubSeq(to_loader, i + 1, Len(to_loader))
    BY DEF LineLoses
  <2>2. to_loader' \in Seq(Bytes) /\ Left(to_loader, to_loader')
    <3> DEFINE q == to_loader
               r == to_loader'
    <3>1. r = Dropped(q, i) /\ q \in Seq(Bytes) /\ i \in 1 .. Len(q)
      BY <2>1, LoaderFacts DEF Dropped
    <3> HIDE DEF q, r
    <3>2. r \in Seq(Bytes) /\ Left(q, r)
      BY ONLY <3>1, Shortened
    <3> QED BY <3>2 DEF q, r
  <2>3. Len(to_loader) \in Nat \ {0} /\ to_loader # <<>>
    BY LoaderFacts, EmptySeq
  <2> QED BY <2>2, <2>3 DEF Left
<1>3. LoaderTypes' /\ Parsing'
  BY <1>1, <1>2 DEF LoaderInv, LoaderTypes, Parsing
<1>4. NoSurplus'
  <2>1. /\ NoSurplus /\ Len(word) \in Nat /\ received \in Nat
        /\ kernel_size \in Nat /\ WordSize \in Nat
    BY LoaderFacts DEF LoaderInv
  <2> QED BY ONLY <1>1, <1>2, <2>1 DEF NoSurplus
<1>5. NoBoot'
  <2>1. ASSUME host # "finished", loader = "line", NEW j \in 1 .. Len(to_loader) - 1
        PROVE  to_loader'[j] # BootByte
    <3>1. \A k \in 1 .. Len(to_loader) : to_loader[k] # BootByte
      BY <2>1 DEF LoaderInv, NoBoot
    <3>2. j \in 1 .. Len(to_loader) /\ j + 1 \in 1 .. Len(to_loader)
      BY <1>2
    <3> QED BY <1>2, <3>1, <3>2
  <2>2. ASSUME host # "finished", loader = "magic", NEW j \in 1 .. Len(to_loader) - 1,
               Len(word) + j > WordSize
        PROVE  to_loader'[j] # BootByte
    <3>1. \A k \in 1 .. Len(to_loader) : Len(word) + k > WordSize => to_loader[k] # BootByte
      BY <2>2 DEF LoaderInv, NoBoot
    <3>2. /\ j \in 1 .. Len(to_loader) /\ j + 1 \in 1 .. Len(to_loader)
          /\ Len(word) + (j + 1) > WordSize
      BY <1>2, <2>2, LoaderFacts
    <3> QED BY <1>2, <2>2, <3>1, <3>2
  <2> QED BY <1>1, <1>2, <2>1, <2>2 DEF LoaderInv, NoBoot
<1>6. Prompting' /\ Readying'
  <2>1. \A m : Told(m)' <=> Told(m)
    BY <1>1 DEF Told
  <2>2. Prompting'
    <3> SUFFICES ASSUME host = "prompt"
                 PROVE  /\ to_host' = <<>> /\ Len(to_loader') <= 1
                        /\ \A j \in 1 .. Len(to_loader') : to_loader'[j] = Newline
      BY <1>1 DEF Prompting
    <3>1. to_host = <<>> /\ Len(to_loader) <= 1
      BY <1>2 DEF LoaderInv, Prompting
    <3> QED BY <1>1, <1>2, <3>1
  <2>3. Readying'
    <3> SUFFICES ASSUME host = "ready"
                 PROVE  /\ loader = "line" /\ ~Told("ready")
                        /\ \A j \in 1 .. Len(to_loader') - 1 : Getc(to_loader'[j]) # Newline
      BY <1>1, <2>1 DEF Readying
    <3>1. /\ loader = "line" /\ ~Told("ready")
          /\ \A j \in 1 .. Len(to_loader) - 1 : Getc(to_loader[j]) # Newline
      BY <1>2 DEF LoaderInv, Readying
    <3>2. ASSUME NEW j \in 1 .. Len(to_loader') - 1
          PROVE  Getc(to_loader'[j]) # Newline
      <4>1. j \in 1 .. Len(to_loader) - 1 /\ j + 1 \in 1 .. Len(to_loader) - 1
        BY <1>2
      <4> QED BY <1>2, <3>1, <4>1
    <3> QED BY <3>1, <3>2
  <2> QED BY <2>2, <2>3
<1>7. Starting'
  <2> SUFFICES ASSUME host = "start"
               PROVE  /\ ~Told("start")'
                      /\ \/ loader = "line"
                         \/ loader = "magic" /\ Len(word) + Len(to_loader') < 2 * WordSize
                         \/ loader = "size" /\ Len(word) + Len(to_loader') < WordSize
    BY <1>1 DEF Starting
  <2>1. /\ ~Told("start")
        /\ \/ loader = "line"
           \/ loader = "magic" /\ Len(word) + Len(to_loader) <= 2 * WordSize
           \/ loader = "size" /\ Len(word) + Len(to_loader) <= WordSize
    BY <1>2 DEF LoaderInv, Starting, NoSurplus
  <2>2. ~Told("start")'
    BY <1>1, <2>1 DEF Told
  <2> QED BY <1>2, <2>1, <2>2, LoaderFacts, SMTT(30)
<1>8. Finishing'
  BY <1>1, <1>2, LoaderFacts DEF LoaderInv, Finishing, NoSurplus, Told
<1>9. Finished' /\ Entered'
  <2>1. ASSUME host = "finished", NEW j \in 1 .. Len(to_loader) - 1
        PROVE  to_loader'[j] # UploadByte
    <3>1. \A k \in 1 .. Len(to_loader) : to_loader[k] # UploadByte
      BY <2>1 DEF LoaderInv, Finished
    <3>2. j \in 1 .. Len(to_loader) /\ j + 1 \in 1 .. Len(to_loader)
      BY <1>2
    <3> QED BY <1>2, <3>1, <3>2
  <2> QED BY <1>1, <1>2, <2>1 DEF LoaderInv, Finished, Loaded, Entered
<1> QED BY <1>3, <1>4, <1>5, <1>6, <1>7, <1>8, <1>9 DEF LoaderInv

\* The loader takes a byte off the line.
LEMMA ReadFacts ==
    ASSUME LoaderInv, NEW state, Reads(state)
    PROVE  /\ loader = state /\ to_loader # <<>> /\ Len(to_loader) \in Nat \ {0}
           /\ to_loader' = Tail(to_loader)
           /\ to_loader' \in Seq(Bytes) /\ Len(to_loader') = Len(to_loader) - 1
           /\ Head(to_loader) = to_loader[1] /\ to_loader[1] \in Bytes
           /\ \A j \in 1 .. Len(to_loader) - 1 : to_loader'[j] = to_loader[j + 1]
           /\ host' = host
BY LoaderFacts, HeadTail DEF Reads, hostVars

\* The loader answers.
LEMMA SaysFacts ==
    ASSUME LoaderInv, NEW messages \in Seq(Messages), Says(messages)
    PROVE  /\ to_host' \in Seq(Messages) /\ Len(to_host') = Len(to_host) + Len(messages)
           /\ \A m : ~Told(m) /\ (\A j \in 1 .. Len(messages) : messages[j] # m) => ~Told(m)'
           /\ \A m : ~Told(m) /\ (\A j \in 1 .. Len(messages) : messages[j] = m => j = Len(messages))
                        => ToldLast(m)'
<1>1. to_host' = to_host \o messages /\ to_host \in Seq(Messages) /\ Len(to_host) \in Nat
  BY LoaderFacts DEF Says
<1>2. /\ to_host' \in Seq(Messages) /\ Len(to_host') = Len(to_host) + Len(messages)
      /\ \A j \in 1 .. Len(to_host) + Len(messages) :
            to_host'[j] = IF j <= Len(to_host) THEN to_host[j] ELSE messages[j - Len(to_host)]
  BY <1>1, ConcatProperties
<1>3. Len(messages) \in Nat
  OBVIOUS
<1>4. ASSUME NEW m, ~Told(m), NEW j \in 1 .. Len(to_host) + Len(messages), to_host'[j] = m
      PROVE  j - Len(to_host) \in 1 .. Len(messages) /\ messages[j - Len(to_host)] = m
  <2>1. ~(j <= Len(to_host))
    BY <1>1, <1>2, <1>4 DEF Told
  <2>2. j - Len(to_host) \in 1 .. Len(messages)
    BY <1>1, <1>3, <2>1
  <2> QED BY <1>2, <1>4, <2>1, <2>2
<1>5. ASSUME NEW m, ~Told(m), \A j \in 1 .. Len(messages) : messages[j] # m PROVE ~Told(m)'
  BY <1>2, <1>4, <1>5 DEF Told
<1>6. ASSUME NEW m, ~Told(m), \A j \in 1 .. Len(messages) : messages[j] = m => j = Len(messages)
      PROVE  ToldLast(m)'
  <2>1. ASSUME NEW j \in 1 .. Len(to_host) + Len(messages), to_host'[j] = m
        PROVE  j = Len(to_host) + Len(messages)
    <3>1. j - Len(to_host) = Len(messages)
      BY <1>4, <1>6, <2>1
    <3> QED BY <1>1, <1>3, <3>1
  <2> QED BY <1>2, <2>1 DEF ToldLast
<1> QED BY <1>2, <1>5, <1>6

\* A message that is not the one waited for, and one that is.
LEMMA SaysOne ==
    ASSUME LoaderInv, NEW a \in Messages, Says(<<a>>)
    PROVE  /\ to_host' \in Seq(Messages)
           /\ \A m : ~Told(m) /\ a # m => ~Told(m)'
           /\ \A m : ~Told(m) => ToldLast(m)'
<1>1. <<a>> \in Seq(Messages) /\ Len(<<a>>) = 1 /\ <<a>>[1] = a
  OBVIOUS
<1> DEFINE q == <<a>>
<1> HIDE DEF q
<1>2. q \in Seq(Messages) /\ Len(q) = 1 /\ q[1] = a /\ Says(q)
  BY <1>1 DEF q
<1>3. /\ to_host' \in Seq(Messages)
      /\ \A m : ~Told(m) /\ (\A j \in 1 .. Len(q) : q[j] # m) => ~Told(m)'
      /\ \A m : ~Told(m) /\ (\A j \in 1 .. Len(q) : q[j] = m => j = Len(q)) => ToldLast(m)'
  BY <1>2, SaysFacts
<1>4. /\ \A m : a # m => \A j \in 1 .. Len(q) : q[j] # m
      /\ \A m : \A j \in 1 .. Len(q) : q[j] = m => j = Len(q)
  BY <1>2
<1> QED BY <1>3, <1>4

\* What is kept of a line and its next byte.
LEMMA EditedFacts ==
    ASSUME LoaderInv, NEW byte \in Bytes, Getc(byte) # Newline, NEW l,
           l = Edited(Getc(byte)) \/ l = <<>>
    PROVE  /\ l \in Seq(Bytes)
           /\ \A x : x # byte /\ (\A j \in 1 .. Len(line) : line[j] # x) => \A j \in 1 .. Len(l) : l[j] # x
<1>1. Getc(byte) = byte
  BY DEF Getc
<1>2. line \in Seq(Bytes) /\ Len(line) \in Nat
  BY LoaderFacts
<1>3. CASE l = <<>>
  BY <1>3, EmptySeq
<1>4. CASE l = line
  BY <1>2, <1>4
<1>5. CASE l = Append(line, byte)
  <2>1. /\ l \in Seq(Bytes) /\ Len(l) = Len(line) + 1 /\ l[Len(line) + 1] = byte
        /\ \A j \in 1 .. Len(line) : l[j] = line[j]
    BY <1>2, <1>5
  <2>2. \A j \in 1 .. Len(l) : j \in 1 .. Len(line) \/ j = Len(line) + 1
    BY ONLY <1>2, <2>1
  <2> QED BY <2>1, <2>2
<1>6. CASE l = SubSeq(line, 1, Len(line) - 1)
  <2>1. CASE line = <<>>
    <3>1. l = <<>>
      BY <1>6, <2>1, EmptySeq
    <3> QED BY <3>1, <1>3
  <2>2. CASE line # <<>>
    <3>1. Len(line) \in Nat \ {0}
      BY <1>2, <2>2, EmptySeq
    <3>2. /\ l \in Seq(Bytes) /\ Len(l) = Len(line) - 1
          /\ \A j \in 1 .. Len(line) - 1 : l[j] = line[j]
      BY <1>2, <1>6, <2>2, WithoutLast
    <3>3. \A j \in 1 .. Len(l) : j \in 1 .. Len(line) /\ j \in 1 .. Len(line) - 1
      BY ONLY <3>1, <3>2
    <3> QED BY <3>2, <3>3
  <2> QED BY <2>1, <2>2
<1> QED BY <1>1, <1>3, <1>4, <1>5, <1>6 DEF Edited

\* A byte of a line that goes on.
LEMMA ReadCharHolds == LoaderInv /\ ReadLine /\ Getc(Head(to_loader)) # Newline => LoaderInv'
<1> SUFFICES ASSUME LoaderInv, ReadLine, Getc(Head(to_loader)) # Newline PROVE LoaderInv'
  OBVIOUS
<1>1. /\ loader = "line" /\ to_loader # <<>> /\ Len(to_loader) \in Nat \ {0}
      /\ to_loader' \in Seq(Bytes) /\ Len(to_loader') = Len(to_loader) - 1
      /\ to_loader[1] \in Bytes /\ Head(to_loader) = to_loader[1]
      /\ \A j \in 1 .. Len(to_loader) - 1 : to_loader'[j] = to_loader[j + 1]
      /\ host' = host
  BY ReadFacts DEF ReadLine
<1>2. /\ line' = Edited(Getc(to_loader[1])) \/ line' = <<>>
      /\ to_host' = to_host \/ Says(<<"prompt">>)
      /\ UNCHANGED <<loader, word, kernel_size, image, received>>
  BY <1>1 DEF ReadLine
<1>3. /\ line' \in Seq(Bytes)
      /\ \A x : x # to_loader[1] /\ (\A j \in 1 .. Len(line) : line[j] # x)
           => \A j \in 1 .. Len(line') : line'[j] # x
  BY <1>1, <1>2, EditedFacts
<1>4. to_host' \in Seq(Messages) /\ \A m : m # "prompt" /\ ~Told(m) => ~Told(m)'
  <2>1. CASE to_host' = to_host
    BY <2>1, LoaderFacts DEF Told
  <2>2. CASE Says(<<"prompt">>)
    BY <2>2, SaysOne DEF Messages
  <2> QED BY <1>2, <2>1, <2>2
<1>5. LoaderTypes' /\ Parsing' /\ NoSurplus' /\ Entered'
  BY <1>1, <1>2, <1>3, <1>4, LoaderFacts DEF LoaderInv, LoaderTypes, Parsing, NoSurplus, Entered
<1>6. NoBoot' /\ Finished'
  <2>1. ASSUME NEW x, \A j \in 1 .. Len(line) : line[j] # x, \A j \in 1 .. Len(to_loader) : to_loader[j] # x
        PROVE  /\ \A j \in 1 .. Len(line') : line'[j] # x
               /\ \A j \in 1 .. Len(to_loader') : to_loader'[j] # x
    <3>1. \A j \in 1 .. Len(line') : line'[j] # x
      <4>1. 1 \in 1 .. Len(to_loader)
        BY <1>1
      <4> QED BY <1>3, <2>1, <4>1
    <3>2. ASSUME NEW j \in 1 .. Len(to_loader') PROVE to_loader'[j] # x
      <4>1. j \in 1 .. Len(to_loader) - 1 /\ j + 1 \in 1 .. Len(to_loader)
        BY <1>1
      <4> QED BY <1>1, <2>1, <4>1
    <3> QED BY <3>1, <3>2
  <2>2. NoBoot'
    BY <1>1, <1>2, <2>1 DEF LoaderInv, NoBoot
  <2>3. Finished'
    BY <1>1, <1>2, <2>1 DEF LoaderInv, Finished, Loaded
  <2> QED BY <2>2, <2>3
<1>7. Prompting'
  <2>1. host # "prompt"
    <3> SUFFICES ASSUME host = "prompt" PROVE FALSE
      OBVIOUS
    <3>1. \A j \in 1 .. Len(to_loader) : to_loader[j] = Newline
      BY <1>1 DEF LoaderInv, Prompting
    <3>2. 1 \in 1 .. Len(to_loader)
      BY <1>1
    <3> QED BY <1>1, <3>1, <3>2, LoaderFacts
  <2> QED BY <1>1, <2>1 DEF Prompting
<1>8. Readying'
  <2> SUFFICES ASSUME host = "ready"
               PROVE  /\ loader = "line" /\ ~Told("ready")
                      /\ \A j \in 1 .. Len(to_loader') - 1 : Getc(to_loader'[j]) # Newline
    BY <1>1, <1>2, <1>4 DEF Readying
  <2>1. ~Told("ready") /\ \A j \in 1 .. Len(to_loader) - 1 : Getc(to_loader[j]) # Newline
    BY <1>1 DEF LoaderInv, Readying
  <2>2. ASSUME NEW j \in 1 .. Len(to_loader') - 1 PROVE Getc(to_loader'[j]) # Newline
    <3>1. j + 1 \in 1 .. Len(to_loader) - 1 /\ j \in 1 .. Len(to_loader) - 1
      BY <1>1
    <3> QED BY <1>1, <2>1, <3>1
  <2> QED BY <1>1, <2>1, <2>2
<1>9. Starting' /\ Finishing'
  BY <1>1, <1>2, <1>7, <1>4, EmptySeq DEF LoaderInv, Starting, Finishing
<1> QED BY <1>5, <1>6, <1>7, <1>8, <1>9 DEF LoaderInv

\* The end of a line: a command, or none.
LEMMA ReadNewlineHolds == LoaderInv /\ ReadLine /\ Getc(Head(to_loader)) = Newline => LoaderInv'
<1> SUFFICES ASSUME LoaderInv, ReadLine, Getc(Head(to_loader)) = Newline PROVE LoaderInv'
  OBVIOUS
<1>1. /\ loader = "line" /\ to_loader # <<>> /\ Len(to_loader) \in Nat \ {0}
      /\ to_loader' \in Seq(Bytes) /\ Len(to_loader') = Len(to_loader) - 1
      /\ Getc(to_loader[1]) = Newline
      /\ \A j \in 1 .. Len(to_loader) - 1 : to_loader'[j] = to_loader[j + 1]
      /\ host' = host
  BY ReadFacts DEF ReadLine
<1>2. /\ line' = <<>> /\ word = <<>> /\ Len(word) = 0 /\ WordSize \in Nat \ {0}
      /\ UNCHANGED <<word, kernel_size, image, received>>
  BY <1>1, LoaderFacts, EmptySeq DEF ReadLine, LoaderInv, Parsing
<1>3. \/ line = <<UploadByte>> /\ loader' = "magic" /\ Says(<<"ready">>)
      \/ line = <<BootByte>> /\ kernel_size # 0 /\ loader' = "booted" /\ to_host' = to_host
      \/ line # <<UploadByte>> /\ Says(<<"prompt">>) /\ loader' = loader
  BY DEF ReadLine, Execute
<1>4. to_host' \in Seq(Messages) /\ loader' \in {"line", "magic", "booted"}
  BY <1>1, <1>3, SaysOne, LoaderFacts DEF Messages
<1>5. LoaderTypes'
  BY <1>1, <1>2, <1>4, EmptySeq DEF LoaderInv, LoaderTypes
<1>6. Parsing' /\ Entered'
  BY <1>2, <1>4 DEF Parsing, Entered
<1>7. host # "finished" => loader' # "booted"
  <2>1. line = <<BootByte>> => Len(line) = 1 /\ line[1] = BootByte
    OBVIOUS
  <2> QED BY <1>3, <1>4, <1>1, <2>1 DEF LoaderInv, NoBoot
<1>8. host = "finished" => loader' # "magic"
  <2>1. line = <<UploadByte>> => Len(line) = 1 /\ line[1] = UploadByte
    OBVIOUS
  <2> QED BY <1>3, <1>1, <2>1 DEF LoaderInv, Finished
<1>9. NoSurplus'
  BY <1>1, <1>2, <1>4, <1>7 DEF LoaderInv, NoSurplus
<1>10. ASSUME NEW x, \A j \in 1 .. Len(to_loader) : to_loader[j] # x
       PROVE  \A j \in 1 .. Len(to_loader') : to_loader'[j] # x
  <2>1. ASSUME NEW j \in 1 .. Len(to_loader') PROVE to_loader'[j] # x
    <3>1. j \in 1 .. Len(to_loader) - 1 /\ j + 1 \in 1 .. Len(to_loader)
      BY <1>1
    <3> QED BY <1>1, <1>10, <3>1
  <2> QED BY <2>1
<1>11. NoBoot'
  <2>1. \A j \in 1 .. Len(line') : line'[j] # BootByte
    BY <1>2, EmptySeq
  <2>2. host # "finished" => \A j \in 1 .. Len(to_loader') : to_loader'[j] # BootByte
    BY <1>1, <1>10 DEF LoaderInv, NoBoot
  <2> QED BY <1>1, <2>1, <2>2 DEF NoBoot
<1>12. Finished'
  BY <1>1, <1>2, <1>4, <1>8, <1>10, EmptySeq DEF LoaderInv, Finished, Loaded
<1>13. Prompting'
  <2> SUFFICES ASSUME host = "prompt"
               PROVE  /\ to_loader' = <<>> /\ ToldLast("prompt")'
                      /\ Told("prompt")' => loader' = "line" /\ line' = <<>>
    BY <1>1 DEF Prompting
  <2>1. to_host = <<>> /\ Len(to_loader) <= 1
    BY <1>1 DEF LoaderInv, Prompting
  <2>2. to_loader' = <<>>
    BY <1>1, <2>1, EmptySeq
  <2>3. ~Told("prompt")
    BY <2>1, EmptySeq DEF Told
  <2>4. CASE Says(<<"ready">>)
    BY <1>2, <2>2, <2>3, <2>4, SaysOne DEF Messages
  <2>5. CASE Says(<<"prompt">>) /\ loader' = loader
    BY <1>1, <1>2, <2>2, <2>3, <2>5, SaysOne DEF Messages
  <2> QED BY <1>3, <1>7, <2>4, <2>5
<1>14. Readying'
  <2> SUFFICES ASSUME host = "ready"
               PROVE  \/ /\ loader' = "line" /\ ~Told("ready")'
                         /\ \A j \in 1 .. Len(to_loader') - 1 : Getc(to_loader'[j]) # Newline
                      \/ loader' = "magic" /\ word' = <<>> /\ to_loader' = <<>> /\ ToldLast("ready")'
    BY <1>1 DEF Readying
  <2>1. ~Told("ready") /\ \A j \in 1 .. Len(to_loader) - 1 : Getc(to_loader[j]) # Newline
    BY <1>1 DEF LoaderInv, Readying
  <2>2. Len(to_loader) = 1
    <3>1. 1 \notin 1 .. Len(to_loader) - 1
      BY <1>1, <2>1
    <3> QED BY <1>1, <3>1
  <2>3. to_loader' = <<>> /\ Len(to_loader') = 0
    BY <1>1, <2>2, EmptySeq
  <2>4. CASE Says(<<"ready">>) /\ loader' = "magic"
    BY <1>2, <2>1, <2>3, <2>4, SaysOne DEF Messages
  <2>5. CASE Says(<<"prompt">>) /\ loader' = loader
    BY <1>1, <2>1, <2>3, <2>5, SaysOne DEF Messages
  <2> QED BY <1>3, <1>7, <2>4, <2>5
<1>15. Starting'
  <2> SUFFICES ASSUME host = "start"
               PROVE  /\ ~Told("start")'
                      /\ \/ loader' = "line"
                         \/ loader' = "magic" /\ Len(word') + Len(to_loader') < 2 * WordSize
    BY <1>1 DEF Starting
  <2>1. ~Told("start")
    BY <1>1 DEF LoaderInv, Starting
  <2>2. Len(to_loader) <= 2 * WordSize
    BY <1>1, <1>2 DEF LoaderInv, NoSurplus
  <2>3. CASE Says(<<"ready">>) /\ loader' = "magic"
    BY <1>1, <1>2, <2>1, <2>2, <2>3, SaysOne DEF Messages
  <2>4. CASE Says(<<"prompt">>) /\ loader' = loader
    BY <1>1, <2>1, <2>4, SaysOne DEF Messages
  <2> QED BY <1>3, <1>7, <2>3, <2>4
<1>16. Finishing'
  BY <1>1 DEF LoaderInv, Finishing
<1> QED BY <1>5, <1>6, <1>9, <1>11, <1>12, <1>13, <1>14, <1>15, <1>16 DEF LoaderInv

\* Two messages, the second of which is a prompt.
LEMMA SaysTwo ==
    ASSUME LoaderInv, NEW a \in Messages \ {"prompt"}, Says(<<a, "prompt">>)
    PROVE  /\ to_host' \in Seq(Messages)
           /\ \A m : ~Told(m) /\ a # m /\ m # "prompt" => ~Told(m)'
           /\ ~Told("prompt") => ToldLast("prompt")'
<1> DEFINE q == <<a, "prompt">>
<1>1. q \in Seq(Messages) /\ Len(q) = 2 /\ q[1] = a /\ q[2] = "prompt" /\ Says(q)
  BY DEF Messages
<1> HIDE DEF q
<1>2. /\ to_host' \in Seq(Messages)
      /\ \A m : ~Told(m) /\ (\A j \in 1 .. Len(q) : q[j] # m) => ~Told(m)'
      /\ \A m : ~Told(m) /\ (\A j \in 1 .. Len(q) : q[j] = m => j = Len(q)) => ToldLast(m)'
  BY <1>1, SaysFacts
<1>3. /\ \A m : a # m /\ m # "prompt" => \A j \in 1 .. Len(q) : q[j] # m
      /\ \A j \in 1 .. Len(q) : q[j] = "prompt" => j = Len(q)
  BY <1>1
<1> QED BY <1>2, <1>3

\* The loader reads a byte of a word: it waits for neither a command nor an image.
LEMMA WordRead ==
    ASSUME LoaderInv, NEW state \in {"magic", "size"}, Reads(state)
    PROVE  /\ loader = state /\ Len(to_loader) \in Nat \ {0} /\ to_loader' \in Seq(Bytes)
           /\ Len(to_loader') = Len(to_loader) - 1 /\ to_loader[1] \in Bytes
           /\ Head(to_loader) = to_loader[1] /\ host' = host
           /\ \A j \in 1 .. Len(to_loader) - 1 : to_loader'[j] = to_loader[j + 1]
           /\ line = <<>> /\ Len(word) < WordSize
           /\ host \in {"idle", "prompt", "start"}
           /\ host = "prompt" => to_loader' = <<>> /\ to_host = <<>>
           /\ host = "start" => ~Told("start")
           /\ LET bytes == Append(word, to_loader[1])
              IN  /\ bytes \in Seq(Bytes) /\ Len(bytes) = Len(word) + 1
                  /\ bytes[Len(word) + 1] = to_loader[1]
                  /\ \A j \in 1 .. Len(word) : bytes[j] = word[j]
<1>1. /\ loader = state /\ to_loader # <<>> /\ Len(to_loader) \in Nat \ {0}
      /\ to_loader' \in Seq(Bytes) /\ Len(to_loader') = Len(to_loader) - 1
      /\ Head(to_loader) = to_loader[1] /\ to_loader[1] \in Bytes
      /\ \A j \in 1 .. Len(to_loader) - 1 : to_loader'[j] = to_loader[j + 1]
      /\ host' = host
  BY ReadFacts
<1>2. line = <<>> /\ Len(word) < WordSize
  BY <1>1 DEF LoaderInv, Parsing
<1>3. host \in {"idle", "prompt", "start"}
  BY <1>1 DEF LoaderInv, LoaderTypes, Readying, Finishing, Finished
<1>4. host = "prompt" => to_loader' = <<>> /\ to_host = <<>>
  <2>1. host = "prompt" => Len(to_loader) <= 1 /\ to_host = <<>>
    BY <1>1 DEF LoaderInv, Prompting
  <2> QED BY <1>1, <2>1, EmptySeq
<1>5. host = "start" => ~Told("start")
  BY <1>1 DEF LoaderInv, Starting
<1>6. LET bytes == Append(word, to_loader[1])
      IN  /\ bytes \in Seq(Bytes) /\ Len(bytes) = Len(word) + 1
          /\ bytes[Len(word) + 1] = to_loader[1]
          /\ \A j \in 1 .. Len(word) : bytes[j] = word[j]
  BY <1>1, LoaderFacts
<1> QED BY <1>1, <1>2, <1>3, <1>4, <1>5, <1>6

\* A byte of a word that goes on.
LEMMA ReadWordHolds ==
    ASSUME LoaderInv, NEW state \in {"magic", "size"}, Reads(state),
           word' = Append(word, to_loader[1]), Len(word') < WordSize,
           UNCHANGED <<loader, line, kernel_size, image, to_host>>, received' \in Nat
    PROVE  LoaderInv'
<1>1. /\ loader = state /\ Len(to_loader) \in Nat \ {0} /\ to_loader' \in Seq(Bytes)
      /\ Len(to_loader') = Len(to_loader) - 1 /\ to_loader[1] \in Bytes /\ host' = host
      /\ \A j \in 1 .. Len(to_loader) - 1 : to_loader'[j] = to_loader[j + 1]
      /\ line = <<>> /\ Len(word) < WordSize
      /\ host \in {"idle", "prompt", "start"}
      /\ host = "prompt" => to_loader' = <<>> /\ to_host = <<>>
      /\ host = "start" => ~Told("start")
      /\ word' \in Seq(Bytes) /\ Len(word') = Len(word) + 1
      /\ word'[Len(word) + 1] = to_loader[1]
      /\ \A j \in 1 .. Len(word) : word'[j] = word[j]
  BY WordRead
<1>2. loader' = state /\ line' = <<>> /\ Len(word) \in Nat /\ WordSize \in Nat \ {0}
  BY <1>1, LoaderFacts
<1>3. LoaderTypes' /\ Parsing' /\ Entered'
  BY <1>1, <1>2 DEF LoaderInv, LoaderTypes, Parsing, Entered
<1>4. NoSurplus'
  BY <1>1, <1>2 DEF LoaderInv, NoSurplus
<1>5. NoBoot'
  <2>1. ASSUME loader = "magic", NEW j \in 1 .. Len(to_loader'), Len(word') + j > WordSize
        PROVE  to_loader'[j] # BootByte
    <3>1. \A k \in 1 .. Len(to_loader) : Len(word) + k > WordSize => to_loader[k] # BootByte
      BY <1>1, <2>1 DEF LoaderInv, NoBoot
    <3>2. /\ j \in 1 .. Len(to_loader) - 1 /\ j + 1 \in 1 .. Len(to_loader)
          /\ Len(word) + (j + 1) > WordSize
      BY <1>1, <1>2, <2>1
    <3> QED BY <1>1, <3>1, <3>2
  <2>2. \A j \in 1 .. Len(line') : line'[j] # BootByte
    BY <1>2, EmptySeq
  <2>3. loader' = loader /\ loader # "line"
    BY <1>1, <1>2
  <2> QED BY <2>1, <2>2, <2>3 DEF NoBoot
<1>6. Prompting'
  <2>1. host = "prompt" => to_loader' = <<>> /\ to_host' = <<>>
    BY <1>1
  <2>2. host' = "prompt" => /\ to_host' = <<>> /\ Len(to_loader') <= 1
                            /\ \A j \in 1 .. Len(to_loader') : to_loader'[j] = Newline
    <3>1. ASSUME to_loader' = <<>> PROVE Len(to_loader') <= 1 /\ 1 .. Len(to_loader') = {}
      BY ONLY <3>1, EmptySeq
    <3> QED BY ONLY <1>1, <2>1, <3>1
  <2> QED BY ONLY <2>2 DEF Prompting
<1>7. ASSUME NEW n \in Nat, Whole(n) PROVE Whole(n)'
  <2>1. /\ n + Len(word) + Len(to_loader) = 2 * WordSize
        /\ \A j \in 1 .. Len(word) : word[j] = Words[n + j]
        /\ \A j \in 1 .. Len(to_loader) : to_loader[j] = Words[n + Len(word) + j]
    BY <1>7 DEF Whole
  <2>2. ASSUME NEW j \in 1 .. Len(word') PROVE word'[j] = Words[n + j]
    <3>1. CASE j = Len(word) + 1
      <4>1. 1 \in 1 .. Len(to_loader) /\ n + Len(word) + 1 = n + j
        BY <1>1, <1>2, <3>1
      <4>2. to_loader[1] = Words[n + Len(word) + 1]
        BY <2>1, <4>1
      <4> QED BY <1>1, <3>1, <4>1, <4>2
    <3>2. CASE j \in 1 .. Len(word)
      BY <1>1, <2>1, <3>2
    <3>3. j = Len(word) + 1 \/ j \in 1 .. Len(word)
      <4>1. Len(word) \in Nat /\ Len(word') = Len(word) + 1
        BY <1>1, <1>2
      <4> QED BY ONLY <4>1, j \in 1 .. Len(word')
    <3> QED BY ONLY <3>1, <3>2, <3>3
  <2>3. ASSUME NEW j \in 1 .. Len(to_loader') PROVE to_loader'[j] = Words[n + Len(word') + j]
    <3>1. /\ j \in 1 .. Len(to_loader) - 1 /\ j + 1 \in 1 .. Len(to_loader)
          /\ n + Len(word) + (j + 1) = n + Len(word') + j
      BY <1>1, <1>2
    <3>2. to_loader[j + 1] = Words[n + Len(word) + (j + 1)]
      BY <2>1, <3>1
    <3> QED BY <1>1, <3>1, <3>2
  <2>4. n + Len(word') + Len(to_loader') = 2 * WordSize
    <3>1. /\ Len(word') = Len(word) + 1 /\ Len(to_loader') = Len(to_loader) - 1
          /\ Len(word) \in Nat /\ Len(to_loader) \in Nat /\ WordSize \in Nat /\ n \in Nat
          /\ n + Len(word) + Len(to_loader) = 2 * WordSize
      BY <1>1, <1>2, <2>1
    <3> QED BY ONLY <3>1
  <2>5. UNCHANGED Words
    BY DEF Words
  <2> QED BY <2>2, <2>3, <2>4, <2>5 DEF Whole
<1>8. Starting'
  <2> SUFFICES ASSUME host = "start"
               PROVE  /\ ~Told("start")'
                      /\ \/ loader = "magic" /\ (Whole(0)' \/ Len(word') + Len(to_loader') < 2 * WordSize)
                         \/ loader = "size" /\ (Whole(WordSize)' \/ Len(word') + Len(to_loader') < WordSize)
    BY <1>1 DEF Starting
  <2>1. \/ loader = "magic" /\ (Whole(0) \/ Len(word) + Len(to_loader) < 2 * WordSize)
        \/ loader = "size" /\ (Whole(WordSize) \/ Len(word) + Len(to_loader) < WordSize)
    BY <1>1 DEF LoaderInv, Starting
  <2>2. Len(word') + Len(to_loader') = Len(word) + Len(to_loader)
    BY <1>1, <1>2
  <2>3. ~Told("start")'
    BY <1>1 DEF Told
  <2> QED BY <1>2, <1>7, <2>1, <2>2, <2>3
<1>9. Readying' /\ Finishing' /\ Finished'
  BY <1>1 DEF Readying, Finishing, Finished
<1> QED BY <1>3, <1>4, <1>5, <1>6, <1>8, <1>9 DEF LoaderInv

\* A word that is not accepted: the loader is back at its prompt.
LEMMA RefuseHolds ==
    ASSUME LoaderInv, NEW state \in {"magic", "size"}, Reads(state), Len(word) + 1 = WordSize,
           NEW answer \in {"bad_magic", "bad_size"}, Refuse(answer), word' = <<>>,
           UNCHANGED <<line, image>>, received' \in Nat
    PROVE  LoaderInv'
<1>1. /\ loader = state /\ Len(to_loader) \in Nat \ {0} /\ to_loader' \in Seq(Bytes)
      /\ Len(to_loader') = Len(to_loader) - 1 /\ to_loader[1] \in Bytes /\ host' = host
      /\ \A j \in 1 .. Len(to_loader) - 1 : to_loader'[j] = to_loader[j + 1]
      /\ line = <<>> /\ host \in {"idle", "prompt", "start"}
      /\ host = "prompt" => to_loader' = <<>> /\ to_host = <<>>
      /\ host = "start" => ~Told("start")
  BY WordRead
<1>2. /\ loader' = "line" /\ line' = <<>> /\ Len(word) \in Nat /\ WordSize \in Nat \ {0}
      /\ kernel_size' = 0 /\ Says(<<answer, "prompt">>) /\ Len(word') = 0
  BY <1>1, LoaderFacts, EmptySeq DEF Refuse
<1>3. /\ to_host' \in Seq(Messages)
      /\ ~Told("start") => ~Told("start")'
      /\ ~Told("prompt") => ToldLast("prompt")'
  BY <1>2, SaysTwo DEF Messages
<1>4. LoaderTypes' /\ Parsing' /\ Entered'
  BY <1>1, <1>2, <1>3, EmptySeq, WordAssumption DEF LoaderInv, LoaderTypes, Parsing, Entered
<1>5. NoSurplus'
  BY <1>1, <1>2 DEF LoaderInv, NoSurplus
<1>6. NoBoot'
  <2>1. ASSUME NEW j \in 1 .. Len(to_loader') PROVE to_loader'[j] # BootByte
    <3>1. /\ j \in 1 .. Len(to_loader) - 1 /\ j + 1 \in 1 .. Len(to_loader)
          /\ Len(word) + (j + 1) > WordSize
      BY <1>1, <1>2
    <3>2. CASE loader = "magic"
      <4>1. \A k \in 1 .. Len(to_loader) : Len(word) + k > WordSize => to_loader[k] # BootByte
        BY <1>1, <3>2 DEF LoaderInv, NoBoot
      <4> QED BY <1>1, <3>1, <4>1
    <3>3. CASE loader = "size"
      <4>1. Len(word) + Len(to_loader) <= WordSize
        BY <1>1, <3>3 DEF LoaderInv, NoSurplus
      <4> QED BY <1>1, <1>2, <3>1, <4>1
    <3> QED BY <1>1, <3>2, <3>3
  <2> QED BY <1>2, <2>1, EmptySeq DEF NoBoot
<1>7. Prompting'
  <2>1. host = "prompt" => ~Told("prompt")
    BY <1>1, EmptySeq DEF Told
  <2> QED BY <1>1, <1>2, <1>3, <2>1 DEF Prompting
<1>8. Starting'
  BY <1>1, <1>2, <1>3 DEF Starting
<1>9. Readying' /\ Finishing' /\ Finished'
  BY <1>1 DEF Readying, Finishing, Finished
<1> QED BY <1>4, <1>5, <1>6, <1>7, <1>8, <1>9 DEF LoaderInv


\* The first word of a header, a byte of it.
LEMMA ReadMagicHolds == LoaderInv /\ ReadMagic => LoaderInv'
<1> SUFFICES ASSUME LoaderInv, ReadMagic PROVE LoaderInv'
  OBVIOUS
<1> DEFINE bytes == Append(word, to_loader[1])
<1>1. Reads("magic") /\ UNCHANGED <<line, image, received>>
  BY DEF ReadMagic
<1>2. /\ loader = "magic" /\ Len(to_loader) \in Nat \ {0} /\ to_loader' \in Seq(Bytes)
      /\ Len(to_loader') = Len(to_loader) - 1
      /\ Head(to_loader) = to_loader[1] /\ host' = host
      /\ \A j \in 1 .. Len(to_loader) - 1 : to_loader'[j] = to_loader[j + 1]
      /\ line = <<>> /\ Len(word) < WordSize
      /\ host \in {"idle", "prompt", "start"}
      /\ host = "prompt" => to_loader' = <<>> /\ to_host = <<>>
      /\ host = "start" => ~Told("start")
      /\ Len(bytes) = Len(word) + 1
  BY <1>1, WordRead
<1>3. received \in Nat /\ Len(word) \in Nat /\ WordSize \in Nat \ {0}
  BY LoaderFacts
<1>4. \/ Len(bytes) < WordSize /\ word' = bytes /\ UNCHANGED <<loader, kernel_size, to_host>>
      \/ /\ ~(Len(bytes) < WordSize) /\ word' = <<>>
         /\ \/ bytes = Magic /\ loader' = "size" /\ UNCHANGED <<kernel_size, to_host>>
            \/ Refuse("bad_magic")
  BY <1>2 DEF ReadMagic
<1> HIDE DEF bytes
<1>5. CASE Len(bytes) < WordSize /\ word' = bytes /\ UNCHANGED <<loader, kernel_size, to_host>>
  <2>1. word' = Append(word, to_loader[1]) /\ Len(word') < WordSize
    BY <1>5 DEF bytes
  <2>2. UNCHANGED <<loader, line, kernel_size, image, to_host>> /\ received' \in Nat
    BY <1>1, <1>3, <1>5
  <2> QED BY <1>1, <2>1, <2>2, ReadWordHolds
<1>6. CASE ~(Len(bytes) < WordSize) /\ word' = <<>> /\ Refuse("bad_magic")
  <2>1. Len(word) + 1 = WordSize
    BY <1>2, <1>3, <1>6
  <2>2. UNCHANGED <<line, image>> /\ received' \in Nat
    BY <1>1, <1>3
  <2> QED BY <1>1, <1>6, <2>1, <2>2, RefuseHolds
<1>7. CASE /\ ~(Len(bytes) < WordSize) /\ word' = <<>>
           /\ loader' = "size" /\ UNCHANGED <<kernel_size, to_host>>
  <2>1. Len(word) + 1 = WordSize /\ Len(word') = 0 /\ line' = <<>> /\ to_host' = to_host
    BY <1>1, <1>2, <1>3, <1>7, EmptySeq
  <2>2. LoaderTypes' /\ Parsing' /\ Entered'
    BY <1>1, <1>2, <1>3, <1>7, <2>1, EmptySeq DEF LoaderInv, LoaderTypes, Parsing, Entered
  <2>3. NoSurplus'
    BY <1>2, <1>3, <1>7, <2>1 DEF LoaderInv, NoSurplus
  <2>4. NoBoot'
    BY <1>7, <2>1, EmptySeq DEF NoBoot
  <2>5. Prompting'
    <3>1. host = "prompt" => ~Told("prompt")
      BY <1>2, EmptySeq DEF Told
    <3> QED BY <1>2, <2>1, <3>1 DEF Prompting, Told, ToldLast
  <2>0. /\ Len(to_loader) \in Nat \ {0} /\ Len(to_loader') = Len(to_loader) - 1
        /\ Len(word) \in Nat /\ WordSize = Len(word) + 1 /\ Len(word') = 0
    BY <1>2, <1>3, <2>1
  <2>6. ASSUME Whole(0) PROVE Whole(WordSize)'
    <3>1. /\ Len(word) + Len(to_loader) = 2 * WordSize
          /\ \A j \in 1 .. Len(to_loader) : to_loader[j] = Words[0 + Len(word) + j]
      BY <1>2, <1>3, <2>6 DEF Whole
    <3>2. ASSUME NEW j \in 1 .. Len(to_loader')
          PROVE  to_loader'[j] = Words[WordSize + Len(word') + j]
      <4>1. /\ j \in 1 .. Len(to_loader) - 1 /\ j + 1 \in 1 .. Len(to_loader)
            /\ 0 + Len(word) + (j + 1) = WordSize + Len(word') + j
        BY ONLY <2>0, j \in 1 .. Len(to_loader')
      <4> QED BY <1>2, <3>1, <4>1
    <3>3. WordSize + Len(word') + Len(to_loader') = 2 * WordSize
      BY ONLY <2>0, <3>1
    <3>4. \A j \in 1 .. Len(word') : word'[j] = Words[WordSize + j]
      BY <2>1
    <3>5. UNCHANGED <<Words, WordSize>>
      BY DEF Words
    <3> QED BY <3>2, <3>3, <3>4, <3>5 DEF Whole
  <2>7. Starting'
    <3> SUFFICES ASSUME host = "start"
                 PROVE  /\ ~Told("start")'
                        /\ Whole(WordSize)' \/ Len(word') + Len(to_loader') < WordSize
      BY <1>2, <1>7 DEF Starting
    <3>1. Whole(0) \/ Len(word) + Len(to_loader) < 2 * WordSize
      BY <1>2 DEF LoaderInv, Starting
    <3>2. Len(word) + Len(to_loader) < 2 * WordSize => Len(word') + Len(to_loader') < WordSize
      BY <1>2, <1>3, <2>1
    <3>3. ~Told("start")'
      BY <1>2, <2>1 DEF Told
    <3> QED BY <2>6, <3>1, <3>2, <3>3
  <2>8. Readying' /\ Finishing' /\ Finished'
    BY <1>2 DEF Readying, Finishing, Finished
  <2> QED BY <2>2, <2>3, <2>4, <2>5, <2>7, <2>8 DEF LoaderInv
<1> QED BY <1>4, <1>5, <1>6, <1>7

\* The second word of a header, a byte of it: the size of the image follows from a whole one.
LEMMA ReadSizeHolds == LoaderInv /\ ReadSize => LoaderInv'
<1> SUFFICES ASSUME LoaderInv, ReadSize PROVE LoaderInv'
  OBVIOUS
<1> DEFINE bytes == Append(word, to_loader[1])
           value == ValueOfWord(bytes)
<1>1. Reads("size") /\ UNCHANGED <<line, image>> /\ received' = 0
  BY DEF ReadSize
<1>2. /\ loader = "size" /\ Len(to_loader) \in Nat \ {0} /\ to_loader' \in Seq(Bytes)
      /\ Len(to_loader') = Len(to_loader) - 1
      /\ Head(to_loader) = to_loader[1] /\ host' = host
      /\ line = <<>> /\ Len(word) < WordSize
      /\ host \in {"idle", "prompt", "start"}
      /\ host = "prompt" => to_loader' = <<>> /\ to_host = <<>>
      /\ host = "start" => ~Told("start")
      /\ bytes \in Seq(Bytes) /\ Len(bytes) = Len(word) + 1
      /\ bytes[Len(word) + 1] = to_loader[1]
      /\ \A j \in 1 .. Len(word) : bytes[j] = word[j]
  BY <1>1, WordRead
<1>3. Len(word) \in Nat /\ WordSize \in Nat \ {0}
  BY LoaderFacts
<1>4. \/ Len(bytes) < WordSize /\ word' = bytes /\ UNCHANGED <<loader, kernel_size, to_host>>
      \/ /\ ~(Len(bytes) < WordSize) /\ word' = <<>>
         /\ \/ /\ value \in 1 .. KernelMaxSize /\ loader' = "data" /\ kernel_size' = value
               /\ Says(<<"start">>)
            \/ Refuse("bad_size")
  BY <1>2 DEF ReadSize
<1> HIDE DEF bytes, value
<1>5. CASE Len(bytes) < WordSize /\ word' = bytes /\ UNCHANGED <<loader, kernel_size, to_host>>
  <2>1. word' = Append(word, to_loader[1]) /\ Len(word') < WordSize
    BY <1>5 DEF bytes
  <2>2. UNCHANGED <<loader, line, kernel_size, image, to_host>> /\ received' \in Nat
    BY <1>1, <1>5
  <2> QED BY <1>1, <2>1, <2>2, ReadWordHolds
<1>6. CASE ~(Len(bytes) < WordSize) /\ word' = <<>> /\ Refuse("bad_size")
  <2>1. Len(word) + 1 = WordSize
    BY <1>2, <1>3, <1>6
  <2>2. UNCHANGED <<line, image>> /\ received' \in Nat
    BY <1>1
  <2> QED BY <1>1, <1>6, <2>1, <2>2, RefuseHolds
<1>7. CASE /\ ~(Len(bytes) < WordSize) /\ word' = <<>> /\ value \in 1 .. KernelMaxSize
           /\ loader' = "data" /\ kernel_size' = value /\ Says(<<"start">>)
  <2>1. /\ Len(word) + 1 = WordSize /\ Len(bytes) = WordSize /\ Len(word') = 0 /\ line' = <<>>
        /\ kernel_size' \in Nat \ {0}
    BY <1>1, <1>2, <1>3, <1>7, EmptySeq, WordAssumption
  <2>2. /\ to_host' \in Seq(Messages)
        /\ ~Told("prompt") => ~Told("prompt")'
        /\ ~Told("start") => ToldLast("start")'
    BY <1>7, SaysOne DEF Messages
  <2>3. Len(to_loader) = 1 /\ to_loader' = <<>> /\ Len(to_loader') = 0
    <3>1. Len(word) + Len(to_loader) <= WordSize
      BY <1>2 DEF LoaderInv, NoSurplus
    <3>2. Len(to_loader) = 1 /\ Len(to_loader') = 0
      BY <1>2, <1>3, <2>1, <3>1
    <3> QED BY <1>2, <3>2, EmptySeq
  <2>4. LoaderTypes' /\ Parsing' /\ Entered'
    BY <1>1, <1>2, <1>7, <2>1, <2>2, EmptySeq, WordAssumption
       DEF LoaderInv, LoaderTypes, Parsing, Entered
  <2>5. NoSurplus'
    BY <1>1, <1>7, <2>1, <2>3 DEF NoSurplus
  <2>6. NoBoot'
    BY <1>7, <2>1, <2>3 DEF NoBoot
  <2>7. Prompting'
    <3> SUFFICES ASSUME host = "prompt" PROVE ToldLast("prompt")' /\ ~Told("prompt")'
      BY <1>2, <2>3 DEF Prompting
    <3>1. ~Told("prompt")
      BY <1>2, EmptySeq DEF Told
    <3> QED BY <2>2, <3>1 DEF Told, ToldLast
  <2>8. Starting'
    <3> SUFFICES ASSUME host = "start" PROVE kernel_size' = Len(Kernel)
      BY <1>1, <1>2, <1>7, <2>2, <2>3 DEF Starting
    <3>1. Whole(WordSize)
      BY <1>2, <1>3, <2>1, <2>3 DEF LoaderInv, Starting
    <3>2. /\ \A j \in 1 .. Len(word) : word[j] = Words[WordSize + j]
          /\ \A j \in 1 .. Len(to_loader) : to_loader[j] = Words[WordSize + Len(word) + j]
      BY <3>1 DEF Whole
    <3>3. ASSUME NEW j \in 1 .. WordSize PROVE bytes[j] = SizeWord[j]
      <4>1. Words[WordSize + j] = SizeWord[j]
        BY WordFacts
      <4>2. CASE j = Len(word) + 1
        <5>1. 1 \in 1 .. Len(to_loader) /\ WordSize + Len(word) + 1 = WordSize + j
          BY <1>3, <2>3, <4>2
        <5> QED BY <1>2, <3>2, <4>1, <4>2, <5>1
      <4>3. CASE j \in 1 .. Len(word)
        BY <1>2, <3>2, <4>1, <4>3
      <4> QED BY <1>3, <2>1, <4>2, <4>3
    <3>4. bytes = SizeWord
      <4>1. SizeWord \in Seq(Bytes) /\ Len(SizeWord) = Len(bytes)
        BY <2>1, WordFacts
      <4> QED BY <1>2, <2>1, <3>3, <4>1, SeqEqual
    <3> QED BY <1>7, <3>4, WordAssumption DEF value
  <2>9. Readying' /\ Finishing' /\ Finished'
    BY <1>2 DEF Readying, Finishing, Finished
  <2> QED BY <2>4, <2>5, <2>6, <2>7, <2>8, <2>9 DEF LoaderInv
<1> QED BY <1>4, <1>5, <1>6, <1>7

\* The loader reads a byte of an image: nobody waits for it, or the host for its end.
LEMMA DataRead ==
    ASSUME LoaderInv, Reads("data")
    PROVE  /\ loader = "data" /\ Len(to_loader) \in Nat \ {0} /\ to_loader' \in Seq(Bytes)
           /\ Len(to_loader') = Len(to_loader) - 1 /\ to_loader[1] \in Bytes
           /\ Head(to_loader) = to_loader[1] /\ host' = host
           /\ \A j \in 1 .. Len(to_loader) - 1 : to_loader'[j] = to_loader[j + 1]
           /\ line = <<>> /\ word = <<>>
           /\ received \in Nat /\ kernel_size \in 0 .. KernelMaxSize /\ KernelMaxSize \in Nat
           /\ received < kernel_size /\ received + Len(to_loader) <= kernel_size
           /\ host \in {"idle", "prompt", "done"}
           /\ host = "prompt" => to_loader' = <<>> /\ to_host = <<>>
           /\ host = "done" => ~Told("done") /\ kernel_size = Len(Kernel)
           /\ host = "done" /\ received + Len(to_loader) = Len(Kernel) => SoFar
<1>1. /\ loader = "data" /\ to_loader # <<>> /\ Len(to_loader) \in Nat \ {0}
      /\ to_loader' \in Seq(Bytes) /\ Len(to_loader') = Len(to_loader) - 1
      /\ Head(to_loader) = to_loader[1] /\ to_loader[1] \in Bytes
      /\ \A j \in 1 .. Len(to_loader) - 1 : to_loader'[j] = to_loader[j + 1]
      /\ host' = host
  BY ReadFacts
<1>2. /\ line = <<>> /\ word = <<>> /\ received < kernel_size
      /\ received \in Nat /\ kernel_size \in 0 .. KernelMaxSize /\ KernelMaxSize \in Nat
  BY <1>1, WordAssumption DEF LoaderInv, Parsing, LoaderTypes
<1>3. host \in {"idle", "prompt", "done"}
  BY <1>1 DEF LoaderInv, LoaderTypes, Readying, Starting, Finished
<1>4. received + Len(to_loader) <= kernel_size
  BY <1>1, <1>3 DEF LoaderInv, NoSurplus
<1>5. host = "prompt" => to_loader' = <<>> /\ to_host = <<>>
  <2>1. host = "prompt" => Len(to_loader) <= 1 /\ to_host = <<>>
    BY <1>1 DEF LoaderInv, Prompting
  <2> QED BY <1>1, <2>1, EmptySeq
<1>6. /\ host = "done" => ~Told("done") /\ kernel_size = Len(Kernel)
      /\ host = "done" /\ received + Len(to_loader) = Len(Kernel) => SoFar
  BY <1>1 DEF LoaderInv, Finishing
<1> QED BY <1>1, <1>2, <1>3, <1>4, <1>5, <1>6

\* It goes where the image has it.
LEMMA ByteStored ==
    ASSUME LoaderInv, Reads("data"), SoFar, received < Len(Kernel),
           image' = [image EXCEPT ![received] = Head(to_loader)], received' = received + 1
    PROVE  SoFar'
<1>1. /\ Len(to_loader) \in Nat \ {0} /\ Len(to_loader') = Len(to_loader) - 1
      /\ Head(to_loader) = to_loader[1]
      /\ \A j \in 1 .. Len(to_loader) - 1 : to_loader'[j] = to_loader[j + 1]
      /\ received \in Nat /\ received < kernel_size /\ kernel_size \in 0 .. KernelMaxSize
      /\ KernelMaxSize \in Nat
  BY DataRead
<1>2. received \in 0 .. KernelMaxSize - 1 /\ image \in [0 .. KernelMaxSize - 1 -> Bytes]
  BY <1>1 DEF LoaderInv, LoaderTypes
<1>3. image'[received] = to_loader[1] /\ \A i : i # received => image'[i] = image[i]
  <2>1. image'[received] = to_loader[1]
    BY <1>1, <1>2
  <2>2. ASSUME NEW i, i # received PROVE image'[i] = image[i]
    BY <1>2, <2>2
  <2> QED BY <2>1, <2>2
<1>4. /\ \A i \in 1 .. received : image[i - 1] = Kernel[i]
      /\ \A j \in 1 .. Len(to_loader) : to_loader[j] = Kernel[received + j]
  BY DEF SoFar
<1>5. ASSUME NEW i \in 1 .. received' PROVE image'[i - 1] = Kernel[i]
  <2>1. CASE i = received + 1
    <3>1. 1 \in 1 .. Len(to_loader) /\ i - 1 = received
      BY <1>1, <2>1
    <3> QED BY <1>3, <1>4, <2>1, <3>1
  <2>2. CASE i \in 1 .. received
    <3>1. i - 1 # received
      BY <1>1, <2>2
    <3> QED BY <1>3, <1>4, <2>2, <3>1
  <2> QED BY <1>1, <2>1, <2>2
<1>6. ASSUME NEW j \in 1 .. Len(to_loader') PROVE to_loader'[j] = Kernel[received' + j]
  <2>1. /\ j \in 1 .. Len(to_loader) - 1 /\ j + 1 \in 1 .. Len(to_loader)
        /\ received + (j + 1) = received' + j
    BY <1>1
  <2> QED BY <1>1, <1>4, <2>1
<1> QED BY <1>5, <1>6 DEF SoFar

\* The image, a byte of it: with the last one it is in memory.
LEMMA ReadDataHolds == LoaderInv /\ ReadData => LoaderInv'
<1> SUFFICES ASSUME LoaderInv, ReadData PROVE LoaderInv'
  OBVIOUS
<1>1. /\ Reads("data") /\ UNCHANGED <<line, word, kernel_size>>
      /\ image' = [image EXCEPT ![received] = Head(to_loader)] /\ received' = received + 1
  BY DEF ReadData
<1>2. /\ loader = "data" /\ Len(to_loader) \in Nat \ {0} /\ to_loader' \in Seq(Bytes)
      /\ Len(to_loader') = Len(to_loader) - 1 /\ to_loader[1] \in Bytes
      /\ Head(to_loader) = to_loader[1] /\ host' = host
      /\ line' = <<>> /\ word' = <<>>
      /\ received \in Nat /\ kernel_size \in 0 .. KernelMaxSize /\ KernelMaxSize \in Nat
      /\ received < kernel_size /\ received + Len(to_loader) <= kernel_size
      /\ host \in {"idle", "prompt", "done"}
      /\ host = "prompt" => to_loader' = <<>> /\ to_host = <<>>
      /\ host = "done" => ~Told("done") /\ kernel_size = Len(Kernel)
  BY <1>1, DataRead
<1>3. host = "done" /\ received + Len(to_loader) = Len(Kernel) => SoFar'
  <2> SUFFICES ASSUME host = "done", received + Len(to_loader) = Len(Kernel) PROVE SoFar'
    OBVIOUS
  <2>1. SoFar
    BY <1>1, DataRead
  <2>2. received < Len(Kernel)
    BY <1>2
  <2> QED BY <1>1, <2>1, <2>2, ByteStored
<1>4. image' \in [0 .. KernelMaxSize - 1 -> Bytes] /\ received' \in Nat /\ kernel_size' = kernel_size
  BY <1>1, <1>2 DEF LoaderInv, LoaderTypes
<1>5. /\ Len(line') = 0 /\ Len(word') = 0 /\ WordSize \in Nat \ {0}
  BY <1>2, EmptySeq, WordAssumption
<1>6. Readying' /\ Starting' /\ Finished'
  BY <1>2 DEF Readying, Starting, Finished
<1>7. CASE ~DataDone /\ UNCHANGED <<loader, to_host>>
  <2>1. LoaderTypes' /\ Parsing' /\ Entered'
    BY <1>1, <1>2, <1>4, <1>7, EmptySeq
       DEF LoaderInv, LoaderTypes, Parsing, Entered, DataDone
  <2>2. NoSurplus' /\ NoBoot'
    BY <1>1, <1>2, <1>4, <1>5, <1>7 DEF NoSurplus, NoBoot
  <2>3. Prompting'
    <3>1. host = "prompt" => ~Told("prompt")
      BY <1>2, EmptySeq DEF Told
    <3> QED BY <1>2, <1>7, <3>1 DEF Prompting, Told, ToldLast
  <2>4. Finishing'
    <3>1. host = "done" => ~Told("done")'
      BY <1>2, <1>7 DEF Told
    <3>2. received' + Len(to_loader') = received + Len(to_loader)
      BY <1>1, <1>2
    <3> QED BY <1>2, <1>3, <1>4, <1>7, <3>1, <3>2 DEF Finishing
  <2> QED BY <1>6, <2>1, <2>2, <2>3, <2>4 DEF LoaderInv
<1>8. CASE DataDone /\ loader' = "line" /\ Says(<<"done", "prompt">>)
  <2>1. /\ to_host' \in Seq(Messages)
        /\ ~Told("prompt") => ToldLast("prompt")'
    BY <1>8, SaysTwo DEF Messages
  <2>2. to_loader' = <<>> /\ Len(to_loader') = 0 /\ received + 1 = kernel_size /\ Len(to_loader) = 1
    <3>1. received + 1 = kernel_size
      BY <1>8 DEF DataDone
    <3>2. Len(to_loader) = 1 /\ Len(to_loader') = 0
      BY <1>2, <3>1
    <3> QED BY <1>2, <3>1, <3>2, EmptySeq
  <2>3. LoaderTypes' /\ Parsing' /\ Entered'
    BY <1>2, <1>4, <1>8, <2>1, EmptySeq
       DEF LoaderInv, LoaderTypes, Parsing, Entered
  <2>4. NoSurplus' /\ NoBoot'
    BY <1>5, <1>8, <2>2 DEF NoSurplus, NoBoot
  <2>5. Prompting'
    <3>1. host = "prompt" => ~Told("prompt")
      BY <1>2, EmptySeq DEF Told
    <3> QED BY <1>2, <1>8, <2>1, <2>2, <3>1 DEF Prompting
  <2>6. Finishing'
    <3> SUFFICES ASSUME host = "done" PROVE Loaded'
      BY <1>2, <1>8, <2>2 DEF Finishing
    <3>1. SoFar' /\ received' = Len(Kernel)
      BY <1>1, <1>2, <1>3, <2>2
    <3>2. kernel_size' = Len(Kernel)
      BY <1>2, <1>4
    <3>3. \A i \in 1 .. Len(Kernel) : image'[i - 1] = Kernel[i]
      BY <3>1 DEF SoFar
    <3> QED BY <3>2, <3>3 DEF Loaded
  <2> QED BY <1>6, <2>3, <2>4, <2>5, <2>6 DEF LoaderInv
<1> QED BY <1>7, <1>8 DEF ReadData

\* boot_kernel jumps to an image only when the host has seen its upload completed.
LEMMA EnterHolds == LoaderInv /\ EnterKernel => LoaderInv'
<1> SUFFICES ASSUME LoaderInv, EnterKernel PROVE LoaderInv'
  OBVIOUS
<1>1. /\ loader = "booted" /\ loader' = "entered" /\ host' = "finished"
      /\ to_loader' = <<>> /\ to_host' = <<>> /\ line' = <<>> /\ word' = <<>> /\ received' = 0
      /\ kernel_size' = kernel_size /\ image' = image
  BY DEF EnterKernel
<1>2. LoaderTypes' /\ Parsing' /\ Entered'
  BY <1>1, EmptySeq DEF LoaderInv, LoaderTypes, Parsing, Entered
<1>3. NoSurplus' /\ NoBoot' /\ Prompting' /\ Readying' /\ Starting' /\ Finishing'
  BY <1>1 DEF NoSurplus, NoBoot, Prompting, Readying, Starting, Finishing
<1>4. Finished'
  <2>1. host = "finished"
    BY <1>1 DEF LoaderInv, NoSurplus
  <2>2. Loaded
    BY <2>1 DEF LoaderInv, Finished
  <2> QED BY <1>1, <2>2, EmptySeq DEF Finished, Loaded
<1> QED BY <1>2, <1>3, <1>4 DEF LoaderInv

\* A step of the uploader, the line or the loader.
LEMMA LoaderStep == LoaderInv /\ LoaderNext => LoaderInv'
<1> SUFFICES ASSUME LoaderInv, LoaderNext PROVE LoaderInv'
  OBVIOUS
<1>1. CASE HostNext
  <2>1. \/ HostStart \/ SeesPrompt \/ SeesReady \/ SeesStart \/ SeesDone \/ SkipsMessage
        \/ HostTimesOut \/ HostInterrupted \/ \E n \in 0 .. Len(Kernel) - 1 : SendsPart(n)
    BY <1>1 DEF HostNext
  <2> QED BY <2>1, HostStartHolds, SeesPromptHolds, SeesReadyHolds, SeesStartHolds, SeesDoneHolds,
             SkipsMessageHolds, GivesUpHolds, SendsPartHolds
<1>2. CASE BoardNext
  <2>1. ReadLine \/ ReadMagic \/ ReadSize \/ ReadData
    BY <1>2 DEF BoardNext
  <2> QED BY <2>1, ReadCharHolds, ReadNewlineHolds, ReadMagicHolds, ReadSizeHolds, ReadDataHolds
<1>3. CASE \E i \in 1 .. Len(to_loader) : LineLoses(i)
  BY <1>3, LineLosesHolds
<1> QED BY <1>1, <1>2, <1>3 DEF LoaderNext

\* A step of the kernel leaves what it was loaded with.
LEMMA LoaderKept == LoaderInv /\ UNCHANGED loaderVars => LoaderInv'
<1> SUFFICES ASSUME LoaderInv, UNCHANGED loaderVars PROVE LoaderInv'
  OBVIOUS
<1>1. UNCHANGED <<host, to_loader, to_host, loader, line, word, kernel_size, image, received>>
  BY DEF loaderVars, hostVars, lineVars, boardVars
<1>2. LoaderTypes' /\ Parsing' /\ NoSurplus' /\ NoBoot' /\ Entered'
  BY <1>1 DEF LoaderInv, LoaderTypes, Parsing, NoSurplus, NoBoot, Entered
<1>3. Prompting' /\ Readying'
  BY <1>1 DEF LoaderInv, Prompting, Readying, Told, ToldLast
<1>4. Starting' /\ Finishing' /\ Finished'
  BY <1>1 DEF LoaderInv, Starting, Finishing, Finished, Told, ToldLast, Whole, Words, Loaded, SoFar
<1> QED BY <1>2, <1>3, <1>4 DEF LoaderInv

\* The loader's and the uploader's part of every state.
THEOREM LoaderInvariant == PowerOnSpec => []LoaderInv
<1>1. PowerOnInit => LoaderInv
  BY LoaderInitHolds DEF PowerOnInit
<1>2. LoaderInv /\ [PowerOnNext]_<<loaderVars, vars>> => LoaderInv'
  <2> SUFFICES ASSUME LoaderInv, [PowerOnNext]_<<loaderVars, vars>> PROVE LoaderInv'
    OBVIOUS
  <2>1. CASE LoaderNext
    BY <2>1, LoaderStep
  <2>2. CASE EnterKernel
    BY <2>2, EnterHolds
  <2>3. CASE UNCHANGED loaderVars
    BY <2>3, LoaderKept
  <2> QED BY <2>1, <2>2, <2>3 DEF PowerOnNext
<1> QED BY <1>1, <1>2, PTL DEF PowerOnSpec

\* When the uploader reports its upload completed, the image it sent is in memory, whole and
\* in place, whatever earlier attempts and lost bytes left behind (upload_kernel, receive_kernel).
THEOREM UploadCorrect == PowerOnSpec => []UploadExact
<1>1. LoaderInv => UploadExact
  BY DEF LoaderInv, Finished, Loaded, UploadExact
<1> QED BY <1>1, LoaderInvariant, PTL
-------------------------------------------------------------------------------
(* Pages and ranges *)

\* Quotient and remainder.
LEMMA DivFacts ==
    ASSUME NEW n \in Nat, NEW m \in Nat \ {0}
    PROVE  n \div m \in Nat /\ n % m \in 0 .. m - 1 /\ n = m * (n \div m) + (n % m)
OBVIOUS

\* A smaller factor gives a smaller product.
LEMMA ProductsInOrder ==
    ASSUME NEW a \in Nat, NEW b \in Nat, NEW m \in Nat, a <= b
    PROVE  a * m <= b * m
OBVIOUS

\* Where page k and the next one begin.
LEMMA PageBegins ==
    ASSUME NEW k \in Nat
    PROVE  PageSize \in Nat \ {0} /\ k * PageSize \in Nat /\ (k + 1) * PageSize = k * PageSize + PageSize
BY PageAssumption

\* An address lies in the page of its quotient.
LEMMA PageHolds ==
    ASSUME NEW n \in Nat
    PROVE  /\ n \div PageSize \in Nat /\ (n \div PageSize) * PageSize <= n
           /\ n < (n \div PageSize) * PageSize + PageSize
<1>1. PageSize \in Nat \ {0}
  BY PageAssumption
<1>2. /\ n \div PageSize \in Nat /\ n % PageSize \in 0 .. PageSize - 1
      /\ n = PageSize * (n \div PageSize) + (n % PageSize)
  BY <1>1, DivFacts
<1> DEFINE q == n \div PageSize
           r == n % PageSize
           p == PageSize * q
<1>3. p = q * PageSize /\ p \in Nat
  BY <1>1, <1>2
<1> HIDE DEF q, r
<1>4. q \in Nat /\ r \in 0 .. PageSize - 1 /\ n = p + r
  BY <1>2 DEF q, r
<1> HIDE DEF p
<1>5. p <= n /\ n < p + PageSize
  BY ONLY <1>1, <1>3, <1>4, n \in Nat
<1> QED BY <1>3, <1>4, <1>5 DEF q

\* A page that a range does not touch.
LEMMA PageApart ==
    ASSUME NEW range \in Nat \X Nat, range[1] < range[2], NEW page \in Nat, page \notin PagesOf(range)
    PROVE  Apart(page, range)
<1> DEFINE a == range[1]
           b == range[2] - 1
           first == a \div PageSize
           last == b \div PageSize
<1>1. a \in Nat /\ b \in Nat /\ range[2] = b + 1
  OBVIOUS
<1>2. /\ first \in Nat /\ first * PageSize <= a
      /\ last \in Nat /\ b < last * PageSize + PageSize
  BY <1>1, PageHolds
<1>3. page \notin first .. last
  BY DEF PagesOf
<1>4. /\ PageSize \in Nat \ {0}
      /\ page * PageSize \in Nat /\ (page + 1) * PageSize = page * PageSize + PageSize
      /\ last * PageSize \in Nat /\ (last + 1) * PageSize = last * PageSize + PageSize
  BY <1>2, PageBegins
<1> HIDE DEF first, last, a, b
<1>5. CASE page + 1 <= first
  <2>1. (page + 1) * PageSize <= first * PageSize
    BY <1>2, <1>4, <1>5, ProductsInOrder
  <2>2. first * PageSize \in Nat
    BY <1>2, PageBegins
  <2>3. (page + 1) * PageSize <= a
    BY ONLY <1>1, <1>2, <1>4, <2>1, <2>2
  <2> QED BY <2>3 DEF Apart, a
<1>6. CASE last + 1 <= page
  <2>1. (last + 1) * PageSize <= page * PageSize
    BY <1>2, <1>4, <1>6, ProductsInOrder
  <2>2. b + 1 <= page * PageSize
    BY ONLY <1>1, <1>2, <1>4, <2>1
  <2> QED BY <1>1, <2>2 DEF Apart
<1>7. page + 1 <= first \/ last + 1 <= page
  BY ONLY <1>2, <1>3, page \in Nat
<1> QED BY <1>5, <1>6, <1>7

\* A page of memory whose ends are page boundaries.
LEMMA PageWithin ==
    ASSUME NEW range \in Nat \X Nat, range[1] < range[2], NEW page \in PagesOf(range),
           range[1] % PageSize = 0, range[2] % PageSize = 0
    PROVE  page \in Nat /\ page * PageSize >= range[1] /\ (page + 1) * PageSize <= range[2]
<1> DEFINE a == range[1]
           b == range[2]
           first == a \div PageSize
           last == (b - 1) \div PageSize
           end == b \div PageSize
<1>1. a \in Nat /\ b \in Nat /\ b - 1 \in Nat /\ PageSize \in Nat \ {0}
  BY PageAssumption
<1>2. /\ first \in Nat /\ a = PageSize * first /\ end \in Nat /\ b = PageSize * end
  <2>1. ASSUME NEW n \in Nat, n % PageSize = 0
        PROVE  n \div PageSize \in Nat /\ n = PageSize * (n \div PageSize)
    <3> DEFINE q == n \div PageSize
               p == PageSize * q
    <3>1. q \in Nat /\ n = p + (n % PageSize)
      BY <1>1, DivFacts
    <3>2. p \in Nat
      BY <1>1, <3>1
    <3> HIDE DEF p
    <3>3. n = p
      BY ONLY <2>1, <3>1, <3>2
    <3> QED BY <3>1, <3>3 DEF p
  <2>2. a % PageSize = 0 /\ b % PageSize = 0
    OBVIOUS
  <2> HIDE DEF a, b
  <2> QED BY <1>1, <2>1, <2>2
<1>3. a = first * PageSize /\ b = end * PageSize
  BY <1>1, <1>2
<1>4. last \in Nat /\ last * PageSize <= b - 1
  BY <1>1, PageHolds
<1>5. page \in first .. last
  BY DEF PagesOf
<1> HIDE DEF first, last, a, b, end
<1>6. page \in Nat /\ first <= page /\ page <= last
  BY <1>2, <1>4, <1>5
<1>7. first * PageSize <= page * PageSize /\ page * PageSize <= last * PageSize
  BY <1>1, <1>2, <1>4, <1>6, ProductsInOrder
<1>8. page * PageSize \in Nat /\ last * PageSize \in Nat
  BY <1>4, <1>6, PageBegins
<1>9. page * PageSize < end * PageSize
  BY ONLY <1>1, <1>3, <1>4, <1>7, <1>8
<1>10. page + 1 <= end
  <2>1. ~(end <= page)
    <3>1. end <= page => end * PageSize <= page * PageSize
      BY <1>1, <1>2, <1>6, ProductsInOrder
    <3>2. end * PageSize \in Nat
      BY <1>2, PageBegins
    <3> QED BY ONLY <1>8, <1>9, <3>1, <3>2
  <2> QED BY ONLY <1>2, <1>6, <2>1
<1>11. (page + 1) * PageSize <= end * PageSize
  BY <1>1, <1>2, <1>6, <1>10, ProductsInOrder
<1>12. page * PageSize >= a
  BY ONLY <1>1, <1>3, <1>7, <1>8
<1> QED BY <1>3, <1>6, <1>11, <1>12 DEF a, b
-------------------------------------------------------------------------------
(* The inductive invariant of the boot *)

Seeking == {"address_cells", "size_cells", "initrd_start", "initrd_end"}
Booting == Seeking \cup {"fdt_init", "memory", "buddy_init", "buddy_build"}
               \cup {"spin_table", "kernel_stack", "kernel_image", "startup_heap", "initramfs", "fdt"}
BootTypes ==
    /\ blob \in Blobs /\ pc \in Booting \cup {"shell"}
    /\ memory \in Nat \X Nat /\ initramfs \in Nat \X Nat /\ initrd_begin \in Nat
    /\ buddy_state \in {"UNINITIALIZED", "RESERVING", "READY"}
    /\ command \in Walkers \cup {"none", "el0"} /\ cursor \in Nat /\ file \in Nat \X Nat

\* What main takes from a traversal is what it asked it for.
Fields == {"lookup", "at", "node_stack", "memory_depth", "path_matches", "status", "value"}
Finding ==
    /\ DOMAIN walk = Fields /\ walk.at \in Nat \ {0}
    /\ pc \in Seeking => /\ walk.lookup.kind = "property"
                         /\ walk.status = "FOUND" => walk.value \in Seq(Nat)
    /\ pc = "memory" => /\ walk.lookup.kind = "memory"
                        /\ walk.lookup.address_cells \in 1 .. 2 /\ walk.lookup.size_cells \in 1 .. 2
                        /\ walk.status = "FOUND" => walk.value \in Nat \X Nat

\* The memory begins and ends with a page, and the first n reservations lie in it and are made.
Bounded == /\ memory[1] < memory[2]
           /\ memory[1] % PageSize = 0 /\ memory[2] % PageSize = 0
Made(range) == range[1] < range[2] /\ PagesOf(range) \subseteq reserved
Reserving ==
    /\ \A i \in 1 .. Len(Reservations) :
          pc = Step[i] => Bounded /\ \A j \in 1 .. i - 1 : Made(Reservations[j])
    /\ pc = "buddy_build" => Bounded /\ \A j \in 1 .. Len(Reservations) : Made(Reservations[j])
    /\ buddy_state = "READY" =>
          pc = "shell" /\ Bounded /\ \A j \in 1 .. Len(Reservations) : Made(Reservations[j])

\* The pages the threads use, and what a walk of the archive has read.
Using == /\ used \subseteq Managed \ reserved
         /\ buddy_state # "READY" => used = {}
Reading == /\ pc # "shell" => command = "none" /\ file = NoSpan
           /\ file # NoSpan => Inside(file, initramfs)

BootInv == BootTypes /\ Finding /\ Reserving /\ Using /\ Reading

\* The regions main reserves, whatever the tree says.
LEMMA RegionFacts ==
    ASSUME BootTypes
    PROVE  /\ Len(Reservations) \in 5 .. 6
           /\ Reservations[1] = SpinTable /\ Reservations[2] = KernelStack
           /\ Reservations[3] = KernelImage /\ Reservations[4] = StartupHeap
           /\ Reservations[5] = initramfs
           /\ FdtOk => Len(Reservations) = 6 /\ Reservations[6] = FdtRange
           /\ ~FdtOk => Len(Reservations) = 5
           /\ \A i \in 1 .. Len(Reservations) : Reservations[i] \in Nat \X Nat
<1>1. {SpinTable, KernelStack, KernelImage, StartupHeap, initramfs, FdtRange} \subseteq Nat \X Nat
  <2>1. blob.total_size \in Nat /\ BlobBase \in Nat
    BY TreeAssumption, LayoutAssumption DEF BootTypes
  <2>2. FdtRange \in Nat \X Nat
    BY <2>1 DEF FdtRange
  <2> QED BY <2>2, LayoutAssumption DEF BootTypes
<1> DEFINE five == <<SpinTable, KernelStack, KernelImage, StartupHeap, initramfs>>
<1>2. CASE FdtOk
  <2> DEFINE S == Nat \X Nat
             sixth == <<FdtRange>>
  <2>1. Reservations = five \o sixth
    BY <1>2 DEF Reservations
  <2>2. /\ five \in Seq(S) /\ Len(five) = 5 /\ five[1] = SpinTable /\ five[2] = KernelStack
        /\ five[3] = KernelImage /\ five[4] = StartupHeap /\ five[5] = initramfs
        /\ sixth \in Seq(S) /\ Len(sixth) = 1 /\ sixth[1] = FdtRange
    BY <1>1
  <2> HIDE DEF five, sixth, S
  <2>5. /\ Len(five \o sixth) = Len(five) + Len(sixth)
        /\ \A i \in 1 .. Len(five) + Len(sixth) :
              (five \o sixth)[i] = IF i <= Len(five) THEN five[i] ELSE sixth[i - Len(five)]
    BY <2>2, ConcatProperties
  <2>3. Len(Reservations) = 6
    BY <2>1, <2>2, <2>5
  <2>4. /\ Reservations[1] = SpinTable /\ Reservations[2] = KernelStack
        /\ Reservations[3] = KernelImage /\ Reservations[4] = StartupHeap
        /\ Reservations[5] = initramfs /\ Reservations[6] = FdtRange
    BY <2>1, <2>2, <2>5
  <2> QED BY <1>1, <1>2, <2>3, <2>4
<1>3. CASE ~FdtOk
  <2>1. Reservations = five \o <<>>
    BY <1>3 DEF Reservations
  <2>2. Reservations = five
    BY <2>1
  <2>3. Len(Reservations) = 5
    BY <2>2
  <2>4. /\ Reservations[1] = SpinTable /\ Reservations[2] = KernelStack
        /\ Reservations[3] = KernelImage /\ Reservations[4] = StartupHeap
        /\ Reservations[5] = initramfs
    BY <2>2
  <2> QED BY <1>1, <1>3, <2>3, <2>4
<1> QED BY <1>2, <1>3

\* The pages of the allocator hold no byte of a region.
LEMMA InUseKept == BootInv => InUseNotFree
<1> SUFFICES ASSUME BootInv, NEW page \in Free \cup used
             PROVE  /\ page * PageSize >= memory[1] /\ (page + 1) * PageSize <= memory[2]
                    /\ \A range \in {SpinTable, KernelStack, KernelImage, StartupHeap, initramfs} :
                          Apart(page, range)
                    /\ FdtOk => Apart(page, FdtRange)
  BY DEF InUseNotFree
<1>1. buddy_state = "READY" /\ page \in Managed /\ page \notin reserved
  BY DEF BootInv, Using, Free
<1>2. Bounded /\ \A j \in 1 .. Len(Reservations) : Made(Reservations[j])
  BY <1>1 DEF BootInv, Reserving
<1>3. memory \in Nat \X Nat /\ BootTypes
  BY DEF BootInv, BootTypes
<1>4. page \in Nat /\ page * PageSize >= memory[1] /\ (page + 1) * PageSize <= memory[2]
  BY <1>1, <1>2, <1>3, PageWithin DEF Bounded, Managed
<1>5. ASSUME NEW j \in 1 .. Len(Reservations) PROVE Apart(page, Reservations[j])
  <2>1. /\ Reservations[j] \in Nat \X Nat /\ Reservations[j][1] < Reservations[j][2]
        /\ page \notin PagesOf(Reservations[j])
    BY <1>1, <1>2, <1>3, RegionFacts DEF Made
  <2> QED BY <1>4, <2>1, PageApart
<1>6. \A range \in {SpinTable, KernelStack, KernelImage, StartupHeap, initramfs} :
         \E j \in 1 .. Len(Reservations) : range = Reservations[j]
  <2>1. {1, 2, 3, 4, 5} \subseteq 1 .. Len(Reservations)
    <3>1. Len(Reservations) \in 5 .. 6
      BY <1>3, RegionFacts
    <3>2. \A n \in 5 .. 6 : 1 \in 1 .. n /\ 2 \in 1 .. n /\ 3 \in 1 .. n /\ 4 \in 1 .. n /\ 5 \in 1 .. n
      OBVIOUS
    <3> QED BY <3>1, <3>2
  <2>2. /\ Reservations[1] = SpinTable /\ Reservations[2] = KernelStack
        /\ Reservations[3] = KernelImage /\ Reservations[4] = StartupHeap
        /\ Reservations[5] = initramfs
    BY <1>3, RegionFacts
  <2> QED BY ONLY <2>1, <2>2
<1>7. FdtOk => \E j \in 1 .. Len(Reservations) : FdtRange = Reservations[j]
  <2>1. FdtOk => Len(Reservations) = 6 /\ Reservations[6] = FdtRange
    BY <1>3, RegionFacts
  <2>2. FdtOk => 6 \in 1 .. Len(Reservations)
    BY <2>1
  <2> QED BY ONLY <2>1, <2>2
<1> QED BY <1>4, <1>5, <1>6, <1>7

\* Nor of what a walk of the archive has read.
LEMMA ReadsKept == BootInv => ArchiveReadsOwned
<1> SUFFICES ASSUME BootInv, file # NoSpan
             PROVE  Inside(file, initramfs) /\ \A page \in Free \cup used : Apart(page, file)
  BY DEF ArchiveReadsOwned
<1>1. /\ file \in Nat \X Nat /\ initramfs \in Nat \X Nat /\ PageSize \in Nat
      /\ initramfs[1] <= file[1] /\ file[2] <= initramfs[2]
  BY PageAssumption DEF BootInv, BootTypes, Reading, Inside
<1>2. ASSUME NEW page \in Free \cup used PROVE Apart(page, file)
  <2>1. (page + 1) * PageSize <= initramfs[1] \/ initramfs[2] <= page * PageSize
    BY InUseKept DEF InUseNotFree, Apart
  <2>2. page \in Nat
    <3>1. /\ page \in PagesOf(memory) /\ memory \in Nat \X Nat
          /\ memory[1] < memory[2] /\ memory[1] % PageSize = 0 /\ memory[2] % PageSize = 0
      BY DEF BootInv, BootTypes, Using, Free, Reserving, Bounded, Managed
    <3> QED BY <3>1, PageWithin
  <2>3. page * PageSize \in Nat /\ (page + 1) * PageSize \in Nat
    BY <1>1, <2>2
  <2> DEFINE begin == page * PageSize
             end == (page + 1) * PageSize
  <2> HIDE DEF begin, end
  <2>4. begin \in Nat /\ end \in Nat /\ (end <= initramfs[1] \/ initramfs[2] <= begin)
    BY <2>1, <2>3 DEF begin, end
  <2>5. end <= file[1] \/ file[2] <= begin
    BY <1>1, <2>4
  <2> QED BY <2>5 DEF Apart, begin, end
<1> QED BY <1>1, <1>2 DEF Inside

\* There are five reservations, and a sixth with a tree.
LEMMA FiveOrSix ==
    ASSUME NEW range, NEW last
    PROVE  LET five == <<SpinTable, KernelStack, KernelImage, StartupHeap, range>>
           IN Len(five \o <<last>>) = 6 /\ Len(five \o <<>>) = 5
<1> DEFINE five == <<SpinTable, KernelStack, KernelImage, StartupHeap, range>>
           S == {SpinTable, KernelStack, KernelImage, StartupHeap, range, last}
<1>1. five \in Seq(S) /\ Len(five) = 5
  OBVIOUS
<1> DEFINE sixth == <<last>>
<1>2. sixth \in Seq(S) /\ Len(sixth) = 1
  OBVIOUS
<1> HIDE DEF five, S, sixth
<1>3. Len(five \o sixth) = 6
  <2>1. Len(five \o sixth) = Len(five) + Len(sixth)
    BY <1>1, <1>2, ConcatProperties
  <2> QED BY <1>1, <1>2, <2>1
<1>4. Len(five \o <<>>) = 5
  <2>1. five \o <<>> = five
    BY <1>1, ConcatEmptySeq
  <2> QED BY <1>1, <2>1
<1> QED BY <1>3, <1>4 DEF five, sixth

\* main reserves five or six regions, before a step and after it.
LEMMA Reserved ==
    /\ \A i \in 1 .. Len(Reservations) : i \in 1 .. 6
    /\ \A i \in 1 .. Len(Reservations') : i \in 1 .. 6
<1> DEFINE five(range) == <<SpinTable, KernelStack, KernelImage, StartupHeap, range>>
<1>1. Len(Reservations) \in {5, 6}
  <2>1. Reservations = five(initramfs) \o <<FdtRange>> \/ Reservations = five(initramfs) \o <<>>
    BY DEF Reservations
  <2> QED BY <2>1, FiveOrSix
<1>2. Len(Reservations') \in {5, 6}
  <2>1. Reservations' = five(initramfs') \o <<FdtRange'>> \/ Reservations' = five(initramfs') \o <<>>
    BY DEF Reservations
  <2> QED BY <2>1, FiveOrSix
<1>3. ASSUME NEW n \in {5, 6} PROVE \A i \in 1 .. n : i \in 1 .. 6
  OBVIOUS
<1> QED BY ONLY <1>1, <1>2, <1>3

\* The labels of the steps that reserve.
LEMMA StepNames ==
    \A i \in 1 .. 6 : Step[i] \in {"spin_table", "kernel_stack", "kernel_image", "startup_heap",
                                   "initramfs", "fdt"}
<1>1. ASSUME NEW i \in 1 .. 6
      PROVE  Step[i] \in {"spin_table", "kernel_stack", "kernel_image", "startup_heap",
                         "initramfs", "fdt"}
  <2>1. i \in {1, 2, 3, 4, 5, 6}
    OBVIOUS
  <2> QED BY <2>1 DEF Step
<1> QED BY <1>1

\* main starts with its fallbacks.
LEMMA BootInitHolds == Init => BootInv
<1> SUFFICES ASSUME Init PROVE BootInv
  OBVIOUS
<1>1. /\ blob \in Blobs /\ pc = "fdt_init" /\ walk = Start(Lookup(<<>>, "#address-cells"))
      /\ memory = FallbackMemory /\ initramfs = DefaultInitramfs /\ initrd_begin = 0
      /\ buddy_state = "UNINITIALIZED" /\ used = {}
      /\ command = "none" /\ cursor = 0 /\ file = NoSpan
  BY DEF Init
<1>2. BootTypes
  BY <1>1, LayoutAssumption DEF BootTypes, Booting, NoSpan
<1>3. Finding
  BY <1>1 DEF Finding, Fields, Start, Seeking
<1>4. Reserving
  <2>1. \A i \in 1 .. Len(Reservations) : pc # Step[i]
    BY <1>1, Reserved, StepNames
  <2> QED BY <1>1, <2>1 DEF Reserving
<1>5. Using /\ Reading
  BY <1>1 DEF Using, Reading
<1> QED BY <1>2, <1>3, <1>4, <1>5 DEF BootInv

\* A step of main up to the allocator: no page has been reserved yet.
LEMMA EarlyKept ==
    ASSUME BootInv, pc \in Seeking \cup {"fdt_init", "memory"}, UNCHANGED pageVars,
           UNCHANGED archiveVars, pc' \in Seeking \cup {"memory", "buddy_init"},
           blob' \in Blobs, memory' \in Nat \X Nat, initramfs' \in Nat \X Nat, initrd_begin' \in Nat,
           Finding'
    PROVE  BootInv'
<1>1. UNCHANGED <<buddy_state, reserved, used, command, cursor, file>>
  BY DEF pageVars, archiveVars
<1>2. BootTypes'
  BY <1>1 DEF BootInv, BootTypes, Booting
<1>3. /\ pc' \notin {"shell", "buddy_build"} /\ pc # "shell"
      /\ \A i \in 1 .. 6 : pc' # Step[i]
  BY StepNames DEF Seeking
<1>4. buddy_state # "READY" /\ used = {} /\ command = "none" /\ file = NoSpan
  BY <1>3 DEF BootInv, Reserving, Using, Reading
<1>5. Reserving'
  <2>1. \A i \in 1 .. Len(Reservations)' : pc' # Step[i]
    <3>1. \A i \in 1 .. Len(Reservations') : i \in 1 .. 6
      BY Reserved
    <3> QED BY <1>3, <3>1
  <2>2. Step' = Step
    BY DEF Step
  <2> QED BY <1>1, <1>3, <1>4, <2>1, <2>2 DEF Reserving
<1>6. Using' /\ Reading'
  BY <1>1, <1>4 DEF Using, Reading
<1> QED BY <1>2, <1>5, <1>6 DEF BootInv

\* A lookup begins.
LEMMA SeekFinds ==
    ASSUME NEW path, NEW name, NEW step \in Seeking, Seek(Lookup(path, name), step)
    PROVE  pc' = step /\ Finding'
<1>1. pc' = step /\ walk' = Start(Lookup(path, name))
  BY DEF Seek
<1>2. DOMAIN walk' = Fields /\ walk'.at = 1 /\ walk'.lookup = Lookup(path, name) /\ walk'.status = "walking"
  BY <1>1 DEF Start, Fields
<1>3. Lookup(path, name).kind = "property" /\ step # "memory"
  BY DEF Lookup, Seeking
<1> QED BY <1>1, <1>2, <1>3 DEF Finding

\* fdt_init and the lookups of main.
LEMMA SeekingHolds ==
    BootInv /\ (BootFdtInit \/ GotAddressCells \/ GotSizeCells \/ GotMemory \/ GotInitrdStart) => BootInv'
<1> SUFFICES ASSUME BootInv,
                    BootFdtInit \/ GotAddressCells \/ GotSizeCells \/ GotMemory \/ GotInitrdStart
             PROVE  BootInv'
  OBVIOUS
<1>1. /\ blob \in Blobs /\ memory \in Nat \X Nat /\ initramfs \in Nat \X Nat /\ initrd_begin \in Nat
      /\ Finding
  BY DEF BootInv, BootTypes
<1>2. CASE BootFdtInit
  <2>1. /\ pc = "fdt_init" /\ UNCHANGED <<blob, memory, initramfs, initrd_begin>>
        /\ UNCHANGED pageVars /\ UNCHANGED archiveVars
        /\ \/ Seek(Lookup(<<>>, "#address-cells"), "address_cells")
           \/ pc' = "buddy_init" /\ walk' = walk
    BY <1>2 DEF BootFdtInit
  <2>2. pc' \in {"address_cells", "buddy_init"} /\ Finding'
    <3>1. CASE Seek(Lookup(<<>>, "#address-cells"), "address_cells")
      BY <3>1, SeekFinds DEF Seeking
    <3>2. CASE pc' = "buddy_init" /\ walk' = walk
      BY <1>1, <3>2 DEF Finding, Seeking
    <3> QED BY <2>1, <3>1, <3>2
  <2> QED BY <1>1, <2>1, <2>2, EarlyKept DEF Seeking
<1>3. SeekInitrd => pc' = "initrd_start" /\ Finding'
  BY SeekFinds DEF SeekInitrd, Seeking
<1>4. CASE GotAddressCells
  <2>1. /\ pc = "address_cells" /\ UNCHANGED <<blob, memory, initramfs, initrd_begin>>
        /\ UNCHANGED pageVars /\ UNCHANGED archiveVars
        /\ SeekInitrd \/ Seek(Lookup(<<>>, "#size-cells"), "size_cells")
    BY <1>4 DEF GotAddressCells, GotCells, LookupReturns
  <2>2. pc' \in {"initrd_start", "size_cells"} /\ Finding'
    BY <1>3, <2>1, SeekFinds DEF Seeking
  <2> QED BY <1>1, <2>1, <2>2, EarlyKept DEF Seeking
<1>5. CASE GotSizeCells
  <2>1. /\ pc = "size_cells" /\ UNCHANGED <<blob, memory, initramfs, initrd_begin>>
        /\ UNCHANGED pageVars /\ UNCHANGED archiveVars
        /\ \/ SeekInitrd
           \/ /\ cells'[1] \in 1 .. 2 /\ cells'[2] \in 1 .. 2
              /\ Seek(MemoryLookup(cells'[1], cells'[2]), "memory")
    BY <1>5 DEF GotSizeCells, GotCells, LookupReturns
  <2>2. pc' \in {"initrd_start", "memory"} /\ Finding'
    <3>1. CASE /\ cells'[1] \in 1 .. 2 /\ cells'[2] \in 1 .. 2
               /\ Seek(MemoryLookup(cells'[1], cells'[2]), "memory")
      <4> DEFINE wanted == MemoryLookup(cells'[1], cells'[2])
      <4>1. pc' = "memory" /\ walk' = Start(wanted)
        BY <3>1 DEF Seek
      <4>2. wanted.kind = "memory" /\ wanted.address_cells = cells'[1] /\ wanted.size_cells = cells'[2]
        BY DEF MemoryLookup
      <4> HIDE DEF wanted
      <4>3. DOMAIN walk' = Fields /\ walk'.at = 1 /\ walk'.lookup = wanted /\ walk'.status = "walking"
        BY <4>1 DEF Start, Fields
      <4> QED BY <3>1, <4>1, <4>2, <4>3 DEF Finding, Seeking
    <3> QED BY <1>3, <2>1, <3>1
  <2> QED BY <1>1, <2>1, <2>2, EarlyKept DEF Seeking
<1>6. CASE GotMemory
  <2>1. /\ pc = "memory" /\ UNCHANGED <<blob, initramfs, initrd_begin>>
        /\ UNCHANGED pageVars /\ UNCHANGED archiveVars
        /\ memory' = IF walk.status = "FOUND" THEN walk.value ELSE memory
        /\ SeekInitrd
    BY <1>6 DEF GotMemory, LookupReturns
  <2>2. memory' \in Nat \X Nat
    BY <1>1, <2>1 DEF Finding
  <2> QED BY <1>1, <1>3, <2>1, <2>2, EarlyKept DEF Seeking
<1>7. CASE GotInitrdStart
  <2>1. /\ pc = "initrd_start" /\ UNCHANGED <<blob, memory, initramfs>>
        /\ UNCHANGED pageVars /\ UNCHANGED archiveVars
        /\ \/ /\ HasAddress /\ initrd_begin' = walk.value[1]
              /\ Seek(Lookup(<<"chosen">>, "linux,initrd-end"), "initrd_end")
           \/ pc' = "buddy_init" /\ UNCHANGED <<walk, initrd_begin>>
    BY <1>7 DEF GotInitrdStart, LookupReturns
  <2>2. HasAddress => walk.value[1] \in Nat
    <3>1. HasAddress => walk.value \in Seq(Nat) /\ Len(walk.value) > 0
      BY <1>1, <2>1 DEF HasAddress, Finding, Seeking
    <3> QED BY <3>1
  <2>3. pc' \in {"initrd_end", "buddy_init"} /\ Finding' /\ initrd_begin' \in Nat
    <3>1. CASE /\ HasAddress /\ initrd_begin' = walk.value[1]
               /\ Seek(Lookup(<<"chosen">>, "linux,initrd-end"), "initrd_end")
      BY <2>2, <3>1, SeekFinds DEF Seeking
    <3>2. CASE pc' = "buddy_init" /\ UNCHANGED <<walk, initrd_begin>>
      BY <1>1, <3>2 DEF Finding, Seeking
    <3> QED BY <2>1, <3>1, <3>2
  <2> QED BY <1>1, <2>1, <2>3, EarlyKept DEF Seeking
<1> QED BY <1>2, <1>4, <1>5, <1>6, <1>7

\* The last lookup: the range of the initramfs.
LEMMA InitrdEndHolds == BootInv /\ GotInitrdEnd => BootInv'
<1> SUFFICES ASSUME BootInv, GotInitrdEnd PROVE BootInv'
  OBVIOUS
<1>1. /\ blob \in Blobs /\ memory \in Nat \X Nat /\ initramfs \in Nat \X Nat /\ initrd_begin \in Nat
      /\ Finding
  BY DEF BootInv, BootTypes
<1>2. /\ pc = "initrd_end" /\ UNCHANGED <<blob, walk, memory, initrd_begin>>
      /\ UNCHANGED pageVars /\ UNCHANGED archiveVars /\ pc' = "buddy_init"
      /\ \/ HasAddress /\ initramfs' = <<initrd_begin, walk.value[1]>>
         \/ initramfs' = initramfs
  BY DEF GotInitrdEnd, LookupReturns
<1>3. HasAddress => walk.value[1] \in Nat
  <2>1. HasAddress => walk.value \in Seq(Nat) /\ Len(walk.value) > 0
    BY <1>1, <1>2 DEF HasAddress, Finding, Seeking
  <2> QED BY <2>1
<1>4. initramfs' \in Nat \X Nat
  BY <1>1, <1>2, <1>3
<1>5. Finding'
  BY <1>1, <1>2 DEF Finding, Seeking
<1> QED BY <1>1, <1>2, <1>4, <1>5, EarlyKept DEF Seeking

\* A value that is read is one or two cells.
LEMMA CellsRead ==
    ASSUME NEW cs \in Seq(Nat), NEW first \in Nat \ {0}, NEW n \in 1 .. 2, first + n - 1 <= Len(cs)
    PROVE  Cells(SubSeq(cs, first, first + n - 1)) \in Nat
<1> DEFINE part == SubSeq(cs, first, first + n - 1)
<1>1. /\ Len(part) = n /\ \A j \in 1 .. n : part[j] = cs[first + j - 1] /\ cs[first + j - 1] \in Nat
  OBVIOUS
<1> HIDE DEF part
<1>2. 1 \in 1 .. n /\ (n # 1 => 2 \in 1 .. n) /\ CellBase \in Nat
  BY CellAssumption
<1>3. part[1] \in Nat /\ (n # 1 => part[2] \in Nat)
  BY <1>1, <1>2
<1>4. part[1] * CellBase \in Nat
  BY <1>2, <1>3
<1>5. Cells(part) \in Nat
  BY <1>1, <1>3, <1>4 DEF Cells
<1> QED BY <1>5 DEF part

\* A turn of a traversal leaves what is looked up, and finds cells or a range.
LEMMA TurnFinds ==
    ASSUME NEW tree \in Blobs, NEW w, DOMAIN w = Fields, w.at \in Nat \ {0}, w.status = "walking",
           NEW v, v = Traverse(tree, w)
    PROVE  /\ DOMAIN v = Fields /\ v.at \in Nat \ {0} /\ v.lookup = w.lookup
           /\ v.status = "FOUND" /\ w.lookup.kind = "property" => v.value \in Seq(Nat)
           /\ /\ v.status = "FOUND" /\ w.lookup.kind = "memory"
              /\ w.lookup.address_cells \in 1 .. 2 /\ w.lookup.size_cells \in 1 .. 2
              => v.value \in Nat \X Nat
<1>1. ASSUME NEW status \in {"INVALID_STRUCTURE", "NOT_FOUND", "OUT_OF_RANGE"}, v = Stopped(w, status)
      PROVE  DOMAIN v = Fields /\ v.at \in Nat \ {0} /\ v.lookup = w.lookup /\ v.status # "FOUND"
  BY <1>1 DEF Stopped, Fields
<1>2. ASSUME NEW name, v = BeginNode(w, name)
      PROVE  DOMAIN v = Fields /\ v.at \in Nat \ {0} /\ v.lookup = w.lookup /\ v.status # "FOUND"
  <2>1. CASE v = Stopped(w, "INVALID_STRUCTURE")
    BY <1>1, <2>1
  <2>2. CASE v # Stopped(w, "INVALID_STRUCTURE")
    BY <1>2, <2>2 DEF BeginNode, Fields
  <2> QED BY <2>1, <2>2
<1>3. ASSUME v = EndNode(w)
      PROVE  DOMAIN v = Fields /\ v.at \in Nat \ {0} /\ v.lookup = w.lookup /\ v.status # "FOUND"
  <2>1. CASE v = Stopped(w, "INVALID_STRUCTURE")
    BY <1>1, <2>1
  <2>2. CASE v # Stopped(w, "INVALID_STRUCTURE")
    BY <1>3, <2>2 DEF EndNode, Fields
  <2> QED BY <2>1, <2>2
<1>4. ASSUME v = [w EXCEPT !.at = @ + 1]
      PROVE  DOMAIN v = Fields /\ v.at \in Nat \ {0} /\ v.lookup = w.lookup /\ v.status # "FOUND"
  BY <1>4 DEF Fields
<1>5. ASSUME NEW token, token.token = "PROP", token.cells \in Seq(Nat), v = ParseProperty(tree, w, token)
      PROVE  /\ DOMAIN v = Fields /\ v.at \in Nat \ {0} /\ v.lookup = w.lookup
             /\ v.status = "FOUND" /\ w.lookup.kind = "property" => v.value \in Seq(Nat)
             /\ /\ v.status = "FOUND" /\ w.lookup.kind = "memory"
                /\ w.lookup.address_cells \in 1 .. 2 /\ w.lookup.size_cells \in 1 .. 2
                => v.value \in Nat \X Nat
  <2>1. CASE v = Stopped(w, "INVALID_STRUCTURE") \/ v = Stopped(w, "OUT_OF_RANGE")
    BY <1>1, <2>1
  <2>2. CASE v = [w EXCEPT !.at = @ + 1]
    BY <1>4, <2>2
  <2>3. CASE w.lookup.kind # "memory" /\ v = [w EXCEPT !.status = "FOUND", !.value = token.cells]
    BY <1>5, <2>3 DEF Fields
  <2>4. CASE w.lookup.kind = "memory" /\ v = Decode(w, token.cells)
    <3> DEFINE address_cells == w.lookup.address_cells
               tuple == address_cells + w.lookup.size_cells
               address == Cells(SubSeq(token.cells, 1, address_cells))
               region == Cells(SubSeq(token.cells, address_cells + 1, tuple))
    <3>1. \/ v = Stopped(w, "INVALID_STRUCTURE")
          \/ ~(Len(token.cells) < tuple) /\ v = [w EXCEPT !.status = "FOUND", !.value = <<address, address + region>>]
      BY <2>4 DEF Decode
    <3>2. CASE v = Stopped(w, "INVALID_STRUCTURE")
      BY <1>1, <3>2
    <3>3. CASE /\ ~(Len(token.cells) < tuple)
               /\ v = [w EXCEPT !.status = "FOUND", !.value = <<address, address + region>>]
      <4>1. ASSUME address_cells \in 1 .. 2, w.lookup.size_cells \in 1 .. 2
            PROVE  address \in Nat /\ region \in Nat
        <5>1. Len(token.cells) \in Nat /\ tuple <= Len(token.cells)
          BY <1>5, <3>3, <4>1
        <5>2. address \in Nat
          <6>1. 1 + address_cells - 1 = address_cells /\ address_cells <= Len(token.cells)
            BY <4>1, <5>1
          <6> QED BY <1>5, <4>1, <6>1, CellsRead
        <5>3. region \in Nat
          <6> DEFINE first == address_cells + 1
                     n == w.lookup.size_cells
          <6>1. first \in Nat \ {0} /\ first + n - 1 = tuple /\ n \in 1 .. 2
            BY <4>1
          <6> HIDE DEF first, n
          <6>2. Cells(SubSeq(token.cells, first, first + n - 1)) \in Nat
            BY <1>5, <5>1, <6>1, CellsRead
          <6> QED BY <6>1, <6>2 DEF first
        <5> QED BY <5>2, <5>3
      <4> HIDE DEF address, region, tuple
      <4>2. /\ DOMAIN v = Fields /\ v.at \in Nat \ {0} /\ v.lookup = w.lookup /\ v.value = <<address, address + region>>
        BY <3>3 DEF Fields
      <4> QED BY <2>4, <4>1, <4>2
    <3> QED BY <3>1, <3>2, <3>3
  <2> QED BY <1>5, <2>1, <2>2, <2>3, <2>4 DEF ParseProperty
<1>6. CASE w.at > tree.struct_size
  BY <1>1, <1>6 DEF Traverse
<1>7. CASE ~(w.at > tree.struct_size)
  <2> DEFINE token == tree.tokens[w.at]
  <2>1. token.token = "PROP" => token.cells \in Seq(Nat)
    <3>1. w.at \in 1 .. tree.struct_size
      BY <1>7, TreeAssumption
    <3> QED BY <3>1, TreeAssumption
  <2>2. \/ v = BeginNode(w, token.name)
        \/ v = EndNode(w)
        \/ token.token = "PROP" /\ v = ParseProperty(tree, w, token)
        \/ v = [w EXCEPT !.at = @ + 1]
        \/ v = Stopped(w, "NOT_FOUND")
        \/ v = Stopped(w, "INVALID_STRUCTURE")
    BY <1>7 DEF Traverse
  <2> HIDE DEF token
  <2> QED BY <1>1, <1>2, <1>3, <1>4, <1>5, <2>1, <2>2
<1> QED BY <1>6, <1>7

\* A turn of a lookup of main.
LEMMA TraverseHolds == BootInv /\ TraverseTree => BootInv'
<1> SUFFICES ASSUME BootInv, TraverseTree PROVE BootInv'
  OBVIOUS
<1>1. /\ pc \in Seeking \cup {"memory"} /\ walk.status = "walking" /\ walk' = Traverse(blob, walk)
      /\ UNCHANGED <<blob, pc, memory, initramfs, initrd_begin>>
      /\ UNCHANGED pageVars /\ UNCHANGED archiveVars
  BY DEF TraverseTree, Seeking
<1>2. /\ blob \in Blobs /\ memory \in Nat \X Nat /\ initramfs \in Nat \X Nat /\ initrd_begin \in Nat
      /\ DOMAIN walk = Fields /\ walk.at \in Nat \ {0}
      /\ pc \in Seeking => walk.lookup.kind = "property"
      /\ pc = "memory" => /\ walk.lookup.kind = "memory"
                          /\ walk.lookup.address_cells \in 1 .. 2 /\ walk.lookup.size_cells \in 1 .. 2
  BY DEF BootInv, BootTypes, Finding
<1> DEFINE v == Traverse(blob, walk)
<1>3. /\ DOMAIN v = Fields /\ v.at \in Nat \ {0} /\ v.lookup = walk.lookup
      /\ v.status = "FOUND" /\ walk.lookup.kind = "property" => v.value \in Seq(Nat)
      /\ /\ v.status = "FOUND" /\ walk.lookup.kind = "memory"
         /\ walk.lookup.address_cells \in 1 .. 2 /\ walk.lookup.size_cells \in 1 .. 2
         => v.value \in Nat \X Nat
  BY <1>1, <1>2, TurnFinds
<1>4. Finding'
  BY <1>1, <1>2, <1>3 DEF Finding
<1> QED BY <1>1, <1>2, <1>4, EarlyKept

\* buddy_initialize begins, or cannot.
LEMMA BuddyInitHolds == BootInv /\ BuddyInit => BootInv'
<1> SUFFICES ASSUME BootInv, BuddyInit PROVE BootInv'
  OBVIOUS
<1>1. /\ pc = "buddy_init" /\ UNCHANGED <<blob, walk, memory, initramfs, initrd_begin, reserved>>
      /\ UNCHANGED <<used, command, cursor, file>>
      /\ \/ pc' = "shell" /\ buddy_state' = buddy_state
         \/ ~InitFails /\ pc' = Step[1] /\ buddy_state' = "RESERVING"
  BY DEF BuddyInit, archiveVars
<1>2. buddy_state # "READY" /\ used = {} /\ command = "none" /\ file = NoSpan
  BY <1>1 DEF BootInv, Reserving, Using, Reading
<1>3. /\ pc' \in {"shell", "spin_table"}
      /\ pc' = "spin_table" => ~InitFails
  BY <1>1 DEF Step
<1>4. BootTypes' /\ Finding'
  BY <1>1, <1>3 DEF BootInv, BootTypes, Finding, Booting, Seeking
<1>5. Bounded' \/ pc' = "shell"
  <2>1. ASSUME ~InitFails PROVE Bounded
    BY <2>1 DEF BootInv, BootTypes, InitFails, Bounded
  <2> QED BY <1>1, <2>1 DEF Bounded
<1>6. Reserving'
  <2>1. ASSUME NEW i \in 1 .. Len(Reservations'), pc' = Step[i] PROVE i = 1 /\ pc' # "shell"
    <3>1. i \in {1, 2, 3, 4, 5, 6}
      BY Reserved
    <3> QED BY <1>3, <2>1, <3>1 DEF Step
  <2>2. Step' = Step
    BY DEF Step
  <2> QED BY <1>1, <1>2, <1>3, <1>5, <2>1, <2>2 DEF Reserving
<1>7. Using' /\ Reading'
  BY <1>1, <1>2 DEF Using, Reading
<1> QED BY <1>4, <1>6, <1>7 DEF BootInv

\* A region is reserved, or main goes on without an allocator.
LEMMA BuddyReserveHolds ==
    ASSUME BootInv, NEW i \in 1 .. Len(Reservations), BuddyReserve(i)
    PROVE  BootInv'
<1> DEFINE range == Reservations[i]
<1>1. /\ pc = Step[i] /\ UNCHANGED <<blob, walk, memory, initramfs, initrd_begin, buddy_state>>
      /\ UNCHANGED <<used, command, cursor, file>>
      /\ \/ pc' = "shell" /\ reserved' = reserved
         \/ /\ ~(range[2] <= range[1]) /\ reserved' = reserved \cup PagesOf(range)
            /\ pc' = IF i = Len(Reservations) THEN "buddy_build" ELSE Step[i + 1]
  BY DEF BuddyReserve, archiveVars
<1>2. /\ i \in 1 .. 6 /\ Len(Reservations) \in 5 .. 6 /\ range \in Nat \X Nat
      /\ Step[i] \in {"spin_table", "kernel_stack", "kernel_image", "startup_heap", "initramfs", "fdt"}
  BY RegionFacts, Reserved, StepNames DEF BootInv
<1>11. i # Len(Reservations) => i + 1 \in 1 .. 6
  <2>1. Len(Reservations) \in 5 .. 6 /\ i \in 1 .. Len(Reservations)
    BY <1>2
  <2>2. ASSUME NEW n \in 5 .. 6, NEW k \in 1 .. n, k # n PROVE k + 1 \in 1 .. 6
    BY ONLY <2>2
  <2> QED BY ONLY <2>1, <2>2
<1>3. buddy_state # "READY" /\ used = {} /\ command = "none" /\ file = NoSpan
  BY <1>1, <1>2 DEF BootInv, Reserving, Using, Reading
<1>4. Bounded /\ \A j \in 1 .. i - 1 : Made(Reservations[j])
  BY <1>1 DEF BootInv, Reserving
<1>5. Reservations' = Reservations /\ Step' = Step /\ (Bounded' <=> Bounded)
  BY <1>1 DEF Reservations, FdtOk, FdtInit, FdtRange, Step, Bounded
<1>6. pc' \in Booting \cup {"shell"} /\ pc' \notin Seeking \cup {"memory"}
  <2>1. CASE pc' = "shell"
    BY <2>1 DEF Seeking
  <2>2. CASE pc' = "buddy_build"
    BY <2>2 DEF Booting, Seeking
  <2>3. CASE i # Len(Reservations) /\ pc' = Step[i + 1]
    <3>1. i + 1 \in 1 .. 6
      BY <1>11, <2>3
    <3>2. Step[i + 1] \in {"spin_table", "kernel_stack", "kernel_image", "startup_heap", "initramfs", "fdt"}
      BY <3>1, StepNames
    <3> QED BY <2>3, <3>2 DEF Booting, Seeking
  <2> QED BY <1>1, <2>1, <2>2, <2>3
<1>7. BootTypes' /\ Finding'
  BY <1>1, <1>6 DEF BootInv, BootTypes, Finding
<1>8. Using' /\ Reading'
  BY <1>1, <1>3 DEF Using, Reading
<1>9. CASE pc' = "shell"
  <2>1. \A j \in 1 .. Len(Reservations') : pc' # Step[j]
    BY <1>9, Reserved, StepNames
  <2> QED BY <1>1, <1>3, <1>5, <1>7, <1>8, <1>9, <2>1 DEF BootInv, Reserving
<1>10. CASE /\ ~(range[2] <= range[1]) /\ reserved' = reserved \cup PagesOf(range)
            /\ pc' = IF i = Len(Reservations) THEN "buddy_build" ELSE Step[i + 1]
  <2>1. ASSUME NEW j \in 1 .. i PROVE Made(Reservations[j])'
    <3>1. CASE j = i
      BY <1>2, <1>5, <1>10, <3>1 DEF Made, PagesOf
    <3>2. CASE j \in 1 .. i - 1
      BY <1>4, <1>5, <1>10, <3>2 DEF Made, PagesOf
    <3> QED BY <1>2, <3>1, <3>2
  <2>2. ASSUME NEW k \in 1 .. Len(Reservations), pc' = Step[k]
        PROVE  k = i + 1
    <3>1. k \in {1, 2, 3, 4, 5, 6}
      BY Reserved
    <3>2. Step[k] # "buddy_build"
      BY <3>1 DEF Step
    <3>3. i # Len(Reservations) /\ pc' = Step[i + 1]
      BY <1>10, <2>2, <3>2
    <3>4. i + 1 \in {1, 2, 3, 4, 5, 6}
      BY ONLY <1>11, <3>3
    <3> QED BY <2>2, <3>1, <3>3, <3>4 DEF Step
  <2>3. /\ \A k \in 1 .. Len(Reservations) :
              pc' = Step[k] => Bounded /\ \A j \in 1 .. k - 1 : Made(Reservations[j])'
        /\ pc' = "buddy_build" => i = Len(Reservations)
    <3>1. ASSUME NEW k \in 1 .. Len(Reservations), pc' = Step[k], NEW j \in 1 .. k - 1
          PROVE  Made(Reservations[j])'
      <4>1. j \in 1 .. i
        BY <1>2, <2>2, <3>1
      <4> QED BY <2>1, <4>1
    <3>2. i # Len(Reservations) => Step[i + 1] # "buddy_build"
      BY <1>11, StepNames
    <3> QED BY <1>4, <1>10, <3>1, <3>2
  <2>4. Reserving'
    BY <1>1, <1>3, <1>4, <1>5, <2>1, <2>3 DEF Reserving
  <2> QED BY <1>7, <1>8, <2>4 DEF BootInv
<1> QED BY <1>1, <1>9, <1>10

\* The allocator is ready.
LEMMA BuddyBuildHolds == BootInv /\ BuddyBuild => BootInv'
<1> SUFFICES ASSUME BootInv, BuddyBuild PROVE BootInv'
  OBVIOUS
<1>1. /\ pc = "buddy_build" /\ pc' = "shell" /\ buddy_state' = "READY"
      /\ UNCHANGED <<blob, walk, memory, initramfs, initrd_begin, reserved>>
      /\ UNCHANGED <<used, command, cursor, file>>
  BY DEF BuddyBuild, archiveVars
<1>2. used = {} /\ Bounded /\ \A j \in 1 .. Len(Reservations) : Made(Reservations[j])
  BY <1>1 DEF BootInv, Reserving, Using
<1>3. Reservations' = Reservations /\ (Bounded' <=> Bounded)
  BY <1>1 DEF Reservations, FdtOk, FdtInit, FdtRange, Bounded
<1>4. \A j \in 1 .. Len(Reservations) : Made(Reservations[j])'
  BY <1>1, <1>2, <1>3 DEF Made, PagesOf
<1>5. \A i \in 1 .. Len(Reservations') : pc' # Step'[i]
  BY <1>1, Reserved, StepNames DEF Step
<1>6. Reserving'
  BY <1>1, <1>2, <1>3, <1>4, <1>5 DEF Reserving
<1>7. BootTypes' /\ Finding'
  BY <1>1 DEF BootInv, BootTypes, Finding, Seeking
<1>8. Using' /\ Reading'
  BY <1>1, <1>2 DEF BootInv, Using, Reading
<1> QED BY <1>6, <1>7, <1>8 DEF BootInv

\* Once main is in its loop nothing about the regions changes.
LEMMA RunKept ==
    ASSUME BootInv, UNCHANGED bootVars, UNCHANGED buddy_state, UNCHANGED reserved,
           pc = "shell", command' \in Walkers \cup {"none", "el0"}, cursor' \in Nat, file' \in Nat \X Nat,
           file' # NoSpan => Inside(file', initramfs),
           used' \subseteq Managed \ reserved, buddy_state # "READY" => used' = {}
    PROVE  BootInv'
<1>1. UNCHANGED <<blob, pc, walk, memory, initramfs, cells, initrd_begin, buddy_state, reserved>>
  BY DEF bootVars
<1>2. BootTypes' /\ Finding'
  BY <1>1 DEF BootInv, BootTypes, Finding
<1>3. Reservations' = Reservations /\ Step' = Step /\ (Bounded' <=> Bounded) /\ Managed' = Managed
  BY <1>1 DEF Reservations, FdtOk, FdtInit, FdtRange, Step, Bounded, Managed, PagesOf
<1>4. \A j \in 1 .. Len(Reservations) : Made(Reservations[j]) => Made(Reservations[j])'
  BY <1>1, <1>3 DEF Made, PagesOf
<1>5. Reserving'
  <2>1. \A i \in 1 .. Len(Reservations) : pc # Step[i]
    BY Reserved, StepNames
  <2> QED BY <1>1, <1>3, <1>4, <2>1 DEF BootInv, Reserving
<1>6. Using'
  BY <1>1, <1>3 DEF Using
<1>7. Reading'
  BY <1>1 DEF Reading, Inside
<1> QED BY <1>2, <1>5, <1>6, <1>7 DEF BootInv

\* Pages are taken and given back.
LEMMA PagesHold ==
    ASSUME BootInv, NEW page \in Managed, AllocPage(page) \/ FreePage(page)
    PROVE  BootInv'
<1>1. /\ UNCHANGED bootVars /\ UNCHANGED buddy_state /\ UNCHANGED reserved /\ pc = "shell"
      /\ UNCHANGED <<command, cursor, file>>
      /\ \/ page \in Free /\ used' = used \cup {page}
         \/ page \in used /\ used' = used \ {page}
  BY DEF AllocPage, FreePage, Running, archiveVars
<1>2. used \subseteq Managed \ reserved /\ (buddy_state # "READY" => used = {})
  BY DEF BootInv, Using
<1>3. used' \subseteq Managed \ reserved /\ (buddy_state # "READY" => used' = {})
  BY <1>1, <1>2 DEF Free
<1>4. /\ command' \in Walkers \cup {"none", "el0"} /\ cursor' \in Nat /\ file' \in Nat \X Nat
      /\ file' # NoSpan => Inside(file', initramfs)
  BY <1>1 DEF BootInv, BootTypes, Reading
<1> QED BY <1>1, <1>3, <1>4, RunKept

\* What a walk reads of an entry, the archive holds.
LEMMA WalkKept ==
    ASSUME BootInv, UNCHANGED bootVars, UNCHANGED pageVars, pc = "shell",
           command' \in Walkers \cup {"none", "el0"}, cursor' \in Nat,
           file' = NoSpan \/ (file' \in Nat \X Nat /\ Inside(file', initramfs))
    PROVE  BootInv'
<1>1. UNCHANGED buddy_state /\ UNCHANGED reserved /\ UNCHANGED used
  BY DEF pageVars
<1>2. used' \subseteq Managed \ reserved /\ (buddy_state # "READY" => used' = {})
  BY <1>1 DEF BootInv, Using
<1>3. file' \in Nat \X Nat /\ (file' # NoSpan => Inside(file', initramfs))
  BY DEF NoSpan
<1> QED BY <1>1, <1>2, <1>3, RunKept

\* An address that is rounded up.
LEMMA Aligned ==
    ASSUME NEW n \in Nat
    PROVE  AlignUp(n, ArchiveAlignment) \in Nat
<1>1. ArchiveAlignment \in Nat \ {0} /\ n + ArchiveAlignment - 1 \in Nat
  BY PageAssumption
<1>2. (n + ArchiveAlignment - 1) \div ArchiveAlignment \in Nat
  BY <1>1, DivFacts
<1> QED BY <1>1, <1>2 DEF AlignUp

\* A walk of the archive.
LEMMA WalksHold ==
    BootInv /\ \/ \E walker \in Walkers : StartCommand(walker)
               \/ BadHeader
               \/ \E name_size \in NameSizes, file_size \in FileSizes :
                     \/ BadEntry(name_size, file_size)
                     \/ \E matches \in BOOLEAN : Entry(name_size, file_size, matches)
    => BootInv'
<1> SUFFICES ASSUME BootInv,
                    \/ \E walker \in Walkers : StartCommand(walker)
                    \/ BadHeader
                    \/ \E name_size \in NameSizes, file_size \in FileSizes :
                          \/ BadEntry(name_size, file_size)
                          \/ \E matches \in BOOLEAN : Entry(name_size, file_size, matches)
             PROVE  BootInv'
  OBVIOUS
<1>1. /\ initramfs \in Nat \X Nat /\ cursor \in Nat /\ ArchiveHeader \in Nat
      /\ command # "none" => pc = "shell"
  BY ArchiveAssumption DEF BootInv, BootTypes, Reading
<1>2. CASE \E walker \in Walkers : StartCommand(walker)
  <2>1. PICK walker \in Walkers : StartCommand(walker)
    BY <1>2
  <2>2. /\ UNCHANGED bootVars /\ UNCHANGED pageVars /\ pc = "shell" /\ command' = walker
        /\ cursor' = initramfs[1] /\ file' = NoSpan
    BY <2>1 DEF StartCommand
  <2>3. command' \in Walkers \cup {"none", "el0"} /\ cursor' \in Nat
    BY <1>1, <2>2
  <2> QED BY ONLY BootInv, <2>2, <2>3, WalkKept
<1>3. ASSUME command \in Walkers, Inside(Header, initramfs)
      PROVE  Header \in Nat \X Nat /\ initramfs[1] <= cursor /\ pc = "shell"
  BY <1>1, <1>3 DEF Header, Inside, Walkers
<1>4. CASE BadHeader
  <2>1. /\ UNCHANGED bootVars /\ UNCHANGED pageVars /\ command \in Walkers /\ command' = "none"
        /\ cursor' = cursor
        /\ \/ Inside(Header, initramfs) /\ file' = Header
           \/ file' = NoSpan
    BY <1>4 DEF BadHeader, WalkEnds
  <2>2. pc = "shell"
    BY <1>1, <2>1 DEF Walkers
  <2>3. command' \in Walkers \cup {"none", "el0"} /\ cursor' \in Nat
    BY <1>1, <2>1
  <2>4. file' = NoSpan \/ (file' \in Nat \X Nat /\ Inside(file', initramfs))
    BY <1>3, <2>1
  <2> QED BY ONLY BootInv, <2>1, <2>2, <2>3, <2>4, WalkKept
<1>5. CASE \E name_size \in NameSizes, file_size \in FileSizes :
              \/ BadEntry(name_size, file_size)
              \/ \E matches \in BOOLEAN : Entry(name_size, file_size, matches)
  <2>1. PICK name_size \in NameSizes, file_size \in FileSizes :
                \/ BadEntry(name_size, file_size)
                \/ \E matches \in BOOLEAN : Entry(name_size, file_size, matches)
    BY <1>5
  <2>2. /\ UNCHANGED bootVars /\ UNCHANGED pageVars
        /\ command \in Walkers /\ Inside(Header, initramfs)
    BY <2>1 DEF BadEntry, Entry
  <2>3. name_size \in Nat /\ file_size \in Nat
    BY ArchiveAssumption
  <2> DEFINE name == Name(name_size)
             data == Data(name_size, file_size)
             next == NextEntry(name_size, file_size)
  <2>4. name[2] \in Nat /\ data[1] \in Nat /\ data[2] \in Nat /\ next \in Nat
    <3>1. name[2] \in Nat
      BY <1>1, <2>3 DEF Name, Header
    <3>2. AlignUp(name[2], ArchiveAlignment) \in Nat
      BY <3>1, Aligned
    <3>3. data[1] \in Nat /\ data[2] \in Nat
      BY <2>3, <3>2 DEF Data
    <3>4. next \in Nat
      BY <3>3, Aligned DEF NextEntry
    <3> QED BY <3>1, <3>3, <3>4
  <2> HIDE DEF name, data, next
  <2>5. ASSUME NEW end \in Nat, end <= initramfs[2], file' = <<cursor, end>>
        PROVE  file' \in Nat \X Nat /\ Inside(file', initramfs)
    BY <1>1, <1>3, <2>2, <2>5 DEF Inside
  <2>6. CASE BadEntry(name_size, file_size)
    <3>1. /\ command' = "none" /\ cursor' = cursor
          /\ \/ name[2] <= initramfs[2] /\ file' = <<cursor, name[2]>>
             \/ file' = Header
      BY <2>6 DEF BadEntry, WalkEnds, Inside, name
    <3> QED BY <1>1, <1>3, <2>2, <2>4, <2>5, <3>1, WalkKept
  <2>7. CASE \E matches \in BOOLEAN : Entry(name_size, file_size, matches)
    <3>1. PICK matches \in BOOLEAN : Entry(name_size, file_size, matches)
      BY <2>7
    <3>2. /\ cursor' = next /\ file' = <<cursor, data[2]>> /\ data[2] <= initramfs[2]
          /\ command' \in Walkers \cup {"none", "el0"}
      BY <2>2, <3>1 DEF Entry, DataFits, Inside, data, next
    <3> QED BY <1>1, <1>3, <2>2, <2>4, <2>5, <3>2, WalkKept
  <2> QED BY <2>1, <2>6, <2>7
<1> QED BY <1>2, <1>4, <1>5

\* A step of main or of the shell.
LEMMA BootStepHolds == BootInv /\ Next => BootInv'
<1> SUFFICES ASSUME BootInv, Next PROVE BootInv'
  OBVIOUS
<1>1. CASE BootStep
  <2>1. \/ BootFdtInit \/ TraverseTree
        \/ GotAddressCells \/ GotSizeCells \/ GotMemory \/ GotInitrdStart \/ GotInitrdEnd
        \/ BuddyInit \/ \E i \in 1 .. Len(Reservations) : BuddyReserve(i)
        \/ BuddyBuild
    BY <1>1 DEF BootStep
  <2> QED BY <2>1, SeekingHolds, TraverseHolds, InitrdEndHolds, BuddyInitHolds, BuddyReserveHolds,
             BuddyBuildHolds
<1>2. CASE RunStep
  <2>1. CASE \E page \in Managed : AllocPage(page) \/ FreePage(page)
    BY <2>1, PagesHold
  <2> QED BY <1>2, <2>1, WalksHold DEF RunStep
<1> QED BY <1>1, <1>2 DEF Next

\* A step of the loader or the uploader leaves all of it.
LEMMA BootKept == BootInv /\ UNCHANGED vars => BootInv'
<1> SUFFICES ASSUME BootInv, UNCHANGED vars PROVE BootInv'
  OBVIOUS
<1>1. /\ UNCHANGED bootVars /\ UNCHANGED <<buddy_state, reserved, used, command, cursor, file>>
      /\ UNCHANGED <<blob, pc, walk, memory, initramfs, initrd_begin>>
  BY DEF vars, bootVars, pageVars, archiveVars
<1>2. BootTypes' /\ Finding'
  BY <1>1 DEF BootInv, BootTypes, Finding
<1>3. Reservations' = Reservations /\ Step' = Step /\ (Bounded' <=> Bounded) /\ Managed' = Managed
  BY <1>1 DEF Reservations, FdtOk, FdtInit, FdtRange, Step, Bounded, Managed, PagesOf
<1>4. \A j \in 1 .. Len(Reservations) : Made(Reservations[j]) => Made(Reservations[j])'
  BY <1>1, <1>3 DEF Made, PagesOf
<1>5. Reserving'
  BY <1>1, <1>3, <1>4, Reserved DEF BootInv, Reserving
<1>6. Using' /\ Reading'
  BY <1>1, <1>3 DEF BootInv, Using, Reading, Inside
<1> QED BY <1>2, <1>5, <1>6 DEF BootInv

\* Until the loader jumps to the image, main has not begun.
Waits == loader # "entered" => /\ pc = "fdt_init" /\ walk = Start(Lookup(<<>>, "#address-cells"))
                               /\ buddy_state = "UNINITIALIZED"

\* The kernel's part of every state, from power-on.
THEOREM BootInvariant == PowerOnSpec => [](BootInv /\ Waits)
<1>1. PowerOnInit => BootInv /\ Waits
  BY BootInitHolds DEF PowerOnInit, Init, Waits
<1>2. BootInv /\ Waits /\ [PowerOnNext]_<<loaderVars, vars>> => (BootInv /\ Waits)'
  <2> SUFFICES ASSUME BootInv, Waits, [PowerOnNext]_<<loaderVars, vars>> PROVE BootInv' /\ Waits'
    OBVIOUS
  <2>1. CASE LoaderNext /\ UNCHANGED vars
    <3>1. loader = "entered" => loader' = "entered"
      BY <2>1 DEF LoaderNext, HostNext, BoardNext, HostStart, SeesPrompt, SeesReady, SeesStart,
                  SeesDone, Sends, SkipsMessage, HostTimesOut, HostInterrupted, SendsPart, LineLoses,
                  ReadLine, ReadMagic, ReadSize, ReadData, Reads, boardVars
    <3>2. UNCHANGED <<pc, walk, buddy_state>>
      BY <2>1 DEF vars, bootVars, pageVars
    <3> QED BY <2>1, <3>1, <3>2, BootKept DEF Waits
  <2>2. CASE EnterKernel
    <3>1. /\ loader = "booted" /\ loader' = "entered" /\ blob' \in Blobs
          /\ UNCHANGED <<pc, walk, memory, initramfs, initrd_begin>>
          /\ UNCHANGED pageVars /\ UNCHANGED archiveVars
      BY <2>2 DEF EnterKernel
    <3>2. pc = "fdt_init"
      BY <3>1 DEF Waits
    <3>3. UNCHANGED <<buddy_state, reserved, used, command, cursor, file>>
      BY <3>1 DEF pageVars, archiveVars
    <3>4. buddy_state # "READY" /\ used = {}
      BY <3>2 DEF BootInv, Reserving, Using
    <3>5. BootTypes' /\ Finding'
      BY <3>1, <3>2, <3>3 DEF BootInv, BootTypes, Finding, Seeking
    <3>6. \A i \in 1 .. Len(Reservations') : pc' # Step'[i]
      BY <3>1, <3>2, Reserved, StepNames DEF Step
    <3>7. Reserving' /\ Using' /\ Reading'
      BY <3>1, <3>2, <3>3, <3>4, <3>6 DEF BootInv, Reserving, Using, Reading
    <3> QED BY <3>1, <3>5, <3>7 DEF BootInv, Waits
  <2>3. CASE loader = "entered" /\ Next /\ UNCHANGED loaderVars
    <3>1. loader' = "entered"
      BY <2>3 DEF loaderVars, boardVars
    <3> QED BY <2>3, <3>1, BootStepHolds DEF Waits
  <2>4. CASE UNCHANGED <<loaderVars, vars>>
    <3>1. UNCHANGED vars /\ UNCHANGED <<pc, walk, buddy_state, loader>>
      BY <2>4 DEF vars, bootVars, pageVars, loaderVars, boardVars
    <3> QED BY <3>1, BootKept DEF Waits
  <2> QED BY <2>1, <2>2, <2>3, <2>4 DEF PowerOnNext
<1> QED BY <1>1, <1>2, PTL DEF PowerOnSpec

\* "Reserve memory used during early boot": no page the allocator has or gave out holds a byte of
\* a region main reserved, for every layout, every tree and every range the tree states
\* (buddy_initialize, buddy_reserve).
THEOREM RegionsCorrect == PowerOnSpec => []InUseNotFree
BY InUseKept, BootInvariant, PTL

\* What a walk of the archive reads, and what a command then copies, is the archive's and in no
\* page of the allocator, whatever sizes the headers state (initramfs_next).
THEOREM ReadsCorrect == PowerOnSpec => []ArchiveReadsOwned
BY ReadsKept, BootInvariant, PTL
-------------------------------------------------------------------------------
(* The nodes that are open *)

\* A set of numbers has a smallest one.
LEMMA SmallestOf ==
    ASSUME NEW T \in SUBSET Nat, T # {}
    PROVE  \E x \in T : \A y \in T : x <= y
<1>1. \E x \in T : \A y \in T : ~(<<y, x>> \in OpToRel(<, Nat))
  BY NatLessThanWellFounded, WFMin
<1>2. \A x, y \in Nat : <<y, x>> \in OpToRel(<, Nat) <=> y < x
  BY DEF OpToRel
<1>3. \A x, y \in Nat : ~(y < x) => x <= y
  OBVIOUS
<1> QED BY <1>1, <1>2, <1>3

\* The names after a token, from the ones before it.
Opened(token, names) ==
    IF token.token = "BEGIN" THEN Append(names, token.name)
    ELSE IF token.token = "END_NODE" /\ names # <<>> THEN SubSeq(names, 1, Len(names) - 1)
    ELSE names

\* The first n lists of names.
Opens(tree, n, f) ==
    f = [i \in 1 .. n |-> IF i = 1 THEN <<>> ELSE Opened(tree.tokens[i - 1], f[i - 1])]

\* There are such lists for every n: a smallest n without them would have them from the n before.
LEMMA OpensExist == ASSUME NEW tree, NEW n \in Nat \ {0} PROVE \E f : Opens(tree, n, f)
<1> DEFINE Missing == {m \in Nat \ {0} : ~ \E f : Opens(tree, m, f)}
<1> SUFFICES ASSUME Missing # {} PROVE FALSE
  OBVIOUS
<1>1. PICK m \in Missing : \A k \in Missing : m <= k
  BY SmallestOf
<1>2. m \in Nat \ {0} /\ ~ \E f : Opens(tree, m, f)
  OBVIOUS
<1>3. CASE m = 1
  <2> DEFINE g == [i \in 1 .. 1 |-> <<>>]
  <2>1. Opens(tree, 1, g)
    BY DEF Opens
  <2> QED BY <1>2, <1>3, <2>1
<1>4. CASE m # 1
  <2>1. m - 1 \in Nat \ {0} /\ m - 1 \notin Missing
    BY <1>1, <1>2, <1>4
  <2>2. PICK f : Opens(tree, m - 1, f)
    BY <2>1
  <2> DEFINE body(i) == IF i = 1 THEN <<>> ELSE Opened(tree.tokens[i - 1], f[i - 1])
             g == [i \in 1 .. m |-> body(i)]
  <2>3. f = [i \in 1 .. m - 1 |-> body(i)]
    BY <2>2 DEF Opens
  <2> HIDE DEF body
  <2>4. \A i \in 1 .. m - 1 : g[i] = f[i] /\ i \in 1 .. m
    BY <1>2, <2>3
  <2>5. \A i \in 1 .. m : i # 1 => i - 1 \in 1 .. m - 1
    BY <1>2
  <2>6. \A i \in 1 .. m : body(i) = IF i = 1 THEN <<>> ELSE Opened(tree.tokens[i - 1], g[i - 1])
    <3>1. ASSUME NEW i \in 1 .. m, i # 1 PROVE g[i - 1] = f[i - 1]
      BY <2>4, <2>5, <3>1
    <3> HIDE DEF g
    <3> QED BY <3>1 DEF body
  <2>7. g = [i \in 1 .. m |-> IF i = 1 THEN <<>> ELSE Opened(tree.tokens[i - 1], g[i - 1])]
    <3> DEFINE h == [i \in 1 .. m |-> IF i = 1 THEN <<>> ELSE Opened(tree.tokens[i - 1], g[i - 1])]
    <3>1. g = [i \in 1 .. m |-> body(i)]
      OBVIOUS
    <3> HIDE DEF g
    <3>2. g = h
      BY <2>6, <3>1
    <3> QED BY <3>2
  <2> HIDE DEF g
  <2>8. Opens(tree, m, g)
    BY <2>7 DEF Opens
  <2> QED BY <1>2, <2>8
<1> QED BY <1>3, <1>4

\* So Open has them.
LEMMA OpenUnfolds ==
    ASSUME NEW tree \in Blobs
    PROVE  /\ Open(tree)[1] = <<>>
           /\ \A i \in 1 .. tree.struct_size : Open(tree)[i + 1] = Opened(tree.tokens[i], Open(tree)[i])
<1> DEFINE n == tree.struct_size + 1
<1>1. n \in Nat \ {0} /\ tree.struct_size \in Nat
  BY TreeAssumption
<1>2. Open(tree) = CHOOSE f : Opens(tree, n, f)
  BY DEF Open, Opens, Opened
<1>3. Opens(tree, n, Open(tree))
  <2>1. \E f : Opens(tree, n, f)
    BY <1>1, OpensExist
  <2> HIDE DEF n
  <2> QED BY <1>2, <2>1
<1> DEFINE open == Open(tree)
<1> HIDE DEF open
<1>4. open = [i \in 1 .. n |-> IF i = 1 THEN <<>> ELSE Opened(tree.tokens[i - 1], open[i - 1])]
  BY <1>3 DEF Opens, open
<1>5. open[1] = <<>>
  <2>1. 1 \in 1 .. n
    BY <1>1
  <2> HIDE DEF n
  <2> QED BY <1>4, <2>1
<1>6. ASSUME NEW i \in 1 .. tree.struct_size PROVE open[i + 1] = Opened(tree.tokens[i], open[i])
  <2>1. i + 1 \in 1 .. n /\ i + 1 # 1 /\ (i + 1) - 1 = i
    BY <1>1
  <2> HIDE DEF n
  <2> QED BY <1>4, <2>1
<1> QED BY <1>5, <1>6 DEF open
-------------------------------------------------------------------------------
(* The inductive invariant of a lookup *)

\* The names of the nodes.
NamesOf(tree) == {tree.tokens[i].name : i \in 1 .. tree.struct_size}

\* A token at which the tree is not one.
BadAt(tree, i) ==
    LET token == tree.tokens[i].token
    IN \/ token = "BAD"
       \/ token = "BEGIN" /\ Len(Open(tree)[i]) >= MaxDepth
       \/ token \in {"END_NODE", "PROP"} /\ Open(tree)[i] = <<>>
       \/ token = "PROP" /\ StringAt(tree, tree.tokens[i].name_offset) = ""

\* The traversal has open what the tree has, and has passed nothing it stops at.
Placed(tree, w) ==
    /\ w.at \in 1 .. tree.struct_size + 1
    /\ w.node_stack = Open(tree)[w.at] /\ w.node_stack \in Seq(NamesOf(tree))
    /\ Len(w.node_stack) <= MaxDepth
Passed(tree, w) ==
    \A j \in 1 .. w.at - 1 : ~BadAt(tree, j) /\ j \notin Hits(tree, w.lookup) /\ j \notin Ends(tree)

\* Its flags say of each open node whether it is on the path, and of the memory node whether it
\* is open.
Matches(lookup, names, d) ==
    lookup.kind = "property" /\ \A k \in 0 .. d : ComponentMatches(lookup.path, k, names[k + 1])
Matching(w) ==
    /\ DOMAIN w.path_matches = 0 .. MaxDepth - 1
    /\ \A d \in 0 .. Len(w.node_stack) - 1 : w.path_matches[d] <=> Matches(w.lookup, w.node_stack, d)
InMemory(names) == Len(names) >= 2 /\ names[2] \in MemoryNames
Flagged(w) == w.memory_depth = IF InMemory(w.node_stack) THEN 1 ELSE -1

Follows(tree, w) == Placed(tree, w) /\ Passed(tree, w) /\ Matching(w) /\ Flagged(w)

\* What LookupExact says of a traversal that has ended.
Exact(tree, w) ==
    LET i == Stop(tree, w.lookup)
    IN /\ w.at = i
       /\ w.status = "NOT_FOUND" <=> i \in Ends(tree)
       /\ w.status = "FOUND" => i \in Hits(tree, w.lookup)
       /\ i \in Hits(tree, w.lookup) /\ w.lookup.kind = "property" =>
            w.status = "FOUND" /\ w.value = tree.tokens[i].cells

\* The names in main's paths.
Components == {"chosen"}

\* What a lookup looks for: a named property of the root or of a node under it, or memory.
Wanted(lookup) ==
    /\ lookup.kind \in {"property", "memory"}
    /\ lookup.kind = "property" => lookup.path \in Seq(Components) /\ lookup.name # ""

\* The lookup in progress is one of main's: it follows the tree, or has ended where it should.
LookupInv ==
    /\ DOMAIN walk = Fields
    /\ Wanted(walk.lookup)
    /\ walk.status = "walking" => Follows(blob, walk)
    /\ walk.status # "walking" => Exact(blob, walk)

\* The first bad token.
LEMMA FirstBadFacts ==
    ASSUME NEW tree \in Blobs
    PROVE  /\ FirstBad(tree) \in 1 .. tree.struct_size + 1
           /\ FirstBad(tree) <= tree.struct_size => BadAt(tree, FirstBad(tree))
           /\ \A j \in 1 .. FirstBad(tree) - 1 : ~BadAt(tree, j)
<1> DEFINE n == tree.struct_size
           P(i) == /\ i <= n => BadAt(tree, i)
                   /\ \A j \in 1 .. i - 1 : ~BadAt(tree, j)
           T == {i \in 1 .. n + 1 : i <= n => BadAt(tree, i)}
<1>1. n \in Nat
  BY TreeAssumption
<1>2. FirstBad(tree) = CHOOSE i \in 1 .. n + 1 : P(i)
  BY DEF FirstBad, BadAt
<1>3. \E i \in 1 .. n + 1 : P(i)
  <2>1. n + 1 \in T /\ T \in SUBSET Nat
    BY <1>1
  <2>2. PICK i \in T : \A k \in T : i <= k
    BY <2>1, SmallestOf
  <2>3. i \in 1 .. n + 1 /\ (i <= n => BadAt(tree, i))
    OBVIOUS
  <2> HIDE DEF n
  <2>4. ASSUME NEW j \in 1 .. i - 1 PROVE ~BadAt(tree, j)
    <3>1. j \in 1 .. n + 1 /\ ~(i <= j)
      BY <1>1, <2>3
    <3> QED BY <2>2, <3>1
  <2> QED BY <2>3, <2>4
<1> HIDE DEF P, n
<1>4. FirstBad(tree) \in 1 .. n + 1 /\ P(FirstBad(tree))
  BY <1>2, <1>3
<1> QED BY <1>4 DEF P, n

\* Where a lookup has passed nothing and cannot go on, it stops.
LEMMA StopsAt ==
    ASSUME NEW tree \in Blobs, NEW lookup, NEW i \in 1 .. tree.struct_size + 1,
           \A j \in 1 .. i - 1 : ~BadAt(tree, j) /\ j \notin Hits(tree, lookup) /\ j \notin Ends(tree),
           \/ i = tree.struct_size + 1 \/ BadAt(tree, i) \/ i \in Hits(tree, lookup) \/ i \in Ends(tree)
    PROVE  Stop(tree, lookup) = i
<1> DEFINE n == tree.struct_size
           candidates == Hits(tree, lookup) \cup Ends(tree) \cup {FirstBad(tree)}
           P(c) == \A k \in candidates : c <= k
<1>1. n \in Nat
  BY TreeAssumption
<1>2. /\ FirstBad(tree) \in 1 .. n + 1 /\ (FirstBad(tree) <= n => BadAt(tree, FirstBad(tree)))
      /\ \A j \in 1 .. FirstBad(tree) - 1 : ~BadAt(tree, j)
  BY FirstBadFacts
<1>3. Hits(tree, lookup) \subseteq 1 .. n /\ Ends(tree) \subseteq 1 .. n
  BY DEF Hits, Ends
<1>4. candidates \subseteq 1 .. n + 1
  BY <1>1, <1>2, <1>3
<1> HIDE DEF n
<1>5. ASSUME NEW k \in candidates PROVE i <= k
  <2>1. CASE k = FirstBad(tree) /\ k < i
    <3>1. k \in 1 .. i - 1 /\ k <= n
      BY <1>1, <1>2, <2>1 DEF n
    <3> QED BY <1>2, <2>1, <3>1
  <2>2. CASE k \in Hits(tree, lookup) \cup Ends(tree) /\ k < i
    <3>1. k \in 1 .. i - 1
      BY <1>1, <1>3, <2>2 DEF n
    <3> QED BY <2>2, <3>1
  <2> QED BY <1>1, <1>4, <2>1, <2>2 DEF n
<1>6. i \in candidates
  <2>1. CASE i = n + 1 \/ BadAt(tree, i)
    <3>1. i <= FirstBad(tree)
      BY <1>5
    <3>2. ~(i < FirstBad(tree))
      <4>1. i < FirstBad(tree) => i \in 1 .. FirstBad(tree) - 1 /\ i # n + 1
        BY <1>1, <1>2 DEF n
      <4> QED BY <1>2, <2>1, <4>1
    <3> QED BY <1>1, <1>2, <3>1, <3>2 DEF n
  <2> QED BY <2>1 DEF n
<1>7. Stop(tree, lookup) = CHOOSE c \in candidates : P(c)
  BY DEF Stop
<1>8. P(i)
  BY <1>5
<1>9. ASSUME NEW c \in candidates, P(c) PROVE c = i
  BY <1>1, <1>4, <1>5, <1>6, <1>9 DEF n
<1> HIDE DEF candidates, P
<1> QED BY <1>6, <1>7, <1>8, <1>9

\* A path under the root.
LEMMA RootPath ==
    ASSUME NEW P, NEW path \in Seq(P), NEW whole, whole = <<RootName>> \o path
    PROVE  /\ whole \in Seq(P \cup {RootName}) /\ Len(whole) = Len(path) + 1 /\ Len(path) \in Nat
           /\ whole[1] = RootName
           /\ \A k \in 1 .. Len(path) : whole[k + 1] = path[k]
<1> DEFINE root == <<RootName>>
           S == P \cup {RootName}
<1>1. /\ root \in Seq(S) /\ Len(root) = 1 /\ root[1] = RootName
      /\ path \in Seq(S) /\ Len(path) \in Nat /\ whole = root \o path
  OBVIOUS
<1> HIDE DEF root, S
<1>2. /\ whole \in Seq(S) /\ Len(whole) = Len(root) + Len(path)
      /\ \A j \in 1 .. Len(root) + Len(path) :
            whole[j] = IF j <= Len(root) THEN root[j] ELSE path[j - Len(root)]
  BY <1>1, ConcatProperties
<1>3. Len(whole) = Len(path) + 1 /\ whole[1] = RootName
  BY <1>1, <1>2
<1>4. \A k \in 1 .. Len(path) : whole[k + 1] = path[k]
  BY <1>1, <1>2
<1> QED BY <1>1, <1>2, <1>3, <1>4 DEF S

\* A list of names is one when each of its names is the path's.
LEMMA OnPath ==
    ASSUME NEW S, NEW names \in Seq(S), NEW P, NEW path \in Seq(P), Len(names) = Len(path) + 1,
           NEW whole, whole = <<RootName>> \o path
    PROVE  (\A k \in 0 .. Len(path) : ComponentMatches(path, k, names[k + 1])) <=> names = whole
<1>1. Len(path) \in Nat /\ whole \in Seq(P \cup {RootName})
  BY RootPath
<1>4. Len(whole) = Len(path) + 1 /\ whole[1] = RootName
  BY RootPath
<1>5. \A k \in 1 .. Len(path) : whole[k + 1] = path[k]
  BY RootPath
<1>6. ASSUME names = whole PROVE \A k \in 0 .. Len(path) : ComponentMatches(path, k, names[k + 1])
  BY <1>1, <1>4, <1>5, <1>6 DEF ComponentMatches
<1>7. ASSUME \A k \in 0 .. Len(path) : ComponentMatches(path, k, names[k + 1]) PROVE names = whole
  <2>1. ASSUME NEW j \in 1 .. Len(path) + 1 PROVE names[j] = whole[j]
    <3> DEFINE k == j - 1
    <3>1. k \in 0 .. Len(path) /\ k + 1 = j
      BY <1>1
    <3> HIDE DEF k
    <3>2. ComponentMatches(path, k, names[j])
      BY <1>7, <3>1
    <3>3. CASE k = 0
      BY <1>4, <3>1, <3>2, <3>3 DEF ComponentMatches
    <3>4. CASE k # 0
      <4>1. k \in 1 .. Len(path)
        BY <1>1, <3>1, <3>4
      <4> QED BY <1>5, <3>1, <3>2, <3>4, <4>1 DEF ComponentMatches
    <3> QED BY <3>3, <3>4
  <2> DEFINE T == S \cup (P \cup {RootName})
  <2>2. /\ names \in Seq(T) /\ whole \in Seq(T) /\ Len(names) = Len(whole)
        /\ \A j \in 1 .. Len(names) : names[j] = whole[j]
    BY <1>1, <1>4, <2>1
  <2> HIDE DEF T
  <2> QED BY <2>2, SeqEqual
<1> QED BY <1>6, <1>7

\* The callback takes exactly the properties the lookup is for.
LEMMA TakesHits ==
    ASSUME NEW tree \in Blobs, NEW w, DOMAIN w = Fields,
           w.lookup.kind \in {"property", "memory"},
           w.lookup.kind = "property" => w.lookup.path \in Seq(Components),
           Follows(tree, w), w.at <= tree.struct_size, tree.tokens[w.at].token = "PROP",
           w.node_stack # <<>>
    PROVE  Takes(w, StringAt(tree, tree.tokens[w.at].name_offset)) <=> w.at \in Hits(tree, w.lookup)
<1> DEFINE i == w.at
           names == w.node_stack
           lookup == w.lookup
           name == StringAt(tree, tree.tokens[i].name_offset)
           depth == Len(names) - 1
<1>1. /\ i \in 1 .. tree.struct_size /\ names = Open(tree)[i] /\ names \in Seq(NamesOf(tree))
      /\ Len(names) \in Nat \ {0} /\ MaxDepth \in Nat
  <2>1. tree.struct_size \in Nat /\ MaxDepth \in Nat
    BY TreeAssumption, DepthAssumption
  <2>2. i \in 1 .. tree.struct_size + 1 /\ names = Open(tree)[i] /\ names \in Seq(NamesOf(tree))
    BY DEF Follows, Placed
  <2>3. Len(names) \in Nat \ {0}
    BY <2>2
  <2> QED BY <2>1, <2>2, <2>3
<1>2. CASE lookup.kind = "memory"
  <2>1. Takes(w, name) <=> depth = w.memory_depth /\ name = "reg"
    BY <1>2 DEF Takes, Depth
  <2>2. i \in Hits(tree, lookup) <=> Len(names) = 2 /\ names[2] \in MemoryNames /\ name = "reg"
    BY <1>1, <1>2 DEF Hits
  <2>3. w.memory_depth = IF InMemory(names) THEN 1 ELSE -1
    BY DEF Follows, Flagged
  <2>4. depth = w.memory_depth <=> Len(names) = 2 /\ names[2] \in MemoryNames
    <3> DEFINE len == Len(names)
    <3>5. len \in Nat /\ depth = len - 1
      BY <1>1
    <3>1. CASE InMemory(names)
      <4>1. len >= 2 /\ names[2] \in MemoryNames /\ w.memory_depth = 1
        BY <2>3, <3>1 DEF InMemory
      <4> HIDE DEF len, depth
      <4>2. depth = 1 <=> len = 2
        BY <3>5
      <4> QED BY <4>1, <4>2 DEF len
    <3>2. CASE ~InMemory(names)
      <4>1. depth # w.memory_depth
        BY <1>1, <2>3, <3>2
      <4>2. ~(Len(names) = 2 /\ names[2] \in MemoryNames)
        BY <3>2 DEF InMemory
      <4> QED BY <4>1, <4>2
    <3> QED BY <3>1, <3>2
  <2> QED BY <2>1, <2>2, <2>4
<1>3. CASE lookup.kind = "property"
  <2>1. Takes(w, name) <=> w.path_matches[depth] /\ Len(lookup.path) = depth /\ name = lookup.name
    BY <1>3 DEF Takes, Depth, EndsAtDepth
  <2>2. i \in Hits(tree, lookup) <=> names = <<RootName>> \o lookup.path /\ name = lookup.name
    BY <1>1, <1>3 DEF Hits
  <2>3. w.path_matches[depth] <=> \A k \in 0 .. depth : ComponentMatches(lookup.path, k, names[k + 1])
    <3>1. depth \in 0 .. Len(names) - 1
      BY <1>1
    <3>2. w.path_matches[depth] <=> Matches(lookup, names, depth)
      BY <3>1 DEF Follows, Matching
    <3> QED BY <1>3, <3>2 DEF Matches
  <2>4. lookup.path \in Seq(Components)
    BY <1>3
  <2> DEFINE path == lookup.path
             whole == <<RootName>> \o path
  <2>7. whole = <<RootName>> \o path /\ path \in Seq(Components)
    BY <2>4
  <2>8. depth = Len(names) - 1
    OBVIOUS
  <2>9. names \in Seq(NamesOf(tree)) /\ Len(names) \in Nat \ {0}
    BY <1>1
  <2> HIDE DEF whole, path, names, depth
  <2>5. names = whole => Len(path) = depth
    <3>1. Len(whole) = Len(path) + 1 /\ Len(path) \in Nat
      BY ONLY <2>7, RootPath
    <3> QED BY <2>8, <3>1
  <2>6. ASSUME Len(path) = depth
        PROVE  (\A k \in 0 .. depth : ComponentMatches(path, k, names[k + 1])) <=> names = whole
    <3>1. Len(names) = Len(path) + 1
      BY <2>6, <2>8, <2>9
    <3>2. (\A k \in 0 .. Len(path) : ComponentMatches(path, k, names[k + 1])) <=> names = whole
      BY ONLY <2>7, <2>9, <3>1, OnPath
    <3> QED BY <2>6, <3>2
  <2> USE DEF path, whole
  <2> QED BY <2>1, <2>2, <2>3, <2>5, <2>6
<1> QED BY <1>2, <1>3

\* A token that is passed: the traversal has open what the tree has after it.
LEMMA Advances ==
    ASSUME NEW tree \in Blobs, NEW w, Placed(tree, w), Passed(tree, w), w.at <= tree.struct_size,
           ~BadAt(tree, w.at), w.at \notin Hits(tree, w.lookup), w.at \notin Ends(tree),
           NEW v, v.at = w.at + 1, v.lookup = w.lookup,
           v.node_stack = Opened(tree.tokens[w.at], w.node_stack)
    PROVE  Placed(tree, v) /\ Passed(tree, v)
<1> DEFINE i == w.at
           n == tree.struct_size
           names == w.node_stack
           token == tree.tokens[i]
<1>1. /\ n \in Nat /\ i \in 1 .. n /\ MaxDepth \in Nat
  <2>1. n \in Nat /\ i \in 1 .. n + 1 /\ MaxDepth \in Nat
    BY TreeAssumption, DepthAssumption DEF Placed
  <2> QED BY <2>1
<1>2. names = Open(tree)[i] /\ names \in Seq(NamesOf(tree)) /\ Len(names) <= MaxDepth
  BY DEF Placed
<1>3. v.node_stack = Open(tree)[i + 1]
  BY <1>1, <1>2, OpenUnfolds
<1>4. v.node_stack \in Seq(NamesOf(tree)) /\ Len(v.node_stack) <= MaxDepth
  <2> DEFINE after == Opened(token, names)
  <2>1. CASE token.token = "BEGIN"
    <3>1. token.name \in NamesOf(tree)
      BY <1>1 DEF NamesOf
    <3>2. Len(names) < MaxDepth
      <4>1. ~(Len(Open(tree)[i]) >= MaxDepth)
        BY <2>1 DEF BadAt
      <4> QED BY <1>1, <1>2, <4>1
    <3>3. after = Append(names, token.name)
      BY <2>1 DEF Opened
    <3> QED BY <1>1, <1>2, <3>1, <3>2, <3>3
  <2>2. CASE token.token = "END_NODE" /\ names # <<>>
    <3>1. after = SubSeq(names, 1, Len(names) - 1)
      BY <2>2 DEF Opened
    <3>2. Len(names) \in Nat \ {0}
      BY <1>2, <2>2
    <3>3. after \in Seq(NamesOf(tree)) /\ Len(after) = Len(names) - 1
      <4>1. \A j \in 1 .. Len(names) - 1 : names[j] \in NamesOf(tree)
        BY <1>2, <3>2
      <4> QED BY <1>2, <3>1, <3>2, <4>1
    <3> QED BY <1>1, <1>2, <3>2, <3>3
  <2>3. CASE after = names
    BY <1>2, <2>3
  <2> QED BY <2>1, <2>2, <2>3 DEF Opened
<1>5. Placed(tree, v)
  BY <1>1, <1>3, <1>4 DEF Placed
<1>6. Passed(tree, v)
  <2>1. ASSUME NEW j \in 1 .. v.at - 1
        PROVE  ~BadAt(tree, j) /\ j \notin Hits(tree, v.lookup) /\ j \notin Ends(tree)
    <3>1. j = i \/ j \in 1 .. i - 1
      BY <1>1
    <3> QED BY <3>1 DEF Passed
  <2> QED BY <2>1 DEF Passed
<1> QED BY <1>5, <1>6
-------------------------------------------------------------------------------
(* A turn of a lookup *)

\* A name of a list is still there when another is appended.
LEMMA AppendedName ==
    ASSUME NEW S, NEW names \in Seq(S), NEW name \in S
    PROVE  /\ Append(names, name) \in Seq(S) /\ Len(Append(names, name)) = Len(names) + 1
           /\ \A k \in 1 .. Len(names) : Append(names, name)[k] = names[k]
           /\ Append(names, name)[Len(names) + 1] = name
OBVIOUS

\* A node is opened.
LEMMA BeginFollows ==
    ASSUME NEW tree \in Blobs, NEW w, DOMAIN w = Fields, w.status = "walking",
           w.lookup.kind \in {"property", "memory"},
           Follows(tree, w), w.at <= tree.struct_size, tree.tokens[w.at].token = "BEGIN",
           ~BadAt(tree, w.at),
           NEW v, v = BeginNode(w, tree.tokens[w.at].name)
    PROVE  v.status = "walking" /\ Follows(tree, v)
<1> DEFINE i == w.at
           names == w.node_stack
           depth == Len(names)
           name == tree.tokens[i].name
           after == Append(names, name)
<1>1. /\ i \in 1 .. tree.struct_size /\ names = Open(tree)[i] /\ names \in Seq(NamesOf(tree))
      /\ depth \in Nat /\ MaxDepth \in Nat \ {0} /\ name \in NamesOf(tree)
  <2>1. tree.struct_size \in Nat /\ MaxDepth \in Nat \ {0}
    BY TreeAssumption, DepthAssumption
  <2>2. i \in 1 .. tree.struct_size + 1 /\ names = Open(tree)[i] /\ names \in Seq(NamesOf(tree))
    BY DEF Follows, Placed
  <2>3. i \in 1 .. tree.struct_size
    BY <2>1, <2>2
  <2> QED BY <2>1, <2>2, <2>3 DEF NamesOf
<1>2. depth < MaxDepth
  BY <1>1 DEF BadAt
<1>3. /\ v.at = i + 1 /\ v.lookup = w.lookup /\ v.status = "walking" /\ v.node_stack = after
      /\ v.memory_depth = IF depth = 1 /\ name \in MemoryNames THEN depth ELSE w.memory_depth
      /\ v.path_matches = [w.path_matches EXCEPT ![depth] =
            /\ w.lookup.kind = "property"
            /\ depth > 0 => w.path_matches[depth - 1]
            /\ ComponentMatches(w.lookup.path, depth, name)]
  BY <1>1, <1>2 DEF BeginNode, Fields
<1>4. /\ after \in Seq(NamesOf(tree)) /\ Len(after) = depth + 1
      /\ \A k \in 1 .. depth : after[k] = names[k]
      /\ after[depth + 1] = name
  BY <1>1, AppendedName
<1>5. Placed(tree, v) /\ Passed(tree, v)
  <2>1. i \notin Hits(tree, w.lookup) /\ i \notin Ends(tree)
    BY DEF Hits, Ends
  <2>2. v.node_stack = Opened(tree.tokens[i], names)
    BY <1>3 DEF Opened
  <2> QED BY <1>3, <2>1, <2>2, Advances DEF Follows
<1> HIDE DEF after, depth, name, names, i
<1>6. Matching(v)
  <2>1. DOMAIN v.path_matches = 0 .. MaxDepth - 1
    BY <1>3 DEF Follows, Matching
  <2>2. ASSUME NEW d \in 0 .. depth PROVE v.path_matches[d] <=> Matches(w.lookup, after, d)
    <3>1. \A k \in 0 .. depth - 1 : after[k + 1] = names[k + 1]
      BY <1>1, <1>4
    <3>2. \A c \in 0 .. depth - 1 : Matches(w.lookup, after, c) <=> Matches(w.lookup, names, c)
      BY <1>1, <3>1 DEF Matches
    <3>3. \A c \in 0 .. depth - 1 : w.path_matches[c] <=> Matches(w.lookup, names, c)
      BY DEF Follows, Matching, names, depth
    <3>4. CASE d # depth
      <4>1. d \in 0 .. depth - 1
        BY <1>1, <3>4
      <4>2. v.path_matches[d] = w.path_matches[d]
        BY <1>2, <1>3, <2>1, <3>4
      <4> QED BY <3>2, <3>3, <4>1, <4>2
    <3>5. CASE d = depth
      <4>1. depth \in DOMAIN w.path_matches
        BY <1>1, <1>2 DEF Follows, Matching
      <4>2. v.path_matches[d] = (/\ w.lookup.kind = "property"
                                 /\ depth > 0 => w.path_matches[depth - 1]
                                 /\ ComponentMatches(w.lookup.path, depth, name))
        BY <1>3, <3>5, <4>1
      <4>3. Matches(w.lookup, after, depth)
               <=> /\ w.lookup.kind = "property"
                   /\ \A k \in 0 .. depth - 1 : ComponentMatches(w.lookup.path, k, after[k + 1])
                   /\ ComponentMatches(w.lookup.path, depth, name)
        <5>1. \A k : k \in 0 .. depth <=> k \in 0 .. depth - 1 \/ k = depth
          BY <1>1
        <5> QED BY <1>4, <5>1 DEF Matches
      <4>4. CASE depth = 0
        <5>1. \A k \in 0 .. depth - 1 : ComponentMatches(w.lookup.path, k, after[k + 1])
          BY <4>4
        <5> QED BY <3>5, <4>2, <4>3, <4>4, <5>1
      <4>5. CASE depth > 0
        <5>1. depth - 1 \in 0 .. depth - 1
          BY <1>1, <4>5
        <5>2. w.path_matches[depth - 1] <=> Matches(w.lookup, after, depth - 1)
          BY <3>2, <3>3, <5>1
        <5> QED BY <3>5, <4>2, <4>3, <4>5, <5>2 DEF Matches
      <4> QED BY <1>1, <4>4, <4>5
    <3> QED BY <3>4, <3>5
  <2>3. Len(v.node_stack) - 1 = depth
    BY <1>1, <1>3, <1>4
  <2> QED BY <1>3, <2>1, <2>2, <2>3 DEF Matching
<1>7. Flagged(v)
  <2>1. w.memory_depth = IF InMemory(names) THEN 1 ELSE -1
    BY DEF Follows, Flagged, names
  <2>2. CASE depth >= 2
    <3>1. InMemory(after) <=> InMemory(names)
      <4>1. 2 \in 1 .. depth /\ Len(after) >= 2 /\ depth # 1
        BY <1>1, <1>4, <2>2
      <4> QED BY <1>4, <2>2, <4>1 DEF InMemory, depth
    <3>2. depth # 1
      BY <1>1, <2>2
    <3> QED BY <1>3, <2>1, <3>1, <3>2 DEF Flagged
  <2>3. CASE depth = 1
    <3>1. ~InMemory(names)
      BY <2>3 DEF InMemory, depth
    <3>2. InMemory(after) <=> name \in MemoryNames
      BY <1>4, <2>3 DEF InMemory
    <3> QED BY <1>3, <2>1, <2>3, <3>1, <3>2 DEF Flagged
  <2>4. CASE depth = 0
    <3>1. ~InMemory(names) /\ ~InMemory(after)
      BY <1>4, <2>4 DEF InMemory, depth
    <3> QED BY <1>3, <2>1, <2>4, <3>1 DEF Flagged
  <2> QED BY <1>1, <2>2, <2>3, <2>4
<1> QED BY <1>3, <1>5, <1>6, <1>7 DEF Follows

\* A node is closed.
LEMMA EndFollows ==
    ASSUME NEW tree \in Blobs, NEW w, DOMAIN w = Fields, w.status = "walking",
           w.lookup.kind \in {"property", "memory"},
           Follows(tree, w), w.at <= tree.struct_size, tree.tokens[w.at].token = "END_NODE",
           ~BadAt(tree, w.at),
           NEW v, v = EndNode(w)
    PROVE  v.status = "walking" /\ Follows(tree, v)
<1> DEFINE i == w.at
           names == w.node_stack
           depth == Len(names) - 1
           after == SubSeq(names, 1, depth)
<1>1. /\ i \in 1 .. tree.struct_size /\ names = Open(tree)[i] /\ names \in Seq(NamesOf(tree))
      /\ MaxDepth \in Nat \ {0} /\ Len(names) <= MaxDepth
  <2>1. tree.struct_size \in Nat /\ MaxDepth \in Nat \ {0}
    BY TreeAssumption, DepthAssumption
  <2>2. /\ i \in 1 .. tree.struct_size + 1 /\ names = Open(tree)[i] /\ names \in Seq(NamesOf(tree))
        /\ Len(names) <= MaxDepth
    BY DEF Follows, Placed
  <2>3. i \in 1 .. tree.struct_size
    BY <2>1, <2>2
  <2> QED BY <2>1, <2>2, <2>3
<1>2. names # <<>>
  BY <1>1 DEF BadAt
<1>3. /\ Len(names) \in Nat \ {0} /\ after \in Seq(NamesOf(tree)) /\ Len(after) = depth
      /\ \A k \in 1 .. depth : after[k] = names[k]
  BY <1>1, <1>2, WithoutLast
<1>4. /\ v.at = i + 1 /\ v.lookup = w.lookup /\ v.status = "walking" /\ v.node_stack = after
      /\ v.memory_depth = IF w.memory_depth = depth THEN -1 ELSE w.memory_depth
      /\ v.path_matches = [w.path_matches EXCEPT ![depth] = FALSE]
  BY <1>3 DEF EndNode, Depth, Fields
<1>5. Placed(tree, v) /\ Passed(tree, v)
  <2>1. i \notin Hits(tree, w.lookup) /\ i \notin Ends(tree)
    BY DEF Hits, Ends
  <2>2. v.node_stack = Opened(tree.tokens[i], names)
    BY <1>2, <1>4 DEF Opened
  <2> QED BY <1>4, <2>1, <2>2, Advances DEF Follows
<1>6. depth \in Nat /\ depth = Len(names) - 1
  BY <1>3
<1> HIDE DEF after, depth, names, i
<1>7. Matching(v)
  <2>1. DOMAIN v.path_matches = 0 .. MaxDepth - 1
    BY <1>4 DEF Follows, Matching
  <2>2. ASSUME NEW d \in 0 .. depth - 1 PROVE v.path_matches[d] <=> Matches(w.lookup, after, d)
    <3>1. \A k \in 0 .. d : after[k + 1] = names[k + 1]
      BY <1>3, <1>6
    <3>2. Matches(w.lookup, after, d) <=> Matches(w.lookup, names, d)
      BY <3>1 DEF Matches
    <3>3. d \in 0 .. Len(names) - 1
      BY <1>6
    <3>4. w.path_matches[d] <=> Matches(w.lookup, names, d)
      BY <3>3 DEF Follows, Matching, names
    <3>5. v.path_matches[d] = w.path_matches[d]
      <4>1. d # depth
        BY <1>6
      <4>2. d \in 0 .. MaxDepth - 1
        BY <1>1, <1>6
      <4> QED BY <1>4, <4>1, <4>2 DEF Follows, Matching
    <3> QED BY <3>2, <3>4, <3>5
  <2>3. Len(v.node_stack) - 1 = depth - 1
    BY <1>3, <1>4
  <2> QED BY <1>4, <2>1, <2>2, <2>3 DEF Matching
<1>8. Flagged(v)
  <2>1. w.memory_depth = IF InMemory(names) THEN 1 ELSE -1
    BY DEF Follows, Flagged, names
  <2>2. CASE depth >= 2
    <3>1. 2 \in 1 .. depth /\ Len(after) >= 2 /\ Len(names) >= 2 /\ depth # 1 /\ depth # -1
      BY <1>3, <1>6, <2>2
    <3>2. InMemory(after) <=> InMemory(names)
      BY <1>3, <3>1 DEF InMemory
    <3> QED BY <1>4, <2>1, <3>1, <3>2 DEF Flagged
  <2>3. CASE depth < 2
    <3>1. ~InMemory(after)
      BY <1>3, <1>6, <2>3 DEF InMemory
    <3>2. InMemory(names) => depth = 1
      BY <1>6, <2>3 DEF InMemory
    <3>3. v.memory_depth = -1
      BY <1>4, <2>1, <3>2
    <3> QED BY <1>4, <3>1, <3>3 DEF Flagged
  <2> QED BY <1>6, <2>2, <2>3
<1> QED BY <1>4, <1>5, <1>7, <1>8 DEF Follows

\* A property that is not taken, or a token that says nothing.
LEMMA SkipFollows ==
    ASSUME NEW tree \in Blobs, NEW w, DOMAIN w = Fields, w.status = "walking",
           Follows(tree, w), w.at <= tree.struct_size, tree.tokens[w.at].token \in {"PROP", "NOP"},
           ~BadAt(tree, w.at), w.at \notin Hits(tree, w.lookup),
           NEW v, v = [w EXCEPT !.at = @ + 1]
    PROVE  v.status = "walking" /\ Follows(tree, v)
<1>1. /\ v.at = w.at + 1 /\ v.lookup = w.lookup /\ v.status = "walking"
      /\ v.node_stack = w.node_stack /\ v.path_matches = w.path_matches
      /\ v.memory_depth = w.memory_depth
  BY DEF Fields
<1>2. w.at \notin Ends(tree) /\ v.node_stack = Opened(tree.tokens[w.at], w.node_stack)
  BY <1>1 DEF Ends, Opened
<1>3. Placed(tree, v) /\ Passed(tree, v)
  BY <1>1, <1>2, Advances DEF Follows
<1>4. Matching(v) /\ Flagged(v)
  BY <1>1 DEF Follows, Matching, Flagged
<1> QED BY <1>1, <1>3, <1>4 DEF Follows


\* A property is found in no tree that is malformed there.
LEMMA BadIsNoHit ==
    ASSUME NEW tree \in Blobs, NEW lookup, Wanted(lookup), lookup.kind = "property",
           NEW i \in 1 .. tree.struct_size, BadAt(tree, i)
    PROVE  i \notin Hits(tree, lookup)
<1> DEFINE path == lookup.path
           whole == <<RootName>> \o path
<1> SUFFICES ASSUME i \in Hits(tree, lookup) PROVE FALSE
  OBVIOUS
<1>1. /\ tree.tokens[i].token = "PROP" /\ Open(tree)[i] = whole
      /\ StringAt(tree, tree.tokens[i].name_offset) # ""
  BY DEF Hits, Wanted
<1>2. path \in Seq(Components) /\ whole = <<RootName>> \o path
  BY DEF Wanted
<1> HIDE DEF path, whole
<1>3. Len(whole) = Len(path) + 1 /\ Len(path) \in Nat
  BY ONLY <1>2, RootPath
<1>4. whole # <<>>
  <2>1. Len(<<>>) = 0
    BY EmptySeq
  <2> QED BY <1>3, <2>1
<1> QED BY <1>1, <1>4 DEF BadAt

\* A traversal that stops at a token it cannot pass has the result LookupExact says.
LEMMA StopExact ==
    ASSUME NEW tree \in Blobs, NEW w, Wanted(w.lookup), Follows(tree, w),
           NEW v, v.at = w.at, v.lookup = w.lookup,
           \/ /\ w.at = tree.struct_size + 1 \/ BadAt(tree, w.at)
              /\ v.status \notin {"FOUND", "NOT_FOUND"}
           \/ w.at \in Ends(tree) /\ v.status = "NOT_FOUND"
           \/ /\ w.at \in Hits(tree, w.lookup) /\ v.status # "NOT_FOUND"
              /\ w.lookup.kind = "property" =>
                    v.status = "FOUND" /\ v.value = tree.tokens[w.at].cells
    PROVE  Exact(tree, v)
<1> DEFINE i == w.at
<1>1. /\ i \in 1 .. tree.struct_size + 1 /\ tree.struct_size \in Nat
      /\ \A j \in 1 .. i - 1 : ~BadAt(tree, j) /\ j \notin Hits(tree, w.lookup) /\ j \notin Ends(tree)
  BY TreeAssumption DEF Follows, Placed, Passed
<1>2. Stop(tree, w.lookup) = i
  BY <1>1, StopsAt
<1>3. Hits(tree, w.lookup) \cap Ends(tree) = {}
  BY DEF Hits, Ends
<1>4. CASE /\ i = tree.struct_size + 1 \/ BadAt(tree, i)
           /\ v.status \notin {"FOUND", "NOT_FOUND"}
  <2>1. i = tree.struct_size + 1 => i \notin Ends(tree) /\ i \notin Hits(tree, w.lookup)
    <3>1. Ends(tree) \subseteq 1 .. tree.struct_size /\ Hits(tree, w.lookup) \subseteq 1 .. tree.struct_size
      BY DEF Ends, Hits
    <3>2. tree.struct_size + 1 \notin 1 .. tree.struct_size
      BY <1>1
    <3> QED BY <3>1, <3>2
  <2>2. BadAt(tree, i) => i \notin Ends(tree)
    BY DEF BadAt, Ends
  <2>3. i # tree.struct_size + 1 => i \in 1 .. tree.struct_size
    BY <1>1
  <2>4. w.lookup.kind = "property" => i \notin Hits(tree, w.lookup)
    BY <1>4, <2>1, <2>3, BadIsNoHit
  <2> QED BY <1>2, <1>4, <2>1, <2>2, <2>4 DEF Exact
<1>5. CASE i \in Ends(tree) /\ v.status = "NOT_FOUND"
  BY <1>2, <1>3, <1>5 DEF Exact
<1>6. CASE /\ i \in Hits(tree, w.lookup) /\ v.status # "NOT_FOUND"
           /\ w.lookup.kind = "property" => v.status = "FOUND" /\ v.value = tree.tokens[i].cells
  BY <1>2, <1>3, <1>6 DEF Exact
<1> QED BY <1>4, <1>5, <1>6

\* A turn of a lookup.
LEMMA TurnFollows ==
    ASSUME NEW tree \in Blobs, NEW w, DOMAIN w = Fields, w.status = "walking",
           Wanted(w.lookup), Follows(tree, w),
           NEW v, v = Traverse(tree, w)
    PROVE  /\ v.status = "walking" => Follows(tree, v)
           /\ v.status # "walking" => Exact(tree, v)
<1> DEFINE i == w.at
           token == tree.tokens[i]
           name == StringAt(tree, token.name_offset)
<1>1. /\ i \in 1 .. tree.struct_size + 1 /\ tree.struct_size \in Nat
      /\ w.node_stack = Open(tree)[i] /\ w.node_stack \in Seq(NamesOf(tree))
  BY TreeAssumption DEF Follows, Placed
<1>2. ASSUME NEW status, v = Stopped(w, status)
      PROVE  v.at = i /\ v.lookup = w.lookup /\ v.status = status
  BY <1>2 DEF Stopped, Fields
<1>3. ASSUME NEW status \in {"INVALID_STRUCTURE", "OUT_OF_RANGE"}, v = Stopped(w, status),
             i = tree.struct_size + 1 \/ BadAt(tree, i)
      PROVE  v.status # "walking" /\ Exact(tree, v)
  <2>1. v.at = i /\ v.lookup = w.lookup /\ v.status = status
    BY <1>2, <1>3
  <2> QED BY <1>3, <2>1, StopExact
<1>4. CASE i > tree.struct_size
  <2>1. v = Stopped(w, "INVALID_STRUCTURE") /\ i = tree.struct_size + 1
    BY <1>1, <1>4 DEF Traverse
  <2> QED BY <1>3, <2>1
<1>5. CASE i <= tree.struct_size
  <2>1. ~(i > tree.struct_size) /\ i \in 1 .. tree.struct_size
    BY <1>1, <1>5
  <2>2. token.token \in {"BEGIN", "END_NODE", "PROP", "NOP", "END", "BAD"}
    BY <2>1, TreeAssumption
  <2>3. CASE token.token = "BEGIN"
    <3>1. v = BeginNode(w, token.name)
      BY <2>1, <2>3 DEF Traverse
    <3>2. CASE BadAt(tree, i)
      <4>1. Len(w.node_stack) >= MaxDepth
        BY <1>1, <2>3, <3>2 DEF BadAt
      <4> QED BY <1>3, <3>1, <3>2, <4>1 DEF BeginNode
    <3>3. CASE ~BadAt(tree, i)
      BY <1>5, <2>3, <3>1, <3>3, BeginFollows DEF Wanted
    <3> QED BY <3>2, <3>3
  <2>4. CASE token.token = "END_NODE"
    <3>1. v = EndNode(w)
      BY <2>1, <2>4 DEF Traverse
    <3>2. CASE BadAt(tree, i)
      <4>1. w.node_stack = <<>>
        BY <1>1, <2>4, <3>2 DEF BadAt
      <4>2. Depth(w) < 0
        BY <4>1, EmptySeq DEF Depth
      <4> QED BY <1>3, <3>1, <3>2, <4>2 DEF EndNode
    <3>3. CASE ~BadAt(tree, i)
      BY <1>5, <2>4, <3>1, <3>3, EndFollows DEF Wanted
    <3> QED BY <3>2, <3>3
  <2>5. CASE token.token = "PROP"
    <3>1. v = ParseProperty(tree, w, token)
      BY <2>1, <2>5 DEF Traverse
    <3>2. CASE BadAt(tree, i)
      <4>1. w.node_stack = <<>> \/ name = ""
        BY <1>1, <2>5, <3>2 DEF BadAt
      <4>2. w.node_stack = <<>> => Depth(w) < 0
        BY EmptySeq DEF Depth
      <4>3. v = Stopped(w, "INVALID_STRUCTURE") \/ v = Stopped(w, "OUT_OF_RANGE")
        BY <3>1, <4>1, <4>2 DEF ParseProperty
      <4> QED BY <1>3, <3>2, <4>3
    <3>3. CASE ~BadAt(tree, i)
      <4>1. w.node_stack # <<>> /\ name # ""
        BY <1>1, <2>5, <3>3 DEF BadAt
      <4>2. ~(Depth(w) < 0)
        <5>1. Len(w.node_stack) \in Nat \ {0}
          BY <1>1, <4>1, WithoutLast
        <5> QED BY <5>1 DEF Depth
      <4>3. Takes(w, name) <=> i \in Hits(tree, w.lookup)
        BY <1>5, <2>5, <4>1, TakesHits DEF Wanted
      <4>4. CASE ~Takes(w, name)
        <5>1. v = [w EXCEPT !.at = @ + 1]
          BY <3>1, <4>1, <4>2, <4>4 DEF ParseProperty
        <5> QED BY <1>5, <2>5, <3>3, <4>3, <4>4, <5>1, SkipFollows
      <4>5. CASE Takes(w, name)
        <5>1. i \in Hits(tree, w.lookup)
          BY <4>3, <4>5
        <5>2. CASE w.lookup.kind = "memory"
          <6>1. v = Decode(w, token.cells)
            BY <3>1, <4>1, <4>2, <4>5, <5>2 DEF ParseProperty
          <6>2. v.at = i /\ v.lookup = w.lookup /\ v.status \in {"FOUND", "INVALID_STRUCTURE"}
            BY <6>1 DEF Decode, Stopped, Fields
          <6> QED BY <5>1, <5>2, <6>2, StopExact
        <5>3. CASE w.lookup.kind # "memory"
          <6>1. v = [w EXCEPT !.status = "FOUND", !.value = token.cells]
            BY <3>1, <4>1, <4>2, <4>5, <5>3 DEF ParseProperty
          <6>2. v.at = i /\ v.lookup = w.lookup /\ v.status = "FOUND" /\ v.value = token.cells
            BY <6>1 DEF Fields
          <6> QED BY <5>1, <6>2, StopExact
        <5> QED BY <5>2, <5>3
      <4> QED BY <4>4, <4>5
    <3> QED BY <3>2, <3>3
  <2>6. CASE token.token = "NOP"
    <3>1. v = [w EXCEPT !.at = @ + 1]
      BY <2>1, <2>6 DEF Traverse
    <3>2. ~BadAt(tree, i) /\ i \notin Hits(tree, w.lookup)
      BY <2>6 DEF BadAt, Hits
    <3> QED BY <1>5, <2>6, <3>1, <3>2, SkipFollows
  <2>7. CASE token.token = "END"
    <3>1. v = Stopped(w, "NOT_FOUND") /\ i \in Ends(tree)
      BY <2>1, <2>7 DEF Traverse, Ends
    <3>2. v.at = i /\ v.lookup = w.lookup /\ v.status = "NOT_FOUND"
      BY <1>2, <3>1
    <3> QED BY <3>1, <3>2, StopExact
  <2>8. CASE token.token = "BAD"
    <3>1. v = Stopped(w, "INVALID_STRUCTURE") /\ BadAt(tree, i)
      BY <2>1, <2>8 DEF Traverse, BadAt
    <3> QED BY <1>3, <3>1
  <2> QED BY <2>2, <2>3, <2>4, <2>5, <2>6, <2>7, <2>8
<1> QED BY <1>1, <1>4, <1>5

\* A lookup that starts is at the tree's first token, with nothing open.
LEMMA StartFollows ==
    ASSUME NEW tree \in Blobs, NEW lookup, Wanted(lookup), NEW w, w = Start(lookup)
    PROVE  DOMAIN w = Fields /\ w.lookup = lookup /\ w.status = "walking" /\ Follows(tree, w)
<1>1. /\ DOMAIN w = Fields /\ w.lookup = lookup /\ w.status = "walking"
      /\ w.at = 1 /\ w.node_stack = <<>> /\ w.memory_depth = -1
      /\ DOMAIN w.path_matches = 0 .. MaxDepth - 1
  BY DEF Start, Fields
<1>2. Len(<<>>) = 0 /\ <<>> \in Seq(NamesOf(tree))
  BY EmptySeq
<1>3. Placed(tree, w)
  <2>1. 1 \in 1 .. tree.struct_size + 1 /\ MaxDepth \in Nat
    BY TreeAssumption, DepthAssumption
  <2> QED BY <1>1, <1>2, <2>1, OpenUnfolds DEF Placed
<1>4. Passed(tree, w) /\ Flagged(w)
  BY <1>1, <1>2 DEF Passed, Flagged, InMemory
<1>5. Matching(w)
  BY <1>1, <1>2 DEF Matching
<1> QED BY <1>1, <1>3, <1>4, <1>5 DEF Follows

\* What main looks for.
LEMMA LookupsWanted ==
    /\ Wanted(Lookup(<<>>, "#address-cells")) /\ Wanted(Lookup(<<>>, "#size-cells"))
    /\ Wanted(Lookup(<<"chosen">>, "linux,initrd-start"))
    /\ Wanted(Lookup(<<"chosen">>, "linux,initrd-end"))
    /\ \A a, s : Wanted(MemoryLookup(a, s))
<1>1. <<>> \in Seq(Components) /\ <<"chosen">> \in Seq(Components)
  <2>1. \A S, a : a \in S => <<a>> \in Seq(S)
    OBVIOUS
  <2>2. "chosen" \in Components
    BY DEF Components
  <2> QED BY <2>1, <2>2, EmptySeq
<1> QED BY <1>1 DEF Wanted, Lookup, MemoryLookup

\* A lookup of main's starts, in the tree it was to read.
LEMMA SeekFollows ==
    ASSUME NEW lookup, Wanted(lookup), NEW step, Seek(lookup, step), blob' \in Blobs
    PROVE  LookupInv'
<1> DEFINE w == walk'
           tree == blob'
<1>1. w = Start(lookup) /\ tree \in Blobs
  BY DEF Seek
<1> HIDE DEF w, tree
<1>2. DOMAIN w = Fields /\ w.lookup = lookup /\ w.status = "walking" /\ Follows(tree, w)
  BY <1>1, StartFollows
<1> QED BY <1>2 DEF LookupInv, w, tree

\* Every step of main keeps the lookup.
LEMMA LookupKept ==
    ASSUME BootInv, LookupInv, Next
    PROVE  LookupInv'
<1>1. blob \in Blobs
  BY DEF BootInv, BootTypes
<1>2. CASE UNCHANGED <<blob, walk>>
  BY <1>2 DEF LookupInv
<1>3. CASE TraverseTree
  <2> DEFINE v == walk'
  <2>1. v = Traverse(blob, walk) /\ walk.status = "walking" /\ blob' = blob
    BY <1>3 DEF TraverseTree
  <2>2. DOMAIN walk = Fields /\ Wanted(walk.lookup) /\ Follows(blob, walk)
    BY <2>1 DEF LookupInv
  <2>3. walk.at \in Nat \ {0}
    <3> DEFINE n == blob.struct_size + 1
               i == walk.at
    <3>1. i \in 1 .. n /\ n \in Nat
      <4>1. blob.struct_size \in Nat
        BY <1>1, TreeAssumption
      <4> QED BY <2>2, <4>1 DEF Follows, Placed
    <3> HIDE DEF n, i
    <3>2. i \in Nat \ {0}
      BY ONLY <3>1
    <3> QED BY <3>2 DEF i
  <2> HIDE DEF v
  <2>4. DOMAIN v = Fields /\ v.lookup = walk.lookup
    BY <1>1, <2>1, <2>2, <2>3, TurnFinds
  <2>5. /\ v.status = "walking" => Follows(blob, v)
        /\ v.status # "walking" => Exact(blob, v)
    BY <1>1, <2>1, <2>2, TurnFollows
  <2> QED BY <2>1, <2>2, <2>4, <2>5 DEF LookupInv, v
<1>4. ASSUME NEW lookup, Wanted(lookup), NEW step, Seek(lookup, step), UNCHANGED blob PROVE LookupInv'
  BY <1>1, <1>4, SeekFollows
<1>5. CASE BootFdtInit
  BY <1>2, <1>4, <1>5, LookupsWanted DEF BootFdtInit
<1>6. CASE GotAddressCells
  BY <1>4, <1>6, LookupsWanted DEF GotAddressCells, GotCells, SeekInitrd
<1>7. CASE GotSizeCells
  BY <1>4, <1>7, LookupsWanted DEF GotSizeCells, GotCells, SeekInitrd
<1>8. CASE GotMemory
  BY <1>4, <1>8, LookupsWanted DEF GotMemory, SeekInitrd
<1>9. CASE GotInitrdStart
  BY <1>2, <1>4, <1>9, LookupsWanted DEF GotInitrdStart
<1>10. CASE GotInitrdEnd
  BY <1>2, <1>10 DEF GotInitrdEnd
<1>11. CASE BuddyInit \/ (\E i \in 1 .. Len(Reservations) : BuddyReserve(i)) \/ BuddyBuild
  BY <1>2, <1>11 DEF BuddyInit, BuddyReserve, BuddyBuild
<1>12. CASE RunStep
  <2>1. UNCHANGED bootVars
    BY <1>12 DEF RunStep, AllocPage, FreePage, StartCommand, BadHeader, BadEntry, Entry
  <2> QED BY <1>2, <2>1 DEF bootVars
<1> QED BY <1>3, <1>5, <1>6, <1>7, <1>8, <1>9, <1>10, <1>11, <1>12 DEF Next, BootStep

\* Every lookup main makes ends where the tree says: at the first property of that name in a node
\* of that path, at the end, or at the first malformed token, for every tree, however deep or
\* malformed (fdt_traverse and its callbacks).
THEOREM LookupsCorrect == PowerOnSpec => []LookupExact
<1>1. PowerOnInit => LookupInv
  <2> SUFFICES ASSUME PowerOnInit PROVE LookupInv
    OBVIOUS
  <2>1. blob \in Blobs /\ walk = Start(Lookup(<<>>, "#address-cells"))
    BY DEF PowerOnInit, Init
  <2>2. DOMAIN walk = Fields /\ Wanted(walk.lookup) /\ walk.status = "walking" /\ Follows(blob, walk)
    BY <2>1, StartFollows, LookupsWanted
  <2> QED BY <2>2 DEF LookupInv
<1>2. BootInv /\ Waits /\ LookupInv /\ [PowerOnNext]_<<loaderVars, vars>> => LookupInv'
  <2> SUFFICES ASSUME BootInv, Waits, LookupInv, [PowerOnNext]_<<loaderVars, vars>> PROVE LookupInv'
    OBVIOUS
  <2>1. CASE UNCHANGED vars
    BY <2>1 DEF LookupInv, vars, bootVars
  <2>2. CASE EnterKernel
    <3>1. Seek(Lookup(<<>>, "#address-cells"), pc) /\ blob' \in Blobs
      BY <2>2 DEF EnterKernel, Waits, Seek
    <3> QED BY <3>1, SeekFollows, LookupsWanted
  <2>3. CASE Next
    BY <2>3, LookupKept
  <2> QED BY <2>1, <2>2, <2>3 DEF PowerOnNext
<1>3. LookupInv => LookupExact
  BY DEF LookupInv, LookupExact, Exact
<1> QED BY <1>1, <1>2, <1>3, BootInvariant, PTL DEF PowerOnSpec
===============================================================================
