-------------------------------- MODULE Loader --------------------------------
(***************************************************************************)
(* How a kernel gets into memory: KernelUploader.py on the host, the shell *)
(* of BootLoader/src/shell.c on the board, and the serial line between     *)
(* them.  The host waits for each answer with a timeout and gives up; the  *)
(* loader waits for the bytes it was promised for ever, so what the next   *)
(* attempt sends first may be taken for the rest of the last one.          *)
(*                                                                         *)
(* A command is one byte and its newline, a word WordSize bytes; the line  *)
(* may lose bytes.  Echoes and other texts are left out: the host skips    *)
(* them.                                                                   *)
(***************************************************************************)
EXTENDS Integers, Sequences

CONSTANTS
    Kernel,              \* the bytes of the image
    ValueOf,             \* the value of each byte there is
    WordSize,            \* 4, and the value of a byte that is one place higher
    Place,
    Magic, SizeWord,     \* CONFIG_BOOT_MAGIC and Len(Kernel), as bytes
    Newline, Return,     \* '\n' and '\r'
    UploadByte, BootByte,
    Printable, Erase,    \* 0x20 .. 0x7e; '\b' and 0x7f
    LineSize,            \* SHELL_BUFFER_SIZE
    KernelMaxSize,       \* CONFIG_KERNEL_MAX_SIZE
    MaxInterrupts, MaxLost   \* of the model

Bytes == DOMAIN ValueOf

VARIABLES
    host,             \* the marker the uploader waits for, "idle" or "finished"
    to_loader,        \* the bytes on the line
    to_host,          \* the prompts and tokens on the line and in the host's buffer
    loader,           \* what the loader reads: a line, a word or the image
    line,             \* command_buffer
    word,             \* the bytes of the word so far
    kernel_size,
    image, received,  \* the memory at CONFIG_KERNEL_LOAD_ADDR, and i in receive_kernel
    interrupts, lost  \* so far

hostVars == <<host, interrupts>>
lineVars == <<to_loader, to_host, lost>>
boardVars == <<loader, line, word, kernel_size, image, received>>
loaderVars == <<hostVars, lineVars, boardVars>>

LoaderInit ==
    /\ host = "idle" /\ interrupts = 0
    /\ to_loader = <<>> /\ to_host = <<"prompt">> /\ lost = 0
    /\ loader = "line" /\ line = <<>> /\ word = <<>>
    /\ kernel_size = 0 /\ image = [i \in 0 .. KernelMaxSize - 1 |-> Newline] /\ received = 0

SuffixesOf(messages) == {SubSeq(messages, i, Len(messages)) : i \in 1 .. Len(messages) + 1}
-------------------------------------------------------------------------------
(* upload_kernel *)

\* A person starts the next attempt, when the line is quiet: flush has sent what the last
\* one wrote, the loader polls and has read it.  Opening the port drops the answers.
HostStart ==
    /\ host = "idle" /\ to_loader = <<>>
    /\ host' = "prompt"
    /\ to_loader' = Append(to_loader, Newline)
    /\ to_host' = <<>>
    /\ UNCHANGED <<interrupts, lost, boardVars>>

\* read_until: other messages are skipped; what was read with the marker is dropped.
Sees(marker) ==
    /\ host = marker /\ to_host # <<>> /\ Head(to_host) = marker
    /\ to_host' \in SuffixesOf(Tail(to_host))

Sends(bytes, next) ==
    /\ to_loader' = to_loader \o bytes
    /\ host' = next
    /\ UNCHANGED <<interrupts, lost, boardVars>>

SeesPrompt == Sees("prompt") /\ Sends(<<UploadByte, Newline>>, "ready")
SeesReady == Sees("ready") /\ Sends(Magic \o SizeWord, "start")
SeesStart == Sees("start") /\ Sends(Kernel, "done")
\* It boots the image unless --no-boot was given.
SeesDone == Sees("done") /\ \E bytes \in {<<BootByte, Newline>>, <<>>} : Sends(bytes, "finished")

Waiting == host \in {"prompt", "ready", "start", "done"}

SkipsMessage ==
    /\ Waiting /\ to_host # <<>> /\ Head(to_host) # host
    /\ to_host' = Tail(to_host)
    /\ UNCHANGED <<hostVars, to_loader, lost, boardVars>>

\* The timeout is far longer than the line and the loader take to answer.
HostTimesOut ==
    /\ Waiting /\ to_host = <<>> /\ to_loader = <<>>
    /\ host' = "idle"
    /\ UNCHANGED <<interrupts, lineVars, boardVars>>

\* It is interrupted, or the answer was late after all; the image may be cut short.
HostInterrupted ==
    /\ Waiting /\ interrupts < MaxInterrupts
    /\ interrupts' = interrupts + 1 /\ host' = "idle"
    /\ UNCHANGED <<lineVars, boardVars>>

SendsPart(n) ==
    /\ Sees("start") /\ interrupts < MaxInterrupts
    /\ to_loader' = to_loader \o SubSeq(Kernel, 1, n)
    /\ interrupts' = interrupts + 1 /\ host' = "idle"
    /\ UNCHANGED <<lost, boardVars>>

LineLoses(i) ==
    /\ lost < MaxLost
    /\ lost' = lost + 1
    /\ to_loader' = SubSeq(to_loader, 1, i - 1) \o SubSeq(to_loader, i + 1, Len(to_loader))
    /\ UNCHANGED <<hostVars, to_host, boardVars>>
-------------------------------------------------------------------------------
(* shell_run of the loader, a byte at a time *)

Says(messages) == to_host' = to_host \o messages

\* read_u32_le
ValueOfWord(bytes) ==
    LET value[i \in 0 .. WordSize] ==
            IF i = 0 THEN 0 ELSE Place * value[i - 1] + ValueOf[bytes[WordSize - i + 1]]
    IN value[WordSize]

\* The words of the protocol.  A size that the loader accepts has a byte that is not printable,
\* so what a line keeps of it does not spell a command.
ASSUME WordAssumption ==
    /\ WordSize \in Nat \ {0}
    /\ Magic \in [1 .. WordSize -> Bytes] /\ SizeWord \in [1 .. WordSize -> Bytes \ {BootByte}]
    /\ Kernel \in Seq(Bytes) /\ KernelMaxSize \in Nat /\ ValueOfWord(SizeWord) = Len(Kernel)
ASSUME CommandAssumption ==
    /\ Newline \in Bytes /\ Return \notin Printable \cup {Newline}
    /\ Printable \subseteq Bytes \ {Newline} /\ LineSize \in Nat \ {0, 1}
    /\ {UploadByte, BootByte} \subseteq Printable /\ UploadByte # BootByte

Reads(state) ==
    /\ loader = state /\ to_loader # <<>>
    /\ to_loader' = Tail(to_loader)
    /\ UNCHANGED <<hostVars, lost>>

\* mini_uart_getc
Getc(byte) == IF byte = Return THEN Newline ELSE byte

\* The line after one more byte that does not end it: an unprintable one is dropped.
Edited(c) ==
    IF c \in Erase THEN SubSeq(line, 1, Len(line) - 1)
    ELSE IF c \in Printable THEN Append(line, c)
    ELSE line
TooLong(c) == c \in Printable \ Erase /\ Len(line) + 1 >= LineSize

\* execute_command, and the prompt when it returns.
Execute ==
    IF line = <<UploadByte>> THEN loader' = "magic" /\ Says(<<"ready">>)
    ELSE IF line = <<BootByte>> /\ kernel_size # 0 THEN loader' = "booted" /\ UNCHANGED to_host
    ELSE Says(<<"prompt">>) /\ UNCHANGED loader

\* read_line; what is too long is dropped and not executed.
ReadLine ==
    /\ Reads("line")
    /\ LET c == Getc(Head(to_loader))
       IN \/ c = Newline /\ line' = <<>> /\ Execute
          \/ /\ c # Newline /\ TooLong(c)
             /\ line' = <<>> /\ Says(<<"prompt">>) /\ UNCHANGED loader
          \/ /\ c # Newline /\ ~TooLong(c)
             /\ line' = Edited(c) /\ UNCHANGED <<loader, to_host>>
    /\ UNCHANGED <<word, kernel_size, image, received>>

\* A bad header.  Mutation: the loader waits for a better one.
RefuseAndWait(answer) == kernel_size' = 0 /\ Says(<<answer>>) /\ UNCHANGED loader
Refuse(answer) == loader' = "line" /\ kernel_size' = 0 /\ Says(<<answer, "prompt">>)

\* receive_kernel up to the data.
ReadMagic ==
    /\ Reads("magic")
    /\ LET bytes == Append(word, Head(to_loader))
       IN IF Len(bytes) < WordSize
            THEN word' = bytes /\ UNCHANGED <<loader, kernel_size, to_host>>
            ELSE /\ word' = <<>>
                 /\ IF bytes = Magic THEN loader' = "size" /\ UNCHANGED <<kernel_size, to_host>>
                    ELSE Refuse("bad_magic")
    /\ UNCHANGED <<line, image, received>>

ReadSize ==
    /\ Reads("size")
    /\ LET bytes == Append(word, Head(to_loader))
       IN IF Len(bytes) < WordSize
            THEN word' = bytes /\ UNCHANGED <<loader, kernel_size, to_host>>
            ELSE /\ word' = <<>>
                 /\ IF ValueOfWord(bytes) \in 1 .. KernelMaxSize
                      THEN /\ loader' = "data" /\ kernel_size' = ValueOfWord(bytes)
                           /\ Says(<<"start">>)
                      ELSE Refuse("bad_size")
    /\ received' = 0
    /\ UNCHANGED <<line, image>>

\* Mutation: the loop ends a byte early.
DataDoneEarly == received + 2 >= kernel_size
DataDone == received + 1 = kernel_size

ReadData ==
    /\ Reads("data")
    /\ image' = [image EXCEPT ![received] = Head(to_loader)]
    /\ received' = received + 1
    /\ IF DataDone THEN loader' = "line" /\ Says(<<"done", "prompt">>)
       ELSE UNCHANGED <<loader, to_host>>
    /\ UNCHANGED <<line, word, kernel_size>>

HostNext ==
    \/ HostStart \/ SeesPrompt \/ SeesReady \/ SeesStart \/ SeesDone \/ SkipsMessage
    \/ HostTimesOut \/ HostInterrupted \/ \E n \in 0 .. Len(Kernel) - 1 : SendsPart(n)
BoardNext == ReadLine \/ ReadMagic \/ ReadSize \/ ReadData
LoaderNext == HostNext \/ BoardNext \/ \E i \in 1 .. Len(to_loader) : LineLoses(i)

LoaderSpec == LoaderInit /\ [][LoaderNext]_loaderVars

(***************************************************************************)
(* Fairness: the line carries what it is given and the loader polls it;    *)
(* the host's waits end; whoever uploads tries again.                      *)
(***************************************************************************)
LoaderFairness ==
    /\ WF_loaderVars(BoardNext)
    /\ WF_loaderVars(HostStart) /\ WF_loaderVars(HostTimesOut) /\ WF_loaderVars(SkipsMessage)
    /\ WF_loaderVars(SeesPrompt \/ SeesReady \/ SeesStart \/ SeesDone)
LoaderLiveSpec == LoaderSpec /\ LoaderFairness
-------------------------------------------------------------------------------
(* When the uploader reports its upload completed, the image it sent is in memory, whole and  *)
(* in place, whatever earlier attempts left behind (upload_kernel, receive_kernel).           *)
UploadExact ==
    host = "finished" =>
        /\ kernel_size = Len(Kernel)
        /\ \A i \in 1 .. Len(Kernel) : image[i - 1] = Kernel[i]
        /\ loader \in {"line", "booted", "entered"}

(* However an attempt failed, trying again completes an upload in the end: every attempt     *)
(* feeds a waiting loader a byte (receive_kernel has no timeout).                             *)
UploadsRecover == <>(host = "finished")
===============================================================================
