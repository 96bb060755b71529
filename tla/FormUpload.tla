----------------------------- MODULE FormUpload -----------------------------
(***************************************************************************)
(* Files uploaded as a form (packages/server: handlers/rest/file/          *)
(* formStream): the lines of the body open a file, give its two headers,   *)
(* carry its contents and close it.  A chunk of the body is handled at     *)
(* once; its lines are steps here, since only what they leave behind for   *)
(* the next chunk matters.  A chunk is split into lines by itself, so that *)
(* a boundary between two chunks is two lines, neither of them a boundary. *)
(* Nothing but lines that are ignored follows the boundary of the end.     *)
(***************************************************************************)
EXTENDS Naturals, Sequences

CONSTANTS
    MaxFiles,
    MaxLines  \* bounds the lines of a body

VARIABLES
    files,      \* [headers, streaming, closed], streaming: storeFile() has it
    isWriting,  \* "no", "yes", or "null" after an invalid file
    skipping,   \* the handler has returned: the rest of the chunk is not read
    formEnds,   \* how often the response was ended
    formFault,  \* history: a file was invalid
    formSent,   \* history: the boundary that ends the form was sent
    cut,        \* history: the last boundary that was sent lay between two chunks
    formLines   \* how many lines were read

vars == <<files, isWriting, skipping, formEnds, formFault, formSent, cut, formLines>>

NewFile == [headers |-> 0, streaming |-> FALSE, closed |-> FALSE]

\* The first line is the boundary, and opens a file.
Init ==
    /\ files = <<NewFile>> /\ isWriting = "no"
    /\ skipping = FALSE /\ formEnds = 0 /\ formFault = FALSE /\ formLines = 1
    /\ formSent = FALSE /\ cut = FALSE

Last == Len(files)
Reads == ~skipping /\ formLines < MaxLines /\ formLines' = formLines + 1

InvalidFile ==
    /\ formEnds' = formEnds + 1 /\ formFault' = TRUE
    /\ skipping' = TRUE
-----------------------------------------------------------------------------
\* A boundary ends the file that is being written, and opens one if it is not
\* the last.
Closed == IF isWriting = "yes" THEN [files EXCEPT ![Last].closed = TRUE] ELSE files

\* Mutant: the boundary between two files opens one without ending the other.
BoundaryOpensOnly(isLast) ==
    /\ Reads /\ ~formSent /\ formSent' = isLast /\ cut' = FALSE
    /\ isLast \/ Last < MaxFiles
    /\ files' = IF isLast THEN Closed ELSE Append(files, NewFile)
    /\ isWriting' = IF isWriting = "yes" THEN "no" ELSE isWriting
    /\ UNCHANGED <<skipping, formEnds, formFault>>

Boundary(isLast) ==
    /\ Reads /\ ~formSent /\ formSent' = isLast /\ cut' = FALSE
    /\ isLast \/ Last < MaxFiles
    /\ files' = IF isLast THEN Closed ELSE Append(Closed, NewFile)
    /\ isWriting' = IF isWriting = "yes" THEN "no" ELSE isWriting
    /\ UNCHANGED <<skipping, formEnds, formFault>>

\* A boundary of which one chunk has the beginning and the next the rest: two
\* lines of contents, and the file that is being written goes on.
CutBoundary(isLast) ==
    /\ Reads /\ ~formSent /\ formSent' = isLast /\ cut' = TRUE
    /\ UNCHANGED <<files, isWriting, skipping, formEnds, formFault>>

\* Content-Disposition or Content-Type: one that cannot be read is invalid.
\* setHeader(): with the second header the file is stored, or is invalid when
\* something is missing.
Header(readable, complete) ==
    LET n == files[Last].headers + 1 IN
    /\ Reads /\ ~formSent /\ isWriting # "yes"
    /\ UNCHANGED <<formSent, cut>>
    /\ IF ~readable THEN InvalidFile /\ UNCHANGED <<files, isWriting>>
       ELSE IF n = 2 /\ ~complete
       THEN /\ InvalidFile
            /\ files' = [files EXCEPT ![Last].headers = n]
            /\ isWriting' = "null"
       ELSE /\ files' = [files EXCEPT ![Last].headers = n,
                                      ![Last].streaming = @ \/ n = 2]
            /\ isWriting' = IF n = 2 THEN "yes" ELSE "no"
            /\ UNCHANGED <<skipping, formEnds, formFault>>

\* A line of contents; without a file that is written it is ignored.
Contents ==
    /\ Reads
    /\ UNCHANGED <<files, isWriting, skipping, formEnds, formFault, formSent, cut>>

\* The chunk ends; with the last one the response, whatever is still open.
ChunkEnds(isLast) ==
    /\ formLines < MaxLines
    /\ formLines' = IF isLast THEN MaxLines ELSE formLines
    /\ formEnds' = IF isLast /\ ~skipping THEN formEnds + 1 ELSE formEnds
    /\ skipping' = FALSE
    /\ UNCHANGED <<files, isWriting, formFault, formSent, cut>>

Next ==
    \/ \E b \in BOOLEAN : Boundary(b) \/ CutBoundary(b) \/ ChunkEnds(b)
    \/ \E readable, complete \in BOOLEAN : Header(readable, complete)
    \/ Contents

Spec == Init /\ [][Next]_vars
-----------------------------------------------------------------------------
(***************************************************************************)
(* Properties.                                                             *)
(***************************************************************************)
\* The stream of every file that is stored is ended, by the next boundary
\* that is recognized; but that of the last file is ended exactly when the
\* boundary that ends the form came whole: without it, or with it between two
\* chunks, the response is ended and the stream stays open.  The response is
\* ended once, unless a file was invalid: then the following chunks end it
\* again.
FilesEnd ==
    /\ \A f \in 1..Last : files[f].streaming =>
          (files[f].closed <=> (f < Last \/ (formSent /\ ~cut)))
    /\ formEnds <= 1 \/ formFault
=============================================================================
