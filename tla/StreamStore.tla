---------------------------- MODULE StreamStore ----------------------------
(***************************************************************************)
(* What an OLE container promises to its callers: named streams of a fixed *)
(* size.  Reading gives the words of the stream.  Writing replaces them    *)
(* from the front, in several steps, and may stop half way; it changes no  *)
(* other stream.                                                           *)
(***************************************************************************)
EXTENDS Naturals, Sequences

VARIABLES
  content,  \* [stream -> words]
  writing,  \* <<stream, data>> while a write runs, else <<>>
  answer    \* <<stream, words>> after a read, else <<>>

Init == writing = <<>> /\ answer = <<>>

Read(s) ==
  /\ writing = <<>>
  /\ answer' = <<s, content[s]>>
  /\ UNCHANGED <<content, writing>>

Begin(s) ==
  /\ writing = <<>> /\ writing' # <<>>
  /\ writing'[1] = s /\ Len(writing'[2]) = Len(content[s])
  /\ answer' = <<>>
  /\ UNCHANGED content

\* The first k words are those of the data, the others are not touched.
Front(data, k, old) ==
  [i \in 1..Len(old) |-> IF i <= k THEN data[i] ELSE old[i]]

Put ==
  /\ writing # <<>>
  /\ \E k \in 1..Len(writing[2]) :
       content' = [content EXCEPT
                     ![writing[1]] = Front(writing[2], k, @)]
  /\ UNCHANGED answer

\* A write that ends has put all of its data.
Goes == Put /\ writing' = writing

Ends ==
  /\ writing # <<>>
  /\ content' = [content EXCEPT ![writing[1]] = writing[2]]
  /\ writing' = <<>>
  /\ UNCHANGED answer

Stops == writing # <<>> /\ writing' = <<>> /\ answer' = <<>> /\ UNCHANGED content

\* Any other call.
Other == answer' = <<>> /\ UNCHANGED <<content, writing>>

Next ==
  \/ \E s \in DOMAIN content : Read(s) \/ Begin(s)
  \/ Goes \/ Ends \/ Stops \/ Other

Spec == Init /\ [][Next]_<<content, writing, answer>>
=============================================================================
