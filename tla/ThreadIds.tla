----------------------------- MODULE ThreadIds ------------------------------
(***************************************************************************)
(* How goethe_factory.go gives a goroutine its id: the hexadecimal digits  *)
(* of the id become frames xXTidFrame0 .. xXTidFrameF on the goroutine's   *)
(* stack, and GetThreadID reads them back from the stack's text.           *)
(***************************************************************************)
EXTENDS Integers, Sequences, SequencesExt

\* The id and what is left of it after one, two, ... digits.
Quotients(tid) ==
    LET left[k \in 0..(tid + 1)] == IF k = 0 THEN tid ELSE left[k - 1] \div 16
    IN  left

\* convertToNibbles: the digits of "%x", most significant first.
convertToNibbles(tid) ==
    LET left == Quotients(tid)
        length == CHOOSE n \in 1..(tid + 1) : left[n] = 0 /\ (n > 1 => left[n - 1] # 0)
    IN  [i \in 1..length |-> left[length - i] % 16]

\* The xXTidFrames of a goroutine started by invokeStart, as debug.Stack lists
\* them: internalInvoke calls one frame per nibble, and the innermost comes
\* first.  The stack is taken to be short enough for debug.Stack to print it
\* all; of a very deep one it leaves frames out.
TidFrames(tid) == Reverse(convertToNibbles(tid))

\* The numbers that the first digits of hex stand for.
Values(hex) ==
    LET value[k \in 0..Len(hex)] == IF k = 0 THEN 0 ELSE 16 * value[k - 1] + hex[k]
    IN  value

\* GetThreadID on a stack with these frames: each digit found goes before the
\* ones found so far, and %X reads the result; without a frame it is -1.
GetThreadID(frames) ==
    LET hex == Reverse(frames)
    IN  IF frames = << >> THEN -1 ELSE Values(hex)[Len(hex)]
=============================================================================
