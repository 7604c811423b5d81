------------------------------ MODULE Md5Buffer ------------------------------
(***************************************************************************)
(* How im_md5c.c cuts a message into blocks: MD5Update collects what does not  *)
(* fill a block in a buffer, MD5Final appends padding and the length.  The     *)
(* compression of a block is left out: "blocks" is what it was given.  A byte  *)
(* of the message is its position from 1, any other byte is named below.       *)
(***************************************************************************)
EXTENDS Integers, Sequences

CONSTANTS
    Block,     \* bytes in a block (64)
    LenBytes,  \* bytes that hold the length (8)
    MaxText    \* bound: length of a message

ASSUME Md5Assumption ==
    Block \in Nat /\ LenBytes \in Nat /\ 0 < LenBytes /\ LenBytes < Block /\ MaxText \in Nat

VARIABLES
    length,  \* of the message
    step,    \* the next call: "text", "padding", "bits", or "done"
    count,   \* context->count, in bytes
    buffer,  \* context->buffer
    blocks   \* every byte compressed so far

md5Vars == <<length, step, count, buffer, blocks>>

Stale  == 0
Hex80  == -1
Zero   == -2
Length == -3

\* PADDING
PADDING(n) == [k \in 1 .. n |-> IF k = 1 THEN Hex80 ELSE Zero]

\* The buffer's first index bytes, then the input, as far as whole blocks go.
MD5Update(input) ==
    LET index   == count % Block
        partlen == Block - index
        inputlen == Len(input)
        i == IF inputlen >= partlen
             THEN partlen + Block * ((inputlen - partlen) \div Block)
             ELSE 0
        from == IF inputlen >= partlen THEN 0 ELSE index
    IN  /\ count' = count + inputlen
        /\ blocks' = IF i = 0 THEN blocks
                     ELSE blocks \o SubSeq(buffer, 1, index) \o SubSeq(input, 1, i)
        /\ buffer' = [k \in 1 .. Block |->
                          IF k \in from + 1 .. from + (inputlen - i)
                          THEN input[(k - from) + i] ELSE buffer[k]]

\* Mutant: with exactly the length's room left no block is added.
PadLate(index) == IF index <= Block - LenBytes THEN Block - LenBytes - index
                  ELSE 2 * Block - LenBytes - index

PadLen(index) == IF index < Block - LenBytes THEN Block - LenBytes - index
                 ELSE 2 * Block - LenBytes - index

Then(from, to) == step = from /\ step' = to /\ UNCHANGED length

MD5Text == Then("text", "padding") /\ MD5Update([k \in 1 .. length |-> k])

MD5Pad == Then("padding", "bits") /\ MD5Update(PADDING(PadLen(count % Block)))

MD5Bits == Then("bits", "done") /\ MD5Update([k \in 1 .. LenBytes |-> Length])

Md5Init ==
    /\ length \in 0 .. MaxText /\ step = "text"
    /\ count = 0 /\ blocks = <<>>
    /\ buffer = [k \in 1 .. Block |-> Stale]

Md5Next == MD5Text \/ MD5Pad \/ MD5Bits

Md5Spec == Md5Init /\ [][Md5Next]_md5Vars

\* RFC 1321: the message, 0x80, as many zeros as make whole blocks, the length.
BlocksAreTheMessage ==
    step = "done" =>
        LET zeros == Len(blocks) - length - 1 - LenBytes
        IN  /\ Len(blocks) % Block = 0
            /\ zeros \in 0 .. Block - 1
            /\ \A k \in 1 .. Len(blocks) :
                   blocks[k] = IF k <= length THEN k
                               ELSE IF k = length + 1 THEN Hex80
                               ELSE IF k <= length + 1 + zeros THEN Zero ELSE Length
=============================================================================
