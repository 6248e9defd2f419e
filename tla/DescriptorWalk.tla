--------------------------- MODULE DescriptorWalk ---------------------------
(***************************************************************************)
(* The search of SelectInterface (ioctrlhelper.cpp) for the interface      *)
(* descriptor of an alternate setting.  The configuration descriptor is a  *)
(* header followed by the interface descriptor of each setting with its    *)
(* endpoint descriptors; the code strides over it by sizes it computes from*)
(* bNumEndpoints and never looks at the bLength of what it passes.         *)
(*                                                                         *)
(* A layout is the order in which the settings stand in the descriptor.    *)
(* Only interface and standard endpoint descriptors occur: what the search *)
(* makes of class-specific descriptors in between is not modelled.         *)
(***************************************************************************)
EXTENDS Naturals, Sequences

CONSTANTS
    Settings,   \* the values bAlternateSetting may have
    Endpoints,  \* Endpoints[a]: bNumEndpoints of setting a
    NULL        \* no setting: not found

HeaderSize == 9                                 \* the descriptor's own bLength
InterfaceSize(a) == 9 + 7 * Endpoints[a]        \* with its endpoints

\* Where the n-th interface descriptor of layout l begins.
Offset(l, n) ==
    LET end[k \in 0 .. Len(l)] ==
            IF k = 0 THEN HeaderSize ELSE end[k - 1] + InterfaceSize(l[k])
    IN end[n - 1]

wTotalLength(l) == Offset(l, Len(l) + 1)

\* The setting whose interface descriptor begins at byte p: what temp points
\* to there.  NULL when none does: the bytes are something else's.
DescriptorAt(l, p) ==
    IF \E n \in DOMAIN l : Offset(l, n) = p
    THEN l[CHOOSE n \in DOMAIN l : Offset(l, n) = p] ELSE NULL

BugStride(l, a) ==          \* the endpoints' size left out of the stride
    LET from[p \in 0 .. wTotalLength(l)] ==
            LET temp == DescriptorAt(l, p) IN
            IF p >= wTotalLength(l) \/ temp \in {a, NULL} THEN p
            ELSE IF p + 9 <= wTotalLength(l) THEN from[p + 9] ELSE p
    IN from[HeaderSize]

\* The loop: byteComsumed, where it is left.  It is left at the setting sought,
\* at the end, or (never in these layouts) where no interface descriptor begins.
Search(l, a) ==
    LET from[p \in 0 .. wTotalLength(l)] ==
            LET temp == DescriptorAt(l, p) IN
            IF p >= wTotalLength(l) \/ temp \in {a, NULL} THEN p
            ELSE from[p + InterfaceSize(temp)]
    IN from[HeaderSize]
=============================================================================
