--------------------------- MODULE KeyboardProofs ----------------------------
(***************************************************************************)
(* Proofs about the keyboard, for any keys, callbacks and interleaving of  *)
(* the boot with the interrupts.                                           *)
(***************************************************************************)
EXTENDS Keyboard, TLAPS

Scans == [code : Codes, shifted : BOOLEAN]

\* The codes on the wire are scan codes, and None is not.
LEMMA ScanCodes ==
    /\ Codes \subseteq 1 .. 2 * RELEASE_OFFSET - 1
    /\ None \notin Scans
<1>1. ASSUME NEW c \in Codes PROVE c \in 1 .. 2 * RELEASE_OFFSET - 1
  <2>1. \A k \in Keys : k \in 1 .. 127
    BY KeyboardAssumption DEF RELEASE_OFFSET
  <2>2. c \in Keys \/ \E k \in Keys : c = k + RELEASE_OFFSET
    BY DEF Codes
  <2>3. QED
    BY <2>1, <2>2 DEF RELEASE_OFFSET
<1>2. QED
  BY <1>1, KeyboardAssumption DEF Scans

------------------------------------------------------------------------------
(* A key and the codes that tell of it.                                     *)

\* Whether key k is held after the first n codes of s: one of them presses it,
\* or it was held before, and none after that releases it.
Down(k, before, s, n) ==
    \/ \E j \in 1 .. n : /\ s[j].code = k
                         /\ \A l \in j + 1 .. n : s[l].code # k + RELEASE_OFFSET
    \/ before /\ \A l \in 1 .. n : s[l].code # k + RELEASE_OFFSET

\* Whether it is held after the code c.
Decoded(k, before, c) == c = k \/ (c # k + RELEASE_OFFSET /\ before)

\* A code sent later does not change what the earlier ones tell.
LEMMA DownOfAppend ==
    ASSUME NEW s \in Seq(Scans), NEW e \in Scans, NEW k \in Int, NEW b \in BOOLEAN
    PROVE  /\ \A n \in 0 .. Len(s) : Down(k, b, Append(s, e), n) <=> Down(k, b, s, n)
           /\ Down(k, b, Append(s, e), Len(s) + 1)
                  <=> Decoded(k, Down(k, b, s, Len(s)), e.code)
<1> DEFINE t == Append(s, e)
           m == Len(s)
<1>1. /\ m \in Nat /\ t \in Seq(Scans) /\ t[m + 1] = e
      /\ \A j \in 1 .. m : t[j] = s[j]
  OBVIOUS
<1> HIDE DEF t, m
<1>2. ASSUME NEW n \in 0 .. m
      PROVE  Down(k, b, t, n) <=> Down(k, b, s, n)
  <2>1. \A j \in 1 .. n : t[j] = s[j]
    BY <1>1
  <2>2. \A j \in 1 .. n : \A l \in j + 1 .. n : l \in 1 .. n
    BY <1>1
  <2>3. QED
    BY <2>1, <2>2 DEF Down
<1>3. Down(k, b, t, m + 1) <=> Decoded(k, Down(k, b, t, m), e.code)
  <2>1. m + 1 \in 1 .. m + 1
    BY <1>1
  <2>2. \A j \in 1 .. m + 1 : j \in 1 .. m \/ j = m + 1
    BY <1>1
  <2>3. \A j \in 1 .. m : j \in 1 .. m + 1 /\ m + 1 \in j + 1 .. m + 1
    BY <1>1
  <2>4. \A j \in 1 .. m : \A l \in j + 1 .. m + 1 : l \in j + 1 .. m \/ l = m + 1
    BY <1>1
  <2>5. \A j \in 1 .. m : \A l \in j + 1 .. m : l \in j + 1 .. m + 1
    BY <1>1
  <2>6. (m + 1) + 1 .. m + 1 = {}
    BY <1>1
  <2>7. k # k + RELEASE_OFFSET
    BY DEF RELEASE_OFFSET
  <2>8. QED
    BY <1>1, <2>1, <2>2, <2>3, <2>4, <2>5, <2>6, <2>7, Zenon DEF Down, Decoded
<1>4. Down(k, b, t, m) <=> Down(k, b, s, m)
  <2>1. m \in 0 .. m
    BY <1>1
  <2>2. QED
    BY <1>2, <2>1
<1>5. QED
  BY <1>2, <1>3, <1>4 DEF t, m, Decoded

\* The first code may as well have been decoded already.
LEMMA DownOfTail ==
    ASSUME NEW s \in Seq(Scans), s # <<>>, NEW k \in Int, NEW b \in BOOLEAN,
           NEW n \in 0 .. Len(Tail(s))
    PROVE  Down(k, Decoded(k, b, Head(s).code), Tail(s), n) <=> Down(k, b, s, n + 1)
<1> DEFINE t == Tail(s)
           d == Decoded(k, b, s[1].code)
<1>1. /\ n \in Nat /\ Head(s) = s[1]
      /\ \A j \in 1 .. n : t[j] = s[j + 1]
  OBVIOUS
<1> HIDE DEF t
<1>2. ASSUME Down(k, d, t, n) PROVE Down(k, b, s, n + 1)
  <2>1. CASE \E j \in 1 .. n : /\ t[j].code = k
                               /\ \A l \in j + 1 .. n : t[l].code # k + RELEASE_OFFSET
    <3>1. PICK j \in 1 .. n : /\ t[j].code = k
                              /\ \A l \in j + 1 .. n : t[l].code # k + RELEASE_OFFSET
      BY <2>1
    <3>2. j + 1 \in 1 .. n + 1 /\ s[j + 1].code = k
      BY <1>1, <3>1
    <3>3. ASSUME NEW l \in (j + 1) + 1 .. n + 1
          PROVE  s[l].code # k + RELEASE_OFFSET
      <4>1. l - 1 \in j + 1 .. n /\ l - 1 \in 1 .. n /\ (l - 1) + 1 = l
        BY <1>1
      <4>2. QED
        BY <1>1, <3>1, <4>1
    <3>4. QED
      BY <3>2, <3>3, Zenon DEF Down
  <2>2. CASE d /\ \A l \in 1 .. n : t[l].code # k + RELEASE_OFFSET
    <3>1. ASSUME NEW l \in 2 .. n + 1
          PROVE  s[l].code # k + RELEASE_OFFSET
      <4>1. l - 1 \in 1 .. n /\ (l - 1) + 1 = l
        BY <1>1
      <4>2. QED
        BY <1>1, <2>2, <4>1
    <3>2. CASE s[1].code = k
      <4>1. 1 \in 1 .. n + 1 /\ 1 + 1 = 2
        BY <1>1
      <4>2. QED
        BY <3>1, <3>2, <4>1, Zenon DEF Down
    <3>3. CASE s[1].code # k + RELEASE_OFFSET /\ b
      <4>1. \A l \in 1 .. n + 1 : l = 1 \/ l \in 2 .. n + 1
        BY <1>1
      <4>2. QED
        BY <3>1, <3>3, <4>1, Zenon DEF Down
    <3>4. QED
      BY <2>2, <3>2, <3>3, Zenon DEF Decoded
  <2>3. QED
    BY <1>2, <2>1, <2>2, Zenon DEF Down
<1>3. ASSUME Down(k, b, s, n + 1) PROVE Down(k, d, t, n)
  <2>1. \A l \in 1 .. n : l + 1 \in 1 .. n + 1 /\ l + 1 \in 2 .. n + 1
    BY <1>1
  <2>2. CASE \E j \in 1 .. n + 1 :
                  /\ s[j].code = k
                  /\ \A l \in j + 1 .. n + 1 : s[l].code # k + RELEASE_OFFSET
    <3>1. PICK j \in 1 .. n + 1 :
                  /\ s[j].code = k
                  /\ \A l \in j + 1 .. n + 1 : s[l].code # k + RELEASE_OFFSET
      BY <2>2
    <3>2. CASE j = 1
      <4>1. \A l \in 1 .. n : t[l].code # k + RELEASE_OFFSET
        BY <1>1, <2>1, <3>1, <3>2
      <4>2. d
        BY <3>1, <3>2, Zenon DEF Decoded
      <4>3. QED
        BY <4>1, <4>2, Zenon DEF Down
    <3>3. CASE j # 1
      <4>1. j - 1 \in 1 .. n /\ (j - 1) + 1 = j
        BY <1>1, <3>3
      <4>2. t[j - 1].code = k
        BY <1>1, <3>1, <4>1
      <4>3. ASSUME NEW l \in (j - 1) + 1 .. n
            PROVE  t[l].code # k + RELEASE_OFFSET
        <5>1. l \in 1 .. n /\ l + 1 \in j + 1 .. n + 1
          BY <1>1, <4>1
        <5>2. QED
          BY <1>1, <3>1, <5>1
      <4>4. QED
        BY <4>1, <4>2, <4>3, Zenon DEF Down
    <3>4. QED
      BY <3>2, <3>3
  <2>3. CASE b /\ \A l \in 1 .. n + 1 : s[l].code # k + RELEASE_OFFSET
    <3>1. \A l \in 1 .. n : t[l].code # k + RELEASE_OFFSET
      BY <1>1, <2>1, <2>3
    <3>2. 1 \in 1 .. n + 1
      BY <1>1
    <3>3. d
      BY <2>3, <3>2, Zenon DEF Decoded
    <3>4. QED
      BY <3>1, <3>3, Zenon DEF Down
  <2>4. QED
    BY <1>3, <2>2, <2>3, Zenon DEF Down
<1>4. QED
  BY <1>1, <1>2, <1>3 DEF t

------------------------------------------------------------------------------
(* The invariant.                                                           *)

\* Whether a key is held once the code in the port has been handled.
AfterPort(k, flag) == IF port = None THEN flag ELSE Decoded(k, flag, port.code)

Left  == AfterPort(L_SHIFT, holding_lshift)
Right == AfterPort(R_SHIFT, holding_rshift)

\* The flags and the codes still to come tell which shift keys are held, and
\* which were held at each of the codes.
ShiftsTracked ==
    /\ (L_SHIFT \in pressed) <=> Down(L_SHIFT, Left, wire, Len(wire))
    /\ (R_SHIFT \in pressed) <=> Down(R_SHIFT, Right, wire, Len(wire))
    /\ \A n \in 1 .. Len(wire) :
          wire[n].shifted <=> \/ Down(L_SHIFT, Left, wire, n)
                              \/ Down(R_SHIFT, Right, wire, n)
    /\ port # None => (port.shifted <=> Left \/ Right)

\* The codes told to callbacks came with the shift keys as they were struck.
InfoAgrees == info # None /\ ~ info.modifier => (info.upper <=> info.shifted)

\* What has been counted is attached, and what is being attached is in its
\* slot already.
TableFilled ==
    /\ callback_end \in 0 .. MaxAttached
    /\ \A n \in 1 .. callback_end : callbacks[n] # None
    /\ attaching # None => callback_end < MaxAttached /\ callbacks[callback_end + 1] = attaching

CalledAttached ==
    /\ called \in Seq(Callbacks \cup {None})
    /\ Len(called) <= callback_end
    /\ \A n \in 1 .. Len(called) : called[n] = callbacks[Len(called) + 1 - n]

\* An interrupt means a code in the port; after one without a handler the
\* code stays there, and no interrupt follows.
PortHeld ==
    /\ irq = TRUE => port # None
    /\ early = TRUE => irq = FALSE /\ port # None

IInv ==
    TypeOK /\ ShiftsTracked /\ InfoAgrees /\ TableFilled /\ CalledAttached /\ PortHeld

\* The state before init_keyboard, with no key down, satisfies the invariant.
LEMMA InitIInv == Init => IInv
<1> SUFFICES ASSUME Init PROVE IInv
  OBVIOUS
<1>1. /\ pressed = {} /\ wire = <<>> /\ port = None /\ irq = FALSE /\ sent = 0
      /\ installed = FALSE /\ holding_lshift = FALSE /\ holding_rshift = FALSE
      /\ callbacks = [n \in 1 .. MaxAttached |-> None] /\ callback_end = 0
      /\ attaching = None /\ info = None /\ called = <<>> /\ early = FALSE
  BY Zenon DEF Init
<1>2. TypeOK
  <2>1. /\ wire \in Seq([code : Codes, shifted : BOOLEAN])
        /\ sent \in 0 .. MaxCodes
        /\ callbacks \in [1 .. MaxAttached -> Callbacks \cup {None}]
        /\ callback_end \in Nat
    BY <1>1, KeyboardAssumption
  <2>2. QED
    BY <1>1, <2>1, Zenon DEF TypeOK
<1>3. ShiftsTracked
  <2>1. Len(wire) = 0 /\ 1 .. 0 = {}
    BY <1>1
  <2>2. QED
    BY <1>1, <2>1, Zenon DEF ShiftsTracked, AfterPort, Left, Right, Down
<1>4. TableFilled /\ CalledAttached
  BY <1>1, KeyboardAssumption DEF TableFilled, CalledAttached
<1>5. PortHeld /\ InfoAgrees
  BY <1>1, Zenon DEF PortHeld, InfoAgrees
<1>6. QED
  BY <1>2, <1>3, <1>4, <1>5 DEF IInv

------------------------------------------------------------------------------
(* The keyboard.                                                            *)

\* What is left alone by a step that does not touch the callbacks.
LEMMA Untouched ==
    ASSUME IInv, UNCHANGED <<info, called, table>>
    PROVE  InfoAgrees' /\ TableFilled' /\ CalledAttached'
<1>1. UNCHANGED <<info, called, callbacks, callback_end, attaching>>
  BY DEF table
<1>2. TableFilled' /\ CalledAttached'
  BY <1>1 DEF IInv, TableFilled, CalledAttached
<1>3. InfoAgrees'
  BY <1>1, Zenon DEF IInv, InfoAgrees
<1>4. QED
  BY <1>2, <1>3

\* A key struck or released tells of itself and of no other key.
LEMMA SendIInv ==
    ASSUME IInv, NEW c \in Codes, Send(c), pressed' \subseteq Keys,
           L_SHIFT \in pressed' <=> Decoded(L_SHIFT, L_SHIFT \in pressed, c),
           R_SHIFT \in pressed' <=> Decoded(R_SHIFT, R_SHIFT \in pressed, c)
    PROVE  IInv'
<1> DEFINE e == [code |-> c, shifted |-> Shifted(pressed')]
<1>1. /\ wire' = Append(wire, e) /\ sent < MaxCodes /\ sent' = sent + 1
      /\ UNCHANGED <<port, irq, installed, shifts, table, info, called, early>>
  BY DEF Send
<1>2. UNCHANGED <<holding_lshift, holding_rshift, callbacks, callback_end, attaching>>
  BY <1>1 DEF shifts, table
<1>3. Shifted(pressed') \in BOOLEAN
  BY DEF Shifted
<1>4. /\ e \in Scans /\ e.code = c
      /\ e.shifted <=> L_SHIFT \in pressed' \/ R_SHIFT \in pressed'
  BY <1>3, Zenon DEF Scans, Shifted
<1> HIDE DEF e
<1>5. wire \in Seq(Scans)
  BY DEF IInv, TypeOK, Scans
<1>6. TypeOK'
  <2>1. wire' \in Seq([code : Codes, shifted : BOOLEAN])
    BY <1>1, <1>4, <1>5 DEF Scans
  <2>2. sent' \in 0 .. MaxCodes
    BY <1>1, KeyboardAssumption DEF IInv, TypeOK
  <2>3. QED
    BY <1>1, <1>2, <2>1, <2>2, Zenon DEF IInv, TypeOK
<1>7. ShiftsTracked'
  <2>1. Left \in BOOLEAN /\ Right \in BOOLEAN /\ Left' = Left /\ Right' = Right
    BY <1>1, <1>2, Zenon DEF IInv, TypeOK, Left, Right, AfterPort, Decoded
  <2>2. PICK m \in Nat : m = Len(wire)
    BY <1>5
  <2>3. /\ Len(wire') = m + 1 /\ wire'[m + 1] = e
        /\ \A n \in 1 .. m : wire'[n] = wire[n]
    BY <1>1, <1>5, <2>2
  <2>4. /\ \A n \in 0 .. m : Down(L_SHIFT, Left, wire', n) <=> Down(L_SHIFT, Left, wire, n)
        /\ Down(L_SHIFT, Left, wire', m + 1)
              <=> Decoded(L_SHIFT, Down(L_SHIFT, Left, wire, m), c)
    <3>1. L_SHIFT \in Int
      BY DEF L_SHIFT
    <3>2. QED
      BY <1>1, <1>4, <1>5, <2>1, <2>2, <3>1, DownOfAppend
  <2>5. /\ \A n \in 0 .. m : Down(R_SHIFT, Right, wire', n) <=> Down(R_SHIFT, Right, wire, n)
        /\ Down(R_SHIFT, Right, wire', m + 1)
              <=> Decoded(R_SHIFT, Down(R_SHIFT, Right, wire, m), c)
    <3>1. R_SHIFT \in Int
      BY DEF R_SHIFT
    <3>2. QED
      BY <1>1, <1>4, <1>5, <2>1, <2>2, <3>1, DownOfAppend
  <2>6. /\ L_SHIFT \in pressed <=> Down(L_SHIFT, Left, wire, m)
        /\ R_SHIFT \in pressed <=> Down(R_SHIFT, Right, wire, m)
    BY <2>2, Zenon DEF IInv, ShiftsTracked
  <2>7. /\ L_SHIFT \in pressed' <=> Down(L_SHIFT, Left, wire', m + 1)
        /\ R_SHIFT \in pressed' <=> Down(R_SHIFT, Right, wire', m + 1)
    BY <2>4, <2>5, <2>6, Zenon DEF Decoded
  <2>8. ASSUME NEW n \in 1 .. m + 1
        PROVE  wire'[n].shifted <=> \/ Down(L_SHIFT, Left, wire', n)
                                    \/ Down(R_SHIFT, Right, wire', n)
    <3>1. CASE n = m + 1
      BY <1>4, <2>3, <2>7, <3>1, Zenon
    <3>2. CASE n # m + 1
      <4>1. n \in 1 .. m /\ n \in 0 .. m
        BY <2>2, <3>2
      <4>2. wire[n].shifted <=> Down(L_SHIFT, Left, wire, n) \/ Down(R_SHIFT, Right, wire, n)
        BY <2>2, <4>1, Zenon DEF IInv, ShiftsTracked
      <4>3. QED
        BY <2>3, <2>4, <2>5, <4>1, <4>2, Zenon
    <3>3. QED
      BY <3>1, <3>2
  <2>9. port' # None => (port'.shifted <=> Left' \/ Right')
    BY <1>1, <2>1, Zenon DEF IInv, ShiftsTracked
  <2>10. QED
    BY <2>1, <2>3, <2>7, <2>8, <2>9, Zenon DEF ShiftsTracked
<1>8. PortHeld'
  BY <1>1, Zenon DEF IInv, PortHeld
<1>9. QED
  BY <1>1, <1>6, <1>7, <1>8, Untouched DEF IInv

\* The press or the repeat of a key preserves the invariant.
LEMMA PressIInv ==
    ASSUME IInv, NEW k \in Keys, Press(k)
    PROVE  IInv'
<1>1. pressed' = pressed \cup {k} /\ k \in Codes /\ Send(k) /\ pressed \subseteq Keys
  BY DEF Press, Codes, IInv, TypeOK
<1>2. k # L_SHIFT + RELEASE_OFFSET /\ k # R_SHIFT + RELEASE_OFFSET
  BY KeyboardAssumption DEF L_SHIFT, R_SHIFT, RELEASE_OFFSET
<1>3. /\ L_SHIFT \in pressed' <=> Decoded(L_SHIFT, L_SHIFT \in pressed, k)
      /\ R_SHIFT \in pressed' <=> Decoded(R_SHIFT, R_SHIFT \in pressed, k)
  BY <1>1, <1>2, Zenon DEF Decoded
<1>4. QED
  BY <1>1, <1>3, SendIInv

\* The release of a key preserves the invariant.
LEMMA ReleaseIInv ==
    ASSUME IInv, NEW k \in Keys, Release(k)
    PROVE  IInv'
<1> DEFINE c == k + RELEASE_OFFSET
<1>1. pressed' = pressed \ {k} /\ c \in Codes /\ Send(c) /\ pressed \subseteq Keys
  BY DEF Release, Codes, IInv, TypeOK
<1>2. /\ c # L_SHIFT /\ c # R_SHIFT
      /\ c = L_SHIFT + RELEASE_OFFSET <=> k = L_SHIFT
      /\ c = R_SHIFT + RELEASE_OFFSET <=> k = R_SHIFT
  BY KeyboardAssumption DEF L_SHIFT, R_SHIFT, RELEASE_OFFSET
<1> HIDE DEF c
<1>3. /\ L_SHIFT \in pressed' <=> Decoded(L_SHIFT, L_SHIFT \in pressed, c)
      /\ R_SHIFT \in pressed' <=> Decoded(R_SHIFT, R_SHIFT \in pressed, c)
  BY <1>1, <1>2, Zenon DEF Decoded
<1>4. QED
  BY <1>1, <1>3, SendIInv

\* A code that moves from the wire to the port tells the same as before.
LEMMA OfferIInv ==
    ASSUME IInv, Offer
    PROVE  IInv'
<1>1. /\ wire # <<>> /\ port = None /\ port' = Head(wire) /\ wire' = Tail(wire)
      /\ irq' = TRUE
      /\ UNCHANGED <<pressed, sent, installed, holding_lshift, holding_rshift,
                     info, called, early, table>>
  BY DEF Offer, shifts
<1>2. wire \in Seq(Scans) /\ Head(wire) \in Scans /\ Tail(wire) \in Seq(Scans)
  <2>1. wire \in Seq(Scans)
    BY DEF IInv, TypeOK, Scans
  <2>2. QED
    BY <1>1, <2>1
<1>3. port' \in Scans /\ port' # None
  BY <1>1, <1>2, ScanCodes
<1>4. TypeOK'
  <2>1. /\ wire' \in Seq([code : Codes, shifted : BOOLEAN])
        /\ port' \in [code : Codes, shifted : BOOLEAN] \cup {None}
    BY <1>1, <1>2 DEF Scans
  <2>2. UNCHANGED <<callbacks, callback_end, attaching>>
    BY <1>1 DEF table
  <2>3. QED
    BY <1>1, <2>1, <2>2, Zenon DEF IInv, TypeOK
<1>5. ShiftsTracked'
  <2>1. /\ Left = holding_lshift /\ Right = holding_rshift
        /\ Left \in BOOLEAN /\ Right \in BOOLEAN
    BY <1>1, Zenon DEF IInv, TypeOK, Left, Right, AfterPort
  <2>2. /\ Left' = Decoded(L_SHIFT, Left, Head(wire).code)
        /\ Right' = Decoded(R_SHIFT, Right, Head(wire).code)
    BY <1>1, <1>3, <2>1, Zenon DEF Left, Right, AfterPort
  <2>3. PICK m \in Nat : m = Len(wire')
    BY <1>1, <1>2
  <2>4. /\ Len(wire) = m + 1
        /\ \A n \in 1 .. m : wire'[n] = wire[n + 1]
        /\ Head(wire) = wire[1]
    BY <1>1, <1>2, <2>3
  <2>5. \A n \in 0 .. m : /\ Down(L_SHIFT, Left', wire', n) <=> Down(L_SHIFT, Left, wire, n + 1)
                          /\ Down(R_SHIFT, Right', wire', n) <=> Down(R_SHIFT, Right, wire, n + 1)
    <3>1. L_SHIFT \in Int /\ R_SHIFT \in Int
      BY DEF L_SHIFT, R_SHIFT
    <3>2. QED
      BY <1>1, <1>2, <2>1, <2>2, <2>3, <3>1, DownOfTail
  <2>6. /\ L_SHIFT \in pressed' <=> Down(L_SHIFT, Left', wire', m)
        /\ R_SHIFT \in pressed' <=> Down(R_SHIFT, Right', wire', m)
    <3>1. m \in 0 .. m
      OBVIOUS
    <3>2. QED
      BY <1>1, <2>4, <2>5, <3>1, Zenon DEF IInv, ShiftsTracked
  <2>7. ASSUME NEW n \in 1 .. m
        PROVE  wire'[n].shifted <=> \/ Down(L_SHIFT, Left', wire', n)
                                    \/ Down(R_SHIFT, Right', wire', n)
    <3>1. n \in 0 .. m /\ n + 1 \in 1 .. m + 1
      OBVIOUS
    <3>2. wire[n + 1].shifted <=> \/ Down(L_SHIFT, Left, wire, n + 1)
                                  \/ Down(R_SHIFT, Right, wire, n + 1)
      BY <2>4, <3>1, Zenon DEF IInv, ShiftsTracked
    <3>3. QED
      BY <2>4, <2>5, <3>1, <3>2, Zenon
  <2>8. port'.shifted <=> Left' \/ Right'
    <3>1. /\ 1 \in 1 .. m + 1 /\ 0 \in 0 .. m /\ 0 + 1 = 1
          /\ 1 .. 0 = {}
      OBVIOUS
    <3>2. wire[1].shifted <=> Down(L_SHIFT, Left, wire, 1) \/ Down(R_SHIFT, Right, wire, 1)
      BY <2>4, <3>1, Zenon DEF IInv, ShiftsTracked
    <3>3. /\ Down(L_SHIFT, Left', wire', 0) <=> Down(L_SHIFT, Left, wire, 1)
          /\ Down(R_SHIFT, Right', wire', 0) <=> Down(R_SHIFT, Right, wire, 1)
      BY <2>5, <3>1, Zenon
    <3>4. /\ Down(L_SHIFT, Left', wire', 0) <=> Left'
          /\ Down(R_SHIFT, Right', wire', 0) <=> Right'
      BY <3>1, Zenon DEF Down
    <3>5. QED
      BY <1>1, <2>4, <3>2, <3>3, <3>4, Zenon
  <2>9. QED
    BY <2>3, <2>6, <2>7, <2>8, Zenon DEF ShiftsTracked
<1>6. PortHeld'
  BY <1>1, <1>3, Zenon DEF IInv, PortHeld
<1>7. QED
  BY <1>1, <1>4, <1>5, <1>6, Untouched DEF IInv

------------------------------------------------------------------------------
(* The boot and the interrupt.                                              *)

\* Steps that leave the codes and the flags alone.
LEMMA ShiftsUntouched ==
    ASSUME IInv, UNCHANGED <<pressed, wire, port, holding_lshift, holding_rshift>>
    PROVE  ShiftsTracked'
BY Zenon DEF IInv, ShiftsTracked, Left, Right, AfterPort

\* init_keyboard and the two steps of attach_keyboard preserve the invariant.
LEMMA BootIInv ==
    ASSUME IInv,
           init_keyboard \/ attach_returns
              \/ \E callback \in Callbacks : attach_keyboard(callback)
    PROVE  IInv'
<1>1. /\ UNCHANGED <<pressed, wire, port, irq, sent, holding_lshift, holding_rshift>>
      /\ UNCHANGED <<info, called, early>>
  BY DEF init_keyboard, attach_returns, attach_keyboard, hardware, shifts
<1>2. ShiftsTracked' /\ PortHeld' /\ InfoAgrees'
  <2>1. ShiftsTracked'
    BY <1>1, ShiftsUntouched
  <2>2. PortHeld' /\ InfoAgrees'
    BY <1>1, Zenon DEF IInv, PortHeld, InfoAgrees
  <2>3. QED
    BY <2>1, <2>2
<1>3. CASE init_keyboard
  <2>1. installed' = TRUE /\ UNCHANGED <<callbacks, callback_end, attaching>>
    BY <1>3 DEF init_keyboard, table
  <2>2. TypeOK'
    BY <1>1, <2>1, Zenon DEF IInv, TypeOK
  <2>3. TableFilled' /\ CalledAttached'
    BY <1>1, <2>1 DEF IInv, TableFilled, CalledAttached
  <2>4. QED
    BY <1>2, <2>2, <2>3 DEF IInv
<1>4. CASE attach_returns
  <2>1. /\ attaching # None /\ attaching' = None /\ callback_end' = callback_end + 1
        /\ UNCHANGED <<installed, callbacks>>
    BY <1>4 DEF attach_returns
  <2>2. callback_end \in 0 .. MaxAttached /\ MaxAttached \in Nat /\ callbacks[callback_end + 1] # None
        /\ callback_end < MaxAttached
    BY <2>1, KeyboardAssumption DEF IInv, TypeOK, TableFilled
  <2>3. PICK n \in 1 .. MaxAttached : n = callback_end + 1 /\ callback_end' = n
    BY <2>1, <2>2
  <2>4. TypeOK'
    <3>1. callback_end' \in Nat
      BY <2>2, <2>3
    <3>2. QED
      BY <1>1, <2>1, <3>1, Zenon DEF IInv, TypeOK
  <2>5. TableFilled'
    <3>1. \A l \in 1 .. n : callbacks[l] # None
      BY <2>2, <2>3 DEF IInv, TableFilled
    <3>2. QED
      BY <2>1, <2>2, <2>3, <3>1 DEF TableFilled
  <2>6. CalledAttached'
    BY <1>1, <2>1, <2>2, <2>3 DEF IInv, CalledAttached
  <2>7. QED
    BY <1>2, <2>4, <2>5, <2>6 DEF IInv
<1>5. CASE \E callback \in Callbacks : attach_keyboard(callback)
  <2>1. PICK callback \in Callbacks : attach_keyboard(callback)
    BY <1>5
  <2>2. /\ attaching = None /\ callback_end < MaxAttached /\ attaching' = callback
        /\ callbacks' = [callbacks EXCEPT ![callback_end + 1] = callback]
        /\ UNCHANGED <<installed, callback_end>>
    BY <2>1 DEF attach_keyboard
  <2>3. callback_end \in 0 .. MaxAttached /\ callbacks \in [1 .. MaxAttached -> Callbacks \cup {None}]
        /\ callback_end + 1 \in 1 .. MaxAttached
    BY <2>2, KeyboardAssumption DEF IInv, TypeOK, TableFilled
  <2>4. \A n \in 1 .. callback_end : callbacks'[n] = callbacks[n]
    BY <2>2, <2>3
  <2>5. TypeOK'
    <3>1. callbacks' \in [1 .. MaxAttached -> Callbacks \cup {None}]
          /\ attaching' \in Callbacks \cup {None}
      BY <2>2, <2>3
    <3>2. QED
      BY <1>1, <2>2, <3>1, Zenon DEF IInv, TypeOK
  <2>6. TableFilled'
    BY <2>2, <2>3, <2>4, KeyboardAssumption DEF IInv, TableFilled
  <2>7. CalledAttached'
    <3>1. \A n \in 1 .. Len(called) : Len(called) + 1 - n \in 1 .. callback_end
      BY <2>3 DEF IInv, CalledAttached
    <3>2. QED
      BY <1>1, <2>2, <2>4, <3>1 DEF IInv, CalledAttached
  <2>8. QED
    BY <1>2, <2>5, <2>6, <2>7 DEF IInv
<1>6. QED
  BY <1>3, <1>4, <1>5

\* handle_key decodes the code in the port: the flags after it are what they
\* would be.
LEMMA HandledShifts ==
    ASSUME IInv, handle_key, port # None,
           UNCHANGED <<pressed, wire>>
    PROVE  /\ holding_lshift' \in BOOLEAN /\ holding_rshift' \in BOOLEAN
           /\ holding_lshift' <=> Left
           /\ holding_rshift' <=> Right
           /\ ShiftsTracked'
<1>1. /\ port' = None /\ holding_lshift' = LShift(port.code)
      /\ holding_rshift' = RShift(port.code)
  BY Zenon DEF handle_key, ReadPort
<1>2. holding_lshift \in BOOLEAN /\ holding_rshift \in BOOLEAN
  BY Zenon DEF IInv, TypeOK
<1>3. L_SHIFT # L_SHIFT_RELEASE /\ R_SHIFT # R_SHIFT_RELEASE
  BY DEF L_SHIFT, L_SHIFT_RELEASE, R_SHIFT, R_SHIFT_RELEASE, RELEASE_OFFSET
<1>4. LShift(port.code) = Decoded(L_SHIFT, holding_lshift, port.code)
  <2>1. CASE port.code = L_SHIFT
    BY <1>3, <2>1, Zenon DEF LShift, Decoded, L_SHIFT_RELEASE
  <2>2. CASE port.code = L_SHIFT_RELEASE
    BY <1>3, <2>2, Zenon DEF LShift, Decoded, L_SHIFT_RELEASE
  <2>3. CASE port.code # L_SHIFT /\ port.code # L_SHIFT_RELEASE
    BY <1>2, <2>3, Zenon DEF LShift, Decoded, L_SHIFT_RELEASE
  <2>4. QED
    BY <2>1, <2>2, <2>3
<1>5. RShift(port.code) = Decoded(R_SHIFT, holding_rshift, port.code)
  <2>1. CASE port.code = R_SHIFT
    BY <1>3, <2>1, Zenon DEF RShift, Decoded, R_SHIFT_RELEASE
  <2>2. CASE port.code = R_SHIFT_RELEASE
    BY <1>3, <2>2, Zenon DEF RShift, Decoded, R_SHIFT_RELEASE
  <2>3. CASE port.code # R_SHIFT /\ port.code # R_SHIFT_RELEASE
    BY <1>2, <2>3, Zenon DEF RShift, Decoded, R_SHIFT_RELEASE
  <2>4. QED
    BY <2>1, <2>2, <2>3
<1>6. Left = Decoded(L_SHIFT, holding_lshift, port.code)
      /\ Right = Decoded(R_SHIFT, holding_rshift, port.code)
  BY Zenon DEF Left, Right, AfterPort
<1>7. Left' = Left /\ Right' = Right
  BY <1>1, <1>4, <1>5, <1>6, Zenon DEF Left, Right, AfterPort
<1>8. ShiftsTracked'
  BY <1>1, <1>7, Zenon DEF IInv, ShiftsTracked
<1>9. QED
  BY <1>1, <1>2, <1>4, <1>5, <1>6, <1>8, Zenon DEF Decoded

\* What handle_callbacks calls, in the order in which it calls them.
LEMMA Called ==
    ASSUME IInv
    PROVE  /\ CallOrder \in Seq(Callbacks \cup {None}) /\ Len(CallOrder) = callback_end
           /\ \A n \in 1 .. callback_end : CallOrder[n] = callbacks[callback_end + 1 - n]
<1>1. /\ callback_end \in 0 .. MaxAttached /\ MaxAttached \in Nat
      /\ callbacks \in [1 .. MaxAttached -> Callbacks \cup {None}]
  BY KeyboardAssumption DEF IInv, TypeOK, TableFilled
<1>2. \A n \in 1 .. callback_end : callback_end + 1 - n \in 1 .. MaxAttached
  BY <1>1
<1>3. CallOrder \in [1 .. callback_end -> Callbacks \cup {None}]
  BY <1>1, <1>2 DEF CallOrder
<1>4. callback_end \in Nat
  BY <1>1
<1>5. QED
  BY <1>3, <1>4 DEF CallOrder

\* An interrupt, handled or not, preserves the invariant.
LEMMA irq_handlerIInv ==
    ASSUME IInv, irq_handler
    PROVE  IInv'
<1>1. /\ irq /\ irq' = FALSE /\ UNCHANGED <<pressed, wire, sent, installed>>
      /\ UNCHANGED <<callbacks, callback_end, attaching>> /\ port # None
  BY Zenon DEF IInv, TypeOK, PortHeld, irq_handler, table
<1>2. TableFilled'
  BY <1>1 DEF IInv, TableFilled
<1>3. CASE ~ installed
  <2>1. early' = TRUE /\ UNCHANGED <<port, holding_lshift, holding_rshift, info, called>>
    BY <1>3, Zenon DEF irq_handler, shifts
  <2>2. TypeOK' /\ PortHeld'
    BY <1>1, <2>1, Zenon DEF IInv, TypeOK, PortHeld
  <2>3. ShiftsTracked'
    BY <1>1, <2>1, ShiftsUntouched
  <2>4. InfoAgrees' /\ CalledAttached'
    <3>1. UNCHANGED <<info, called, table>>
      BY <1>1, <2>1 DEF table
    <3>2. QED
      BY <3>1, Untouched
  <2>5. QED
    BY <1>2, <2>2, <2>3, <2>4 DEF IInv
<1>4. CASE installed
  <2>1. handle_key
    BY <1>4, Zenon DEF irq_handler
  <2>2. /\ holding_lshift' \in BOOLEAN /\ holding_rshift' \in BOOLEAN
        /\ holding_lshift' <=> Left
        /\ holding_rshift' <=> Right
        /\ ShiftsTracked'
    BY <1>1, <2>1, HandledShifts
  <2>3. port' = None /\ called' = CallOrder /\ UNCHANGED early
    BY <2>1, Zenon DEF handle_key, ReadPort
  <2>4. early = FALSE
    BY <1>1, Zenon DEF IInv, TypeOK, PortHeld
  <2>5. TypeOK' /\ PortHeld'
    BY <1>1, <2>2, <2>3, <2>4, Zenon DEF IInv, TypeOK, PortHeld
  <2>6. InfoAgrees'
    <3>1. PICK char \in HasCharacter(port.code) :
              info' = [raw      |-> port.code,
                       release  |-> port.code >= RELEASE_OFFSET,
                       modifier |-> ~ char,
                       upper    |-> char /\ (holding_lshift' \/ holding_rshift'),
                       shifted  |-> port.shifted]
      BY <2>1, Zenon DEF handle_key
    <3>2. /\ info'.modifier = ~ char
          /\ info'.upper = (char /\ (holding_lshift' \/ holding_rshift'))
          /\ info'.shifted = port.shifted
      BY <3>1, Zenon
    <3>3. port.shifted <=> Left \/ Right
      BY <1>1, Zenon DEF IInv, ShiftsTracked
    <3>4. QED
      BY <2>2, <3>2, <3>3, Zenon DEF InfoAgrees
  <2>7. CalledAttached'
    <3>1. callback_end \in Nat
      BY DEF IInv, TypeOK
    <3>2. QED
      BY <1>1, <2>3, <3>1, Called DEF CalledAttached
  <2>8. QED
    BY <1>2, <2>2, <2>5, <2>6, <2>7 DEF IInv
<1>5. QED
  BY <1>3, <1>4

------------------------------------------------------------------------------
(* The theorems.                                                            *)

\* Every step preserves the invariant.
LEMMA NextIInv == IInv /\ [Next]_vars => IInv'
<1> SUFFICES ASSUME IInv, [Next]_vars PROVE IInv'
  OBVIOUS
<1>1. CASE \E k \in Keys : Press(k) \/ Release(k)
  BY <1>1, PressIInv, ReleaseIInv
<1>2. CASE Offer
  BY <1>2, OfferIInv
<1>3. CASE init_keyboard \/ attach_returns
              \/ \E callback \in Callbacks : attach_keyboard(callback)
  BY <1>3, BootIInv
<1>4. CASE irq_handler
  BY <1>4, irq_handlerIInv
<1>5. CASE UNCHANGED vars
  <2>1. /\ UNCHANGED <<pressed, wire, port, irq, sent, holding_lshift, holding_rshift>>
        /\ UNCHANGED <<installed, callbacks, callback_end, attaching, info, called, early>>
    BY <1>5 DEF vars, hardware, shifts, table
  <2>2. ShiftsTracked'
    BY <2>1, ShiftsUntouched
  <2>3. TypeOK' /\ PortHeld'
    BY <2>1, Zenon DEF IInv, TypeOK, PortHeld
  <2>4. InfoAgrees' /\ TableFilled' /\ CalledAttached'
    <3>1. UNCHANGED <<info, called, table>>
      BY <2>1 DEF table
    <3>2. QED
      BY <3>1, Untouched
  <2>5. QED
    BY <2>2, <2>3, <2>4 DEF IInv
<1>6. QED
  BY <1>1, <1>2, <1>3, <1>4, <1>5 DEF Next

\* The flags, the code in the port and those on the wire together tell which
\* shift keys are held; the table and the interrupt agree (keyboard.c).
THEOREM Invariance == Spec => []IInv
BY InitIInv, NextIInv, PTL DEF Spec

\* When every code has been handled the flags say which shift keys are held,
\* whatever keys were struck and however late (handle_key).
THEOREM ShiftFlagsAlwaysAgree == Spec => []ShiftFlagsAgree
<1>1. IInv => ShiftFlagsAgree
  <2> SUFFICES ASSUME IInv, wire = <<>>, port = None
               PROVE  /\ holding_lshift <=> L_SHIFT \in pressed
                      /\ holding_rshift <=> R_SHIFT \in pressed
    BY DEF ShiftFlagsAgree
  <2>1. Len(wire) = 0 /\ 1 .. 0 = {}
    OBVIOUS
  <2>2. QED
    BY <2>1, Zenon DEF IInv, ShiftsTracked, Left, Right, AfterPort, Down
<1>2. QED
  BY <1>1, Invariance, PTL

\* A character is upper case when a shift key was down as it was struck, not
\* as its interrupt is served (handle_key).
THEOREM CaseIsAsStruck == Spec => []CaseAsStruck
<1>1. IInv => CaseAsStruck
  BY Zenon DEF IInv, InfoAgrees, CaseAsStruck
<1>2. QED
  BY <1>1, Invariance, PTL

\* Callbacks are called in the reverse of the order in which they were
\* attached, and never an empty slot, although an interrupt may come between
\* the two steps of attach_keyboard; the types are right.
THEOREM LastIsFirst == Spec => []LastAttachedFirst
<1>1. IInv => LastAttachedFirst
  <2> SUFFICES ASSUME IInv, NEW n \in 1 .. Len(called)
               PROVE  /\ called[n] # None
                      /\ called[n] = callbacks[Len(called) + 1 - n]
    BY DEF LastAttachedFirst, IInv
  <2>1. /\ called[n] = callbacks[Len(called) + 1 - n]
        /\ Len(called) + 1 - n \in 1 .. callback_end
    BY DEF IInv, CalledAttached, TypeOK
  <2>2. QED
    BY <2>1 DEF IInv, TableFilled
<1>2. QED
  BY <1>1, Invariance, PTL

\* A key struck before init_keyboard is the last: its code stays in the port
\* and no interrupt follows (irq_handler, kernel_main).
THEOREM EarlyKeyIsLast == Spec => DeadAfterEarlyKey
<1>1. IInv /\ [Next]_vars => [early => UNCHANGED <<info, called>>]_vars
  <2> SUFFICES ASSUME IInv, Next, early
               PROVE  UNCHANGED <<info, called>>
    BY DEF vars
  <2>1. ~ irq
    BY Zenon DEF IInv, TypeOK, PortHeld
  <2>2. QED
    BY <2>1 DEF Next, Press, Release, Send, Offer, init_keyboard, attach_keyboard,
                attach_returns, irq_handler
<1>2. QED
  BY <1>1, Invariance, PTL DEF Spec, DeadAfterEarlyKey
==============================================================================
