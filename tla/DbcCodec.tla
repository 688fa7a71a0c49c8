------------------------------- MODULE DbcCodec -------------------------------
(***************************************************************************)
(* ParseDbcFile, MakeFrame and ParseFrame of internal/canhandler, with the *)
(* parts of the einride can library they call.                             *)
(*                                                                         *)
(* A DBC file is a sequence of message definitions; their names, senders   *)
(* and units are left out.  The data of a frame is the set of its bits     *)
(* that are one, numbered as DBC files number them: bit p % 8 of byte      *)
(* p \div 8.  Physical values, scales and offsets are counted in           *)
(* thousandths.                                                            *)
(***************************************************************************)
EXTENDS Integers, Sequences, SequencesExt, FiniteSetsExt

\* Faulty variant: the first definition of an identifier is kept.
ParseDbcFileFirst(defs) ==
    [loaded |-> TRUE,
     msgs   |-> [id \in {defs[i].id : i \in DOMAIN defs} |->
                   defs[Min({i \in DOMAIN defs : defs[i].id = id})]]]

\* The map is keyed by ToCAN(), the number without the extended flag: of two
\* messages with one number the later one stays.
ParseDbcFile(defs) ==
    [loaded |-> TRUE,
     msgs   |-> [id \in {defs[i].id : i \in DOMAIN defs} |->
                   defs[Max({i \in DOMAIN defs : defs[i].id = id})]]]

NoDbc == [loaded |-> FALSE, msgs |-> <<>>]

-----------------------------------------------------------------------------
(* can.Data                                                                *)

\* The place of bit p in the frame read as one big-endian number, and back.
InvertEndian(p) == 8 * (7 - (p \div 8)) + (p % 8)

\* Faulty variant: a big-endian signal is counted down from its start bit.
BitDown(sig, i) == IF sig.big THEN sig.start - sig.length + 1 + i ELSE sig.start + i

\* The place of bit i of a signal, 0 being the lowest.
Bit(sig, i) ==
    IF sig.big THEN InvertEndian(InvertEndian(sig.start) - sig.length + 1 + i) ELSE sig.start + i

Bits(sig) == {Bit(sig, i) : i \in 0 .. sig.length - 1}

\* What a DBC file says of a signal: it lies within the frame, its scale is greater
\* than zero and its range is one.  (Wider ones, which the floats of the
\* conversion may round, are left out.)
IsSignal(sig) ==
    /\ {sig.big, sig.signed, sig.switch, sig.muxed} \subseteq BOOLEAN
    /\ sig.start \in 0 .. 63 /\ sig.length \in 1 .. 32 /\ Bits(sig) \subseteq 0 .. 63
    /\ sig.scale \in Nat \ {0} /\ {sig.offset, sig.min, sig.max} \subseteq Int /\ sig.min <= sig.max

\* 2 ^ n
Power2[n \in Nat] == IF n = 0 THEN 1 ELSE 2 * Power2[n - 1]

\* Set{Signed,Unsigned}Bits{Little,Big}Endian: two's complement in length bits.
SetBits(data, sig, raw) ==
    LET word == raw % Power2[sig.length] IN
    (data \ Bits(sig)) \cup {Bit(sig, i) : i \in {j \in 0 .. sig.length - 1 : (word \div Power2[j]) % 2 = 1}}

\* The number that the lowest n bits of a signal make.
Word(data, sig, n) ==
    LET low[k \in Nat] == IF k = 0 THEN 0
                          ELSE low[k - 1] + IF Bit(sig, k - 1) \in data THEN Power2[k - 1] ELSE 0
    IN  low[n]

\* {Signed,Unsigned}Bits{Little,Big}Endian
GetBits(data, sig) ==
    LET word == Word(data, sig, sig.length) IN
    IF sig.signed /\ Bit(sig, sig.length - 1) \in data THEN word - Power2[sig.length] ELSE word

-----------------------------------------------------------------------------
(* descriptor.Signal                                                       *)

Between(lo, x, hi) == Max({lo, Min({x, hi})})

\* A range of 0 to 0 means that none is given.
InRange(sig, x) == IF sig.min # 0 \/ sig.max # 0 THEN Between(sig.min, x, sig.max) ELSE x

MinRaw(sig) == IF sig.signed THEN -Power2[sig.length - 1] ELSE 0
MaxRaw(sig) == IF sig.signed THEN Power2[sig.length - 1] - 1 ELSE Power2[sig.length] - 1

ToPhysical(sig, raw) == InRange(sig, raw * sig.scale + sig.offset)

\* FromPhysical, multiplied by the scale: within the range, without the offset,
\* saturated to the width of the signal.
FromPhysical(sig, x) ==
    Between(MinRaw(sig) * sig.scale, InRange(sig, x) - sig.offset, MaxRaw(sig) * sig.scale)

\* A single bit is 0 or 1 whatever its scale.
UnmarshalPhysical(sig, data) ==
    IF sig.length = 1 THEN IF sig.start \in data THEN 1000 ELSE 0
    ELSE ToPhysical(sig, GetBits(data, sig))

-----------------------------------------------------------------------------
(* Handler                                                                 *)

\* Faulty variant: what does not fit is not saturated.
RawUnsaturated(sig, x, low) ==
    LET y == InRange(sig, x) - sig.offset IN
    IF y < 0 THEN -((-y) \div sig.scale) ELSE y \div sig.scale

\* int64(rawValueFloat): towards zero.  The quotient of two floats whose decimal
\* values divide exactly may be a little low (0.3 / 0.1 = 2.9999999999999996) and
\* then ends one lower; low says that it does.
Raw(sig, x, low) ==
    LET y    == FromPhysical(sig, x)
        less == IF low THEN 1 ELSE 0
    IN  IF y < 0 THEN -((-y) \div sig.scale - less) ELSE y \div sig.scale - less

\* Where a quotient may be low: the exact one is a whole number, not 0, and it is
\* computed with a scale or an offset that is no whole number, so that a float need
\* not hold it exactly (4.35 - 0.35 is 3.9999999999999996).
MayBeLow(sig, x) ==
    LET y == InRange(sig, x) - sig.offset IN
    /\ sig.scale % 1000 # 0 \/ sig.offset % 1000 # 0
    /\ y % sig.scale = 0 /\ y # 0
    /\ y \in MinRaw(sig) * sig.scale .. MaxRaw(sig) * sig.scale

\* The definition the store has for a command.
Makes(store, m) == store.loaded /\ m.FrameID \in DOMAIN store.msgs

\* The bits start out zero; the definition's signals that the command names are
\* set in the order of the definition.  lows: names of the signals that end low.
MakeFrame(store, m, lows) ==
    LET def == store.msgs[m.FrameID]
        Write(data, sig) ==
            IF sig.name \in DOMAIN m.Signals
            THEN SetBits(data, sig, Raw(sig, m.Signals[sig.name], sig.name \in lows)) ELSE data
        written[k \in 0 .. Len(def.signals)] ==
            IF k = 0 THEN {} ELSE Write(written[k - 1], def.signals[k])
    IN  [ID |-> m.FrameID, IsExtended |-> def.extended, Data |-> written[Len(def.signals)]]

\* Faulty variant: multiplexed signals are decoded like the others.
DecodesAll(def, sig, data) == TRUE

\* A multiplexed signal is decoded when the physical value of the first switch,
\* cut to an unsigned number, is the one of its group.
Decodes(def, sig, data) ==
    LET switches == {i \in DOMAIN def.signals : def.signals[i].switch} IN
    ~sig.muxed \/ (/\ switches # {}
                   /\ UnmarshalPhysical(def.signals[Min(switches)], data) \div 1000 = sig.group)

\* The decoded signals by name; none when the store does not know the frame.
ParseFrame(store, f) ==
    IF ~store.loaded \/ f.ID \notin DOMAIN store.msgs THEN <<>>
    ELSE LET def  == store.msgs[f.ID]
             sigs == {sig \in ToSet(def.signals) : Decodes(def, sig, f.Data)}
         IN  [n \in {sig.name : sig \in sigs} |->
                UnmarshalPhysical(CHOOSE sig \in sigs : sig.name = n, f.Data)]
=============================================================================
