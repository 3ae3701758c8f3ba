-------------------------------- MODULE CardLink --------------------------------
(***************************************************************************)
(* From the ROM loader to the link's addresses (artosyn_sdio.c): the card  *)
(* shows up as 0x8030, the probe streams the firmware into its ROM loader, *)
(* the last frame boots it, it comes back as 0x8031, and the probe then    *)
(* builds the interface sdio0.  The IP headers that cross the link carry   *)
(* only the last octet of each address; the prefix is rebuilt from the     *)
(* address the interface was given, which a notifier keeps.                *)
(*                                                                         *)
(* What open files see of the same probe and remove is in SdioGate.        *)
(***************************************************************************)
EXTENDS Integers, Sequences, SequencesExt

CONSTANTS
  Header,      \* SD_FRAME_HDR_LEN
  Block,       \* ARSDIO_BLOCK
  Most,        \* SD_FRAME_PAYLOAD_MAX
  HdrLen,      \* the length of the image's own header
  Images,      \* [spl, troot, sig, cfg]: the lengths in the two files
  Address,     \* addresses that sdio0 may be given
  NoAddress,   \* none: ip_addr is 0
  Secondary,   \* whether sdio0 may have more than one address at a time
  MaxCardFaults, MaxInserts  \* bounds

VARIABLES
  card,        \* "out", "rom" (0x8030), "jump" between the two, "run" (0x8031)
  bound,       \* the probe: "none", "load", "loader", "link"
  image,       \* the files
  segment, off,  \* where the upload goes on
  rom,         \* the frames the ROM loader has taken since it was reset
  addresses,   \* of sdio0, in the order they were given
  ip_addr,     \* eth->ip_addr
  cardFaults, inserts

cardVars == <<card, image, inserts>>
linkVars == <<addresses, ip_addr>>
clVars == <<cardVars, bound, segment, off, rom, linkVars, cardFaults>>

Small == Block - Header

(***************************************************************************)
(* sdio_rom_send: the frame that goes out at an offset.                    *)
(***************************************************************************)
Tiny(len, at) == len > 0 /\ at = 0 /\ len < Small

Chunk(len, at) ==
  CASE Tiny(len, at) -> len
    [] len - at >= Most -> Most
    [] len - at >= Small /\ len - at < Most -> Small
    [] OTHER -> len - at

len_field(len, at) == Chunk(len, at) + (IF Tiny(len, at) THEN Header ELSE 0)

wire(len, at) == Header + len_field(len, at)

\* ALIGN(x, ARSDIO_BLOCK)
Align(x) == ((x + Block - 1) \div Block) * Block

(***************************************************************************)
(* sdio_request_fw: the segments, and where each is in its file.           *)
(***************************************************************************)
Segments(i) ==
  LET spl == Block
      troot == spl + Align(i.spl)
      sig == troot + Align(i.troot)
  IN <<[what |-> "header", base |-> 0, len |-> HdrLen],
       [what |-> "spl", base |-> spl, len |-> i.spl],
       [what |-> "troot", base |-> troot, len |-> i.troot],
       [what |-> "sig", base |-> sig, len |-> i.sig],
       [what |-> "cfg", base |-> 0, len |-> i.cfg],
       [what |-> "jump", base |-> 0, len |-> 0]>>

\* Mutant of the next: an empty segment is sent like any other, as the frame
\* without a payload that boots the chip.
SkippedNot(s) == FALSE

\* artosyn_upload_segment sends nothing of an empty segment
Skipped(s) == s.len = 0 /\ s.what # "jump"

\* The next segment that is sent, from the n-th on
NextSegment(i, n) ==
  CHOOSE k \in n..6 : /\ ~Skipped(Segments(i)[k])
                      /\ \A j \in n..(k - 1) : Skipped(Segments(i)[j])

RomFrame ==
  LET s == Segments(image)[segment]
  IN [what |-> s.what, base |-> s.base + off, at |-> off,
      chunk |-> Chunk(s.len, off), field |-> len_field(s.len, off),
      wire |-> wire(s.len, off)]

SegmentDone == off + RomFrame.chunk >= Segments(image)[segment].len

ClInit ==
  /\ card = "out" /\ bound = "none" /\ image \in Images
  /\ segment = 1 /\ off = 0 /\ rom = <<>>
  /\ addresses = <<>> /\ ip_addr = NoAddress
  /\ cardFaults = 0 /\ inserts = 0

\* The card powers up; the host polls for it.
Insert ==
  /\ card = "out" /\ bound = "none" /\ inserts < MaxInserts
  /\ card' = "rom" /\ rom' = <<>> /\ inserts' = inserts + 1
  /\ UNCHANGED <<image, bound, segment, off, linkVars, cardFaults>>

\* sdio_artosyn_probe of 0x8030, up to the gate of the ROM loader
ProbeLoader ==
  /\ card = "rom" /\ bound = "none"
  /\ bound' = "load" /\ segment' = 1 /\ off' = 0
  /\ UNCHANGED <<cardVars, rom, linkVars, cardFaults>>

\* A file is missing, or the loader is not ready; all is undone.
LoaderRefused ==
  /\ card = "rom" /\ bound = "none" /\ cardFaults < MaxCardFaults
  /\ cardFaults' = cardFaults + 1
  /\ UNCHANGED <<cardVars, bound, segment, off, rom, linkVars>>

\* What the card does with a frame: one without a payload boots it.
Taken ==
  /\ rom' = Append(rom, RomFrame)
  /\ card' = IF RomFrame.field = 0 THEN "jump" ELSE card

SendFrame ==
  /\ bound = "load" /\ card = "rom"
  /\ Taken
  /\ IF ~SegmentDone THEN off' = off + RomFrame.chunk /\ UNCHANGED <<segment, bound>>
     ELSE IF Segments(image)[segment].what = "jump"
       THEN bound' = "loader" /\ UNCHANGED <<segment, off>>
       ELSE segment' = NextSegment(image, segment + 1) /\ off' = 0 /\ UNCHANGED bound
  /\ UNCHANGED <<image, linkVars, cardFaults, inserts>>

\* A write fails, and the card may have taken the frame nevertheless; the
\* probe fails and leaves the card as it is.
SendFails ==
  /\ bound = "load" /\ bound' = "none"
  /\ \/ card # "rom" /\ UNCHANGED <<card, rom, cardFaults>>
     \/ /\ card = "rom" /\ cardFaults < MaxCardFaults /\ cardFaults' = cardFaults + 1
        /\ Taken \/ UNCHANGED <<card, rom>>
  /\ UNCHANGED <<image, segment, off, linkVars, inserts>>

\* The firmware is up: the card answers as 0x8031.
Reenumerate ==
  /\ card = "jump" /\ card' = "run"
  /\ UNCHANGED <<image, inserts, bound, segment, off, rom, linkVars, cardFaults>>

\* The poll finds another card, or none: sdio_artosyn_remove.  The addresses
\* go with the interface, each with an event of its own.
Rescan ==
  /\ \/ bound = "loader" /\ card # "rom"
     \/ bound = "link" /\ card # "run"
  /\ bound' = "none"
  /\ addresses' = <<>> /\ ip_addr' = NoAddress
  /\ UNCHANGED <<cardVars, segment, off, rom, cardFaults>>

\* sdio_artosyn_probe of 0x8031: artosyn_setup_netdev clears eth.
ProbeLink ==
  /\ card = "run" /\ bound = "none"
  /\ bound' = "link" /\ addresses' = <<>> /\ ip_addr' = NoAddress
  /\ UNCHANGED <<cardVars, segment, off, rom, cardFaults>>

\* The card is pulled, or loses its power
Eject ==
  /\ card # "out" /\ card' = "out"
  /\ UNCHANGED <<image, inserts, bound, segment, off, rom, linkVars, cardFaults>>

(***************************************************************************)
(* artosyn_sdio_inetaddr_event                                             *)
(***************************************************************************)
AddressUp(a) ==
  /\ bound = "link" /\ ~Contains(addresses, a)
  /\ Secondary \/ addresses = <<>>
  /\ addresses' = Append(addresses, a) /\ ip_addr' = a
  /\ UNCHANGED <<cardVars, bound, segment, off, rom, cardFaults>>

AddressDown(a) ==
  /\ bound = "link" /\ Contains(addresses, a)
  /\ addresses' = Remove(addresses, a) /\ ip_addr' = NoAddress
  /\ UNCHANGED <<cardVars, bound, segment, off, rom, cardFaults>>

ClNext ==
  \/ Insert \/ ProbeLoader \/ LoaderRefused \/ SendFrame \/ SendFails \/ Reenumerate
  \/ Rescan \/ ProbeLink \/ Eject
  \/ \E a \in Address : AddressUp(a) \/ AddressDown(a)

(***************************************************************************)
(* The header: octets 0..19 of an IPv4 header without options, as a        *)
(* function.                                                               *)
(***************************************************************************)

\* One of the moves of artosyn_sdio_build_ip_head, d[m[1]] = d[m[2]]
Move(d, m) == [d EXCEPT ![m[1]] = d[m[2]]]

Moves == <<<<18, 15>>, <<17, 7>>, <<16, 6>>, <<15, 5>>, <<14, 4>>, <<13, 3>>,
           <<12, 2>>, <<8, 0>>>>

\* skb_pull drops the first eight octets
artosyn_sdio_build_ip_head(h) ==
  LET d == FoldLeft(Move, h, Moves)
  IN [i \in 0..11 |-> d[i + 8]]

\* The octets in the order of their stores; prefix is three octets, and sum
\* stands for the checksum of the rest.
artosyn_sdio_restore_ip_head(prefix, c, sum) ==
  LET pushed == [i \in 0..19 |-> IF i < 8 THEN "stale" ELSE c[i - 8]]
      front == [i \in 0..19 |->
                  IF i = 0 THEN 69 ELSE IF i = 1 THEN 0 ELSE IF i = 8 THEN 64
                  ELSE IF i \in 2..7 THEN pushed[i + 10] ELSE pushed[i]]
      source == [front EXCEPT ![12] = prefix[1], ![13] = prefix[2], ![14] = prefix[3],
                              ![15] = front[18]]
  IN [source EXCEPT ![16] = prefix[1], ![17] = prefix[2], ![18] = prefix[3],
                    ![10] = sum[1], ![11] = sum[2]]

(***************************************************************************)
(* Properties.                                                             *)
(***************************************************************************)

\* Where a segment starts in a file that is filled block by block
RECURSIVE Filled(_, _)
Filled(i, n) ==
  IF n = 1 THEN 0
  ELSE LET s == Segments(i)[n - 1]
           end == Filled(i, n - 1) + s.len
       IN CHOOSE x \in end..(end + Block - 1) : x % Block = 0

\* The frames of one segment carry it whole: in order, each byte once, from
\* where it is in its file.
Whole(frames, s, start) ==
  /\ frames # <<>> /\ frames[1].at = 0
  /\ \A k \in DOMAIN frames :
       /\ frames[k].base = start + frames[k].at
       /\ frames[k].chunk > 0
       /\ frames[k].at + frames[k].chunk =
            IF k = Len(frames) THEN s.len ELSE frames[k + 1].at

Of(frames, what) == SelectSeq(frames, LAMBDA f : f.what = what)

\* The frames since the last one that starts a header
Latest ==
  LET starts == {k \in DOMAIN rom : rom[k].what = "header"}
  IN IF starts = {} THEN <<>>
     ELSE SubSeq(rom, CHOOSE k \in starts : \A j \in starts : j =< k, Len(rom))

\* A card that boots has been given all of its firmware and configuration by
\* the last upload that was begun, whatever failed, was pulled or was probed
\* again before; the loader's frames are never sent to firmware that runs
\* (sdio_request_fw, sdio_rom_send).
BootsWhole ==
  card = "jump" =>
    /\ rom[Len(rom)].what = "jump"
    /\ \A n \in 1..5 :
         LET s == Segments(image)[n]
         IN IF s.len = 0 THEN Of(Latest, s.what) = <<>>
            ELSE Whole(Of(Latest, s.what), s, IF n = 5 THEN 0 ELSE Filled(image, n))

\* "<512 must go out byte-mode", never a padded block; more than a block goes
\* out in whole blocks - but for a whole segment that is one frame header
\* short of a block, which the zeros behind it take past it.
WireExact ==
  \A k \in DOMAIN rom :
    LET f == rom[k]
    IN \/ f.wire < Block
       \/ f.wire % Block = 0 /\ f.wire =< Header + Most
       \/ f.at = 0 /\ f.chunk \in (Small - Header + 1)..(Small - 1)

\* While sdio0 has its address, what is received is rebuilt with it; when it
\* has none, with none, not with the one of an interface that is gone.
PrefixFollows ==
  /\ addresses # <<>> => bound = "link"
  /\ ip_addr = IF addresses = <<>> THEN NoAddress ELSE addresses[1]

\* A header that went out compressed comes back the same, but for the two
\* addresses' prefix, which is the link's, and the service class, lifetime and
\* checksum, which are set anew.
HeadRebuilt ==
  LET sent == [i \in 0..19 |-> IF i = 0 THEN 69 ELSE <<"octet", i>>]
      got == artosyn_sdio_restore_ip_head(<<"p1", "p2", "p3">>,
               artosyn_sdio_build_ip_head(sent), <<"s1", "s2">>)
  IN /\ \A i \in {0} \cup 2..7 \cup {9, 15, 19} : got[i] = sent[i]
     /\ \A i \in {12, 16}, k \in 0..2 : got[i + k] = <<"p1", "p2", "p3">>[k + 1]
     /\ got[1] = 0 /\ got[8] = 64 /\ got[10] = "s1" /\ got[11] = "s2"
================================================================================
