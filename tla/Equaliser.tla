------------------------------ MODULE Equaliser ------------------------------
(* The run-time equaliser of bflogic_eq.c as operators: which               *)
(* configurations are accepted, the magnitudes and phases an equaliser      *)
(* starts with, which commands it takes and what they change.  A frequency  *)
(* is an integer, and stands for everything within one percent of it; a     *)
(* list is a sequence of pairs of a frequency and a value.                  *)
EXTENDS Integers, Sequences, FiniteSets, SequencesExt

Rising(freqs) == \A n \in 2..Len(freqs) : freqs[n - 1] < freqs[n]
Freqs(list) == [n \in DOMAIN list |-> list[n][1]]
ValueAt(list, freq) == LET n == CHOOSE i \in DOMAIN list : list[i][1] = freq IN list[n][2]

(***************************************************************************)
(* Configuration.                                                          *)
(***************************************************************************)

(* A preset loses the bands above half the sample rate, but for the first.  *)
Preset(bands, nyquist) ==
    LET keep == SelectSeq(bands, LAMBDA b : b < nyquist)
    IN  IF keep = <<>> THEN <<bands[1]>> ELSE keep
BandsOf(entry, nyquist) == IF entry.preset THEN Preset(entry.bands, nyquist) ELSE entry.bands
BandsOk(bands, nyquist) == bands # <<>> /\ bands[1] > 0 /\ Rising(bands) /\ Last(bands) < nyquist

(* parse_freq_val()                                                        *)
ListOk(list, nyquist) ==
    Rising(Freqs(list)) /\ \A n \in DOMAIN list : list[n][1] \in 0..nyquist

(* The bands, and the two ends of the spectrum.                            *)
Points(bands, nyquist) == {0, nyquist} \union ToSet(bands)

(* finalise_equaliser(): the magnitude is flat beyond the bands.            *)
Given(list, points) ==
    [p \in points |-> IF p \in ToSet(Freqs(list)) THEN ValueAt(list, p) ELSE 0]
Flat(values, bands, nyquist) ==
    [values EXCEPT ![0] = values[bands[1]], ![nyquist] = values[Last(bands)]]
PowerOfTwo(n) == \E k \in 0..n : 2 ^ k = n
SetsOf(entry) == <<entry.coeff[1], Last(entry.coeff)>>
SetsFit(pair, cfg) ==
    /\ \A n \in 1..2 : pair[n] \in DOMAIN cfg.blocks /\ PowerOfTwo(cfg.length * cfg.blocks[pair[n]])
    /\ cfg.blocks[pair[1]] = cfg.blocks[pair[2]]

EntryOk(entry, cfg) ==
    LET bands == BandsOf(entry, cfg.nyquist)
        points == Points(bands, cfg.nyquist)
    IN  /\ Len(entry.coeff) \in 1..2
        /\ BandsOk(bands, cfg.nyquist)
        /\ ListOk(entry.mag, cfg.nyquist) /\ ToSet(Freqs(entry.mag)) \subseteq points
        /\ ListOk(entry.phase, cfg.nyquist) /\ ToSet(Freqs(entry.phase)) \subseteq points
        /\ SetsFit(SetsOf(entry), cfg)
Disjoint(entries) ==
    \A a, b \in DOMAIN entries :
        a # b => ToSet(SetsOf(entries[a])) \intersect ToSet(SetsOf(entries[b])) = {}
EqualisersOk(cfg) ==
    (\A n \in DOMAIN cfg.entries : EntryOk(cfg.entries[n], cfg)) /\ Disjoint(cfg.entries)

Configured(entry, cfg) ==
    LET bands == BandsOf(entry, cfg.nyquist)
        points == Points(bands, cfg.nyquist)
    IN  [coeff |-> SetsOf(entry),
         values |-> [mag |-> Flat(Given(entry.mag, points), bands, cfg.nyquist),
                     phase |-> Given(entry.phase, points)]]

(***************************************************************************)
(* Commands.                                                               *)
(***************************************************************************)

(* The equaliser of a command: the first that has the coefficient set.      *)
Controls(pair, coeff) == coeff \in ToSet(pair)

(* bflogic_command(): sorted, and every frequency a band (or the upper end). *)
CommandOk(values, cmd) ==
    cmd.what = "info" \/ (/\ Rising(Freqs(cmd.list))
                          /\ ToSet(Freqs(cmd.list)) \subseteq DOMAIN values.mag \ {0})

(* What a command changes in an equaliser.                                  *)
Merged(old, list) == [p \in DOMAIN old |-> IF p \in ToSet(Freqs(list)) THEN ValueAt(list, p) ELSE old[p]]
BandsSet(values, cmd) ==
    CASE cmd.what = "mag" -> [values EXCEPT !.mag = Merged(@, cmd.list)]
      [] cmd.what = "phase" -> [values EXCEPT !.phase = Merged(@, cmd.list)]
      [] OTHER -> values
=============================================================================
