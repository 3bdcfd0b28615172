----------------------------- MODULE CommandLine -----------------------------
(***************************************************************************)
(* The options that decide what happens to a baseline, as main.cpp takes    *)
(* them from the command line, one after the other, a later one overruling  *)
(* an earlier one.  An argument is a parameter and the values of those that *)
(* have one: the format of -o, the antennas of -flagantenna.                *)
(***************************************************************************)
EXTENDS Naturals, Sequences, SequencesExt

Formats == {"ms", "uvfits", "mwaf"}
Argument == [param : STRING, format : Formats, antennae : SUBSET Nat]

OptionRecord ==
  [format : Formats, collectStatistics : BOOLEAN, saveStatistics : BOOLEAN,
   flagAutos : BOOLEAN, removeFlagged : BOOLEAN, removeAutos : BOOLEAN,
   rfiDetection : BOOLEAN, flagFiles : BOOLEAN, cableLength : BOOLEAN,
   subbandGains : BOOLEAN, instrConfig : BOOLEAN,
   userFlagged : SUBSET Nat]

Defaults ==
  [format |-> "ms", collectStatistics |-> TRUE, saveStatistics |-> FALSE,
   flagAutos |-> TRUE, removeFlagged |-> TRUE, removeAutos |-> FALSE,
   rfiDetection |-> TRUE, flagFiles |-> FALSE, cableLength |-> TRUE,
   subbandGains |-> TRUE, instrConfig |-> FALSE,
   userFlagged |-> {}]

(* -o: the extension of the file decides.                                    *)
OutputFile(o, format) ==
  CASE format = "uvfits" -> [o EXCEPT !.format = format, !.flagAutos = FALSE,
                                      !.collectStatistics = o.saveStatistics]
    [] format = "mwaf" -> [o EXCEPT !.format = format, !.removeFlagged = FALSE,
                                    !.collectStatistics = o.saveStatistics]
    [] OTHER -> o

SetOption(o, arg) ==
  CASE arg.param = "o" -> OutputFile(o, arg.format)
    [] arg.param = "noflagautos" -> [o EXCEPT !.flagAutos = FALSE]
    [] arg.param = "norfi" -> [o EXCEPT !.rfiDetection = FALSE]
    [] arg.param = "nostats" -> [o EXCEPT !.collectStatistics = FALSE]
    [] arg.param = "noantennapruning" -> [o EXCEPT !.removeFlagged = FALSE]
    [] arg.param = "noautos" -> [o EXCEPT !.removeAutos = TRUE]
    [] arg.param = "nocablelength" -> [o EXCEPT !.cableLength = FALSE]
    [] arg.param = "nosbgains" -> [o EXCEPT !.subbandGains = FALSE]
    [] arg.param = "i" -> [o EXCEPT !.instrConfig = TRUE]
    [] arg.param = "flagantenna" -> [o EXCEPT !.userFlagged = @ \union arg.antennae]
    [] arg.param = "flagfiles" -> [o EXCEPT !.rfiDetection = FALSE, !.flagFiles = TRUE]
    [] arg.param = "saveqs" -> [o EXCEPT !.collectStatistics = TRUE, !.saveStatistics = TRUE]
    [] OTHER -> o

Options(args) == FoldLeft(SetOption, Defaults, args)

(* Cotter refuses to write a flag file with baselines left out. *)
Refused(o) == o.format = "mwaf" /\ (o.removeFlagged \/ o.removeAutos)
=============================================================================
