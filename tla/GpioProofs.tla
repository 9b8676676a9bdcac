----------------------------- MODULE GpioProofs -----------------------------
(***************************************************************************)
(* The properties of Gpio, for any number of pins.  None is inductive.     *)
(* Each is about the end of a poll or of a run, and holds because of what  *)
(* each turn of each loop leaves behind.  Inv says that, pin by pin: a     *)
(* loop has been at the pins before i and will be at the others.           *)
(***************************************************************************)
EXTENDS Gpio, TLAPS

USE NPinsAssumption

\* What a run knows of its pins while it takes them: the pins before i are
\* exported, and none has been touched otherwise; later it has them all.
Taking ==
  /\ phase \in {"export", "open"} =>
       mapped /\ \A p \in Pins : did[p] \in {"nothing", "exported"}
  /\ phase = "export" => \A p \in Pins : p < i => p \in exported /\ did[p] # "nothing"
  /\ mapped /\ (phase = "open" \/ Running) =>
       exported = Pins /\ \A p \in Pins : did[p] # "nothing"

\* What is exported at each moment, as long as nothing has failed.
Unspoiled ==
  ~ spoiled =>
    /\ phase = "idle" => exported = {}
    /\ phase = "export" => exported = {p \in Pins : p < i}
    /\ phase = "unexport" /\ mapped => exported = {p \in Pins : i <= p}
    /\ phase # "idle" /\ ~ mapped => exported = {}

\* The mirrors are the cells once their loops are through.
MirrorsFollow ==
  /\ mapped /\ phase \in {"direction", "read"} => oldOut = out
  /\ mapped /\ phase = "read" => oldDirs = dirs

Touched(p) == mapped /\ did[p] \in {"turned", "driven"}
Is(p, A, B) == (p \in A) = (p \in B)

\* The direction of a pin that the run has touched, on both sides of the loop
\* that carries it over.
DirectionOf(p) ==
  Touched(p) =>
    /\ phase \in {"program", "read"} => Is(p, outputs, dirs) /\ Is(p, outputs, oldDirs)
    /\ phase = "output" \/ (phase = "direction" /\ i <= p) =>
         Is(p, outputs, dirs) \/ Is(p, outputs, oldDirs)
    /\ phase = "direction" /\ p < i => Is(p, outputs, dirs)

\* The level of such a pin.  Between the loops it may differ from its bit, if
\* the pin is about to become an input.
LevelOf(p) ==
  Touched(p) /\ p \in outputs =>
    /\ Running /\ did[p] = "turned" => p \notin high
    /\ did[p] = "driven" =>
         /\ phase \in {"program", "read"} => Is(p, high, out) /\ Is(p, high, oldOut)
         /\ phase = "output" /\ i <= p => Is(p, high, oldOut)
         /\ (phase = "output" /\ p < i) \/ (phase = "direction" /\ i <= p) =>
              Is(p, high, out) \/ (p \in oldDirs /\ p \notin dirs)
         /\ phase = "direction" /\ p < i => Is(p, high, out)

Inv == /\ TypeOK /\ Taking /\ Unspoiled /\ MirrorsFollow
       /\ \A p \in Pins : DirectionOf(p) /\ LevelOf(p)

------------------------------------------------------------------------------
\* The loops stay among the pins: a turn goes to the next pin, or from the
\* last one to another phase.
LEMMA NextPinCases ==
  ASSUME i \in Pins, NEW to, NextPin(to)
  PROVE  /\ i' \in Pins
         /\ \/ i = NPins - 1 /\ i' = 0 /\ phase' = to
            \/ i < NPins - 1 /\ i' = i + 1 /\ phase' = phase
  BY DEF NextPin, Goes, Pins

LEMMA FirstPin == 0 \in Pins
  BY DEF Pins

------------------------------------------------------------------------------
\* Each action keeps the type invariant; a pin is turned only when it is
\* exported.
LEMMA TypeKept ==
  ASSUME TypeOK, Taking, [Next]_vars
  PROVE  TypeOK'
<1> USE DEF TypeOK, Phases, Loops
<1>1. CASE Start
  BY <1>1, FirstPin DEF Start, Goes, kernel
<1>2. CASE StartUnmapped
  BY <1>2, FirstPin DEF StartUnmapped, Goes, kernel
<1>3. CASE ExportPin
  <2>1. NextPin("open")
    BY <1>3 DEF ExportPin
  <2> QED BY <1>3, <2>1, NextPinCases DEF ExportPin, Export, cells, mirror
<1>4. CASE ExportFails
  BY <1>4, FirstPin DEF ExportFails, Goes, Fails, kernel, cells, mirror
<1>5. CASE OpenPin
  <2>1. NextPin("program")
    BY <1>5 DEF OpenPin
  <2> QED BY <1>5, <2>1, NextPinCases DEF OpenPin, kernel, cells, mirror
<1>6. CASE OpenFails
  BY <1>6, FirstPin DEF OpenFails, Goes, Fails, kernel, cells, mirror
<1>7. CASE Instruction
  BY <1>7, FirstPin DEF Instruction, Goes, kernel, mirror
<1>8. CASE ProgramEnds
  BY <1>8, FirstPin DEF ProgramEnds, Goes, kernel, cells, mirror
<1>9. CASE SkipOutput
  <2>1. NextPin("direction")
    BY <1>9 DEF SkipOutput, EndOutput
  <2> QED BY <1>9, <2>1, NextPinCases DEF SkipOutput, EndOutput, Changed, kernel, cells
<1>10. CASE DrivePin
  <2>1. NextPin("direction")
    BY <1>10 DEF DrivePin, EndOutput
  <2> QED BY <1>10, <2>1, NextPinCases DEF DrivePin, Drive, EndOutput, Changed, kernel, cells
<1>11. CASE DriveFails
  BY <1>11, FirstPin DEF DriveFails, Goes, Changed, kernel, cells, mirror
<1>12. CASE SkipDirection
  <2>1. NextPin("read")
    BY <1>12 DEF SkipDirection, EndDirection
  <2> QED BY <1>12, <2>1, NextPinCases DEF SkipDirection, EndDirection, Changed, kernel, cells
<1>13. CASE TurnPin
  <2>1. NextPin("read")
    BY <1>13 DEF TurnPin, EndDirection
  <2>2. outputs' \subseteq exported' /\ high' \subseteq outputs'
    <3>1. CASE i \in dirs
      BY <1>13, <3>1 DEF TurnPin, Turn, Taking, Running
    <3>2. CASE i \notin dirs
      BY <1>13, <3>2 DEF TurnPin, Turn
    <3> QED BY <3>1, <3>2
  <2> QED BY <1>13, <2>1, <2>2, NextPinCases DEF TurnPin, Turn, EndDirection, cells
<1>14. CASE TurnFails
  BY <1>14, FirstPin DEF TurnFails, Goes, Changed, kernel, cells, mirror
<1>15. CASE ReadPins
  BY <1>15, FirstPin DEF ReadPins, Goes, kernel, cells, mirror
<1>16. CASE UnexportPin
  <2>1. NextPin("idle")
    BY <1>16 DEF UnexportPin
  <2> QED BY <1>16, <2>1, NextPinCases DEF UnexportPin, Unexport, cells, mirror
<1>17. CASE UnexportFails
  BY <1>17, FirstPin DEF UnexportFails, Goes, Fails, kernel, cells, mirror
<1>18. CASE Kill
  BY <1>18, FirstPin DEF Kill, Goes, Fails, kernel, cells, mirror
<1>19. CASE UNCHANGED vars
  BY <1>19 DEF vars, kernel, cells, mirror
<1> QED BY <1>1, <1>2, <1>3, <1>4, <1>5, <1>6, <1>7, <1>8, <1>9, <1>10,
           <1>11, <1>12, <1>13, <1>14, <1>15, <1>16, <1>17, <1>18, <1>19 DEF Next

------------------------------------------------------------------------------
\* The pins a run takes are its own from the start to the end.
LEMMA TakingKept ==
  ASSUME TypeOK, Taking, [Next]_vars
  PROVE  Taking'
<1> USE DEF TypeOK, Taking, Running, Pins
<1>1. CASE Start
  BY <1>1, FirstPin DEF Start, Goes, kernel
<1>2. CASE StartUnmapped
  BY <1>2, FirstPin DEF StartUnmapped, Goes, kernel
<1>3. CASE ExportPin
  <2>1. NextPin("open")
    BY <1>3 DEF ExportPin
  <2>2. exported' = exported \cup {i} /\ did' = [did EXCEPT ![i] = "exported"] /\ mapped' = mapped
    BY <1>3 DEF ExportPin, Export
  <2>3. \A p \in Pins : p <= i => p \in exported' /\ did'[p] # "nothing"
    BY <1>3, <2>2 DEF ExportPin
  <2>4. CASE i = NPins - 1 /\ phase' = "open"
    <3>1. exported' = Pins /\ \A p \in Pins : did'[p] # "nothing"
      <4>1. \A p \in Pins : p <= i
        BY <2>4
      <4>2. exported' \subseteq Pins
        BY <2>2
      <4> QED BY <2>3, <4>1, <4>2
    <3> QED BY <1>3, <2>2, <2>4, <3>1 DEF ExportPin
  <2>5. CASE i' = i + 1 /\ phase' = phase
    BY <1>3, <2>2, <2>3, <2>5 DEF ExportPin
  <2> QED BY <2>1, <2>4, <2>5, NextPinCases
<1>4. CASE ExportFails
  BY <1>4, FirstPin DEF ExportFails, Goes, Fails, kernel, cells, mirror
<1>5. CASE OpenPin
  <2>1. NextPin("program")
    BY <1>5 DEF OpenPin
  <2> QED BY <1>5, <2>1, NextPinCases DEF OpenPin, kernel, cells, mirror
<1>6. CASE OpenFails
  BY <1>6, FirstPin DEF OpenFails, Goes, Fails, kernel, cells, mirror
<1>7. CASE Instruction
  BY <1>7, FirstPin DEF Instruction, Goes, kernel, mirror
<1>8. CASE ProgramEnds
  BY <1>8, FirstPin DEF ProgramEnds, Goes, kernel, cells, mirror
<1>9. CASE SkipOutput
  <2>1. NextPin("direction")
    BY <1>9 DEF SkipOutput, EndOutput
  <2> QED BY <1>9, <2>1, NextPinCases DEF SkipOutput, EndOutput, Changed, kernel, cells
<1>10. CASE DrivePin
  <2>1. NextPin("direction")
    BY <1>10 DEF DrivePin, EndOutput
  <2> QED BY <1>10, <2>1, NextPinCases DEF DrivePin, Drive, EndOutput, Changed, kernel, cells
<1>11. CASE DriveFails
  BY <1>11, FirstPin DEF DriveFails, Goes, Changed, kernel, cells, mirror
<1>12. CASE SkipDirection
  <2>1. NextPin("read")
    BY <1>12 DEF SkipDirection, EndDirection
  <2> QED BY <1>12, <2>1, NextPinCases DEF SkipDirection, EndDirection, Changed, kernel, cells
<1>13. CASE TurnPin
  <2>1. NextPin("read")
    BY <1>13 DEF TurnPin, EndDirection
  <2> QED BY <1>13, <2>1, NextPinCases DEF TurnPin, Turn, EndDirection, Changed, cells
<1>14. CASE TurnFails
  BY <1>14, FirstPin DEF TurnFails, Goes, Changed, kernel, cells, mirror
<1>15. CASE ReadPins
  BY <1>15, FirstPin DEF ReadPins, Goes, kernel, cells, mirror
<1>16. CASE UnexportPin
  <2>1. NextPin("idle")
    BY <1>16 DEF UnexportPin
  <2> QED BY <1>16, <2>1, NextPinCases DEF UnexportPin, Unexport, cells, mirror
<1>17. CASE UnexportFails
  BY <1>17, FirstPin DEF UnexportFails, Goes, Fails, kernel, cells, mirror
<1>18. CASE Kill
  BY <1>18, FirstPin DEF Kill, Goes, Fails, kernel, cells, mirror
<1>19. CASE UNCHANGED vars
  BY <1>19 DEF vars, kernel, cells, mirror
<1> QED BY <1>1, <1>2, <1>3, <1>4, <1>5, <1>6, <1>7, <1>8, <1>9, <1>10,
           <1>11, <1>12, <1>13, <1>14, <1>15, <1>16, <1>17, <1>18, <1>19 DEF Next

------------------------------------------------------------------------------
\* What has been exported is given back, in the same order.
LEMMA UnspoiledKept ==
  ASSUME TypeOK, Taking, Unspoiled, [Next]_vars
  PROVE  Unspoiled'
<1> USE DEF TypeOK, Taking, Unspoiled, Running, Pins
<1>1. CASE Start
  <2>1. ~ spoiled => exported' = {}
    BY <1>1 DEF Start, kernel
  <2>2. {p \in Pins : p < 0} = {}
    OBVIOUS
  <2>3. phase' = "export" /\ i' = 0 /\ spoiled' = spoiled /\ mapped' = TRUE
    BY <1>1 DEF Start, Goes
  <2> QED BY <2>1, <2>2, <2>3
<1>2. CASE StartUnmapped
  BY <1>2, FirstPin DEF StartUnmapped, Goes, kernel
<1>3. CASE ExportPin
  <2>1. NextPin("open")
    BY <1>3 DEF ExportPin
  <2> QED BY <1>3, <2>1, NextPinCases DEF ExportPin, Export, cells, mirror
<1>4. CASE ExportFails
  BY <1>4, FirstPin DEF ExportFails, Goes, Fails, kernel, cells, mirror
<1>5. CASE OpenPin
  <2>1. NextPin("program")
    BY <1>5 DEF OpenPin
  <2> QED BY <1>5, <2>1, NextPinCases DEF OpenPin, kernel, cells, mirror
<1>6. CASE OpenFails
  BY <1>6, FirstPin DEF OpenFails, Goes, Fails, kernel, cells, mirror
<1>7. CASE Instruction
  BY <1>7, FirstPin DEF Instruction, Goes, kernel, mirror
<1>8. CASE ProgramEnds
  BY <1>8, FirstPin DEF ProgramEnds, Goes, kernel, cells, mirror
<1>9. CASE SkipOutput
  <2>1. NextPin("direction")
    BY <1>9 DEF SkipOutput, EndOutput
  <2> QED BY <1>9, <2>1, NextPinCases DEF SkipOutput, EndOutput, Changed, kernel, cells
<1>10. CASE DrivePin
  <2>1. NextPin("direction")
    BY <1>10 DEF DrivePin, EndOutput
  <2>2. exported' = exported /\ spoiled' = spoiled /\ mapped' = mapped
    BY <1>10 DEF DrivePin, Drive, kernel
  <2>3. phase = "output" /\ phase' \in {"output", "direction"}
    BY <1>10, <2>1, NextPinCases DEF DrivePin
  <2> QED BY <2>2, <2>3
<1>11. CASE DriveFails
  BY <1>11, FirstPin DEF DriveFails, Goes, Changed, kernel, cells, mirror
<1>12. CASE SkipDirection
  <2>1. NextPin("read")
    BY <1>12 DEF SkipDirection, EndDirection
  <2> QED BY <1>12, <2>1, NextPinCases DEF SkipDirection, EndDirection, Changed, kernel, cells
<1>13. CASE TurnPin
  <2>1. NextPin("read")
    BY <1>13 DEF TurnPin, EndDirection
  <2> QED BY <1>13, <2>1, NextPinCases DEF TurnPin, Turn, EndDirection, Changed, cells
<1>14. CASE TurnFails
  BY <1>14, FirstPin DEF TurnFails, Goes, Changed, kernel, cells, mirror
<1>15. CASE ReadPins
  BY <1>15, FirstPin DEF ReadPins, Goes, kernel, cells, mirror
<1>16. CASE UnexportPin
  <2>1. NextPin("idle")
    BY <1>16 DEF UnexportPin
  <2> QED BY <1>16, <2>1, NextPinCases DEF UnexportPin, Unexport, cells, mirror
<1>17. CASE UnexportFails
  BY <1>17, FirstPin DEF UnexportFails, Goes, Fails, kernel, cells, mirror
<1>18. CASE Kill
  BY <1>18, FirstPin DEF Kill, Goes, Fails, kernel, cells, mirror
<1>19. CASE UNCHANGED vars
  BY <1>19 DEF vars, kernel, cells, mirror
<1> QED BY <1>1, <1>2, <1>3, <1>4, <1>5, <1>6, <1>7, <1>8, <1>9, <1>10,
           <1>11, <1>12, <1>13, <1>14, <1>15, <1>16, <1>17, <1>18, <1>19 DEF Next

------------------------------------------------------------------------------
\* A mirror is the cell when its loop is through.
LEMMA MirrorsKept ==
  ASSUME TypeOK, MirrorsFollow, [Next]_vars
  PROVE  MirrorsFollow'
<1> USE DEF TypeOK, MirrorsFollow
<1>1. CASE Start
  BY <1>1, FirstPin DEF Start, Goes, kernel
<1>2. CASE StartUnmapped
  BY <1>2, FirstPin DEF StartUnmapped, Goes, kernel
<1>3. CASE ExportPin
  <2>1. NextPin("open")
    BY <1>3 DEF ExportPin
  <2> QED BY <1>3, <2>1, NextPinCases DEF ExportPin, Export, cells, mirror
<1>4. CASE ExportFails
  BY <1>4, FirstPin DEF ExportFails, Goes, Fails, kernel, cells, mirror
<1>5. CASE OpenPin
  <2>1. NextPin("program")
    BY <1>5 DEF OpenPin
  <2> QED BY <1>5, <2>1, NextPinCases DEF OpenPin, kernel, cells, mirror
<1>6. CASE OpenFails
  BY <1>6, FirstPin DEF OpenFails, Goes, Fails, kernel, cells, mirror
<1>7. CASE Instruction
  BY <1>7, FirstPin DEF Instruction, Goes, kernel, mirror
<1>8. CASE ProgramEnds
  BY <1>8, FirstPin DEF ProgramEnds, Goes, kernel, cells, mirror
<1>9. CASE SkipOutput
  <2>1. NextPin("direction")
    BY <1>9 DEF SkipOutput, EndOutput
  <2> QED BY <1>9, <2>1, NextPinCases DEF SkipOutput, EndOutput, Changed, kernel, cells
<1>10. CASE DrivePin
  <2>1. NextPin("direction")
    BY <1>10 DEF DrivePin, EndOutput
  <2> QED BY <1>10, <2>1, NextPinCases DEF DrivePin, Drive, EndOutput, Changed, kernel, cells
<1>11. CASE DriveFails
  BY <1>11, FirstPin DEF DriveFails, Goes, Changed, kernel, cells, mirror
<1>12. CASE SkipDirection
  <2>1. NextPin("read")
    BY <1>12 DEF SkipDirection, EndDirection
  <2> QED BY <1>12, <2>1, NextPinCases DEF SkipDirection, EndDirection, Changed, kernel, cells
<1>13. CASE TurnPin
  <2>1. NextPin("read")
    BY <1>13 DEF TurnPin, EndDirection
  <2> QED BY <1>13, <2>1, NextPinCases DEF TurnPin, Turn, EndDirection, Changed, cells
<1>14. CASE TurnFails
  BY <1>14, FirstPin DEF TurnFails, Goes, Changed, kernel, cells, mirror
<1>15. CASE ReadPins
  BY <1>15, FirstPin DEF ReadPins, Goes, kernel, cells, mirror
<1>16. CASE UnexportPin
  <2>1. NextPin("idle")
    BY <1>16 DEF UnexportPin
  <2> QED BY <1>16, <2>1, NextPinCases DEF UnexportPin, Unexport, cells, mirror
<1>17. CASE UnexportFails
  BY <1>17, FirstPin DEF UnexportFails, Goes, Fails, kernel, cells, mirror
<1>18. CASE Kill
  BY <1>18, FirstPin DEF Kill, Goes, Fails, kernel, cells, mirror
<1>19. CASE UNCHANGED vars
  BY <1>19 DEF vars, kernel, cells, mirror
<1> QED BY <1>1, <1>2, <1>3, <1>4, <1>5, <1>6, <1>7, <1>8, <1>9, <1>10,
           <1>11, <1>12, <1>13, <1>14, <1>15, <1>16, <1>17, <1>18, <1>19 DEF Next

------------------------------------------------------------------------------
\* The direction of one pin, whatever pin a loop is at.
LEMMA DirectionKept ==
  ASSUME TypeOK, Taking, MirrorsFollow, NEW p \in Pins, DirectionOf(p), [Next]_vars
  PROVE  DirectionOf(p)'
<1> USE DEF TypeOK, Taking, MirrorsFollow, DirectionOf, Touched, Is, Running, Pins
<1>1. CASE Start
  BY <1>1, FirstPin DEF Start, Goes, kernel
<1>2. CASE StartUnmapped
  BY <1>2, FirstPin DEF StartUnmapped, Goes, kernel
<1>3. CASE ExportPin
  <2>1. NextPin("open")
    BY <1>3 DEF ExportPin
  <2> QED BY <1>3, <2>1, NextPinCases DEF ExportPin, Export, cells, mirror
<1>4. CASE ExportFails
  BY <1>4, FirstPin DEF ExportFails, Goes, Fails, kernel, cells, mirror
<1>5. CASE OpenPin
  <2>1. NextPin("program")
    BY <1>5 DEF OpenPin
  <2> QED BY <1>5, <2>1, NextPinCases DEF OpenPin, kernel, cells, mirror
<1>6. CASE OpenFails
  BY <1>6, FirstPin DEF OpenFails, Goes, Fails, kernel, cells, mirror
<1>7. CASE Instruction
  BY <1>7, FirstPin DEF Instruction, Goes, kernel, mirror
<1>8. CASE ProgramEnds
  BY <1>8, FirstPin DEF ProgramEnds, Goes, kernel, cells, mirror
<1>9. CASE SkipOutput
  <2>1. NextPin("direction")
    BY <1>9 DEF SkipOutput, EndOutput
  <2> QED BY <1>9, <2>1, NextPinCases DEF SkipOutput, EndOutput, Changed, kernel, cells
<1>10. CASE DrivePin
  <2>1. NextPin("direction")
    BY <1>10 DEF DrivePin, EndOutput
  <2> QED BY <1>10, <2>1, NextPinCases DEF DrivePin, Drive, EndOutput, Changed, kernel, cells
<1>11. CASE DriveFails
  BY <1>11, FirstPin DEF DriveFails, Goes, Changed, kernel, cells, mirror
<1>12. CASE SkipDirection
  <2>1. NextPin("read")
    BY <1>12 DEF SkipDirection, EndDirection
  <2> QED BY <1>12, <2>1, NextPinCases DEF SkipDirection, EndDirection, Changed, kernel, cells
<1>13. CASE TurnPin
  <2>1. NextPin("read")
    BY <1>13 DEF TurnPin, EndDirection
  <2> QED BY <1>13, <2>1, NextPinCases DEF TurnPin, Turn, EndDirection, Changed, cells
<1>14. CASE TurnFails
  BY <1>14, FirstPin DEF TurnFails, Goes, Changed, kernel, cells, mirror
<1>15. CASE ReadPins
  BY <1>15, FirstPin DEF ReadPins, Goes, kernel, cells, mirror
<1>16. CASE UnexportPin
  <2>1. NextPin("idle")
    BY <1>16 DEF UnexportPin
  <2> QED BY <1>16, <2>1, NextPinCases DEF UnexportPin, Unexport, cells, mirror
<1>17. CASE UnexportFails
  BY <1>17, FirstPin DEF UnexportFails, Goes, Fails, kernel, cells, mirror
<1>18. CASE Kill
  BY <1>18, FirstPin DEF Kill, Goes, Fails, kernel, cells, mirror
<1>19. CASE UNCHANGED vars
  BY <1>19 DEF vars, kernel, cells, mirror
<1> QED BY <1>1, <1>2, <1>3, <1>4, <1>5, <1>6, <1>7, <1>8, <1>9, <1>10,
           <1>11, <1>12, <1>13, <1>14, <1>15, <1>16, <1>17, <1>18, <1>19 DEF Next

------------------------------------------------------------------------------
\* And its level.
LEMMA LevelKept ==
  ASSUME TypeOK, Taking, MirrorsFollow, NEW p \in Pins, DirectionOf(p), LevelOf(p), [Next]_vars
  PROVE  LevelOf(p)'
<1> USE DEF TypeOK, Taking, MirrorsFollow, DirectionOf, LevelOf, Touched, Is, Running, Pins
<1>1. CASE Start
  BY <1>1, FirstPin DEF Start, Goes, kernel
<1>2. CASE StartUnmapped
  BY <1>2, FirstPin DEF StartUnmapped, Goes, kernel
<1>3. CASE ExportPin
  <2>1. NextPin("open")
    BY <1>3 DEF ExportPin
  <2> QED BY <1>3, <2>1, NextPinCases DEF ExportPin, Export, cells, mirror
<1>4. CASE ExportFails
  BY <1>4, FirstPin DEF ExportFails, Goes, Fails, kernel, cells, mirror
<1>5. CASE OpenPin
  <2>1. NextPin("program")
    BY <1>5 DEF OpenPin
  <2> QED BY <1>5, <2>1, NextPinCases DEF OpenPin, kernel, cells, mirror
<1>6. CASE OpenFails
  BY <1>6, FirstPin DEF OpenFails, Goes, Fails, kernel, cells, mirror
<1>7. CASE Instruction
  BY <1>7, FirstPin DEF Instruction, Goes, kernel, mirror
<1>8. CASE ProgramEnds
  BY <1>8, FirstPin DEF ProgramEnds, Goes, kernel, cells, mirror
<1>9. CASE SkipOutput
  <2>1. NextPin("direction")
    BY <1>9 DEF SkipOutput, EndOutput
  <2> QED BY <1>9, <2>1, NextPinCases DEF SkipOutput, EndOutput, Changed, kernel, cells
<1>10. CASE DrivePin
  <2>1. NextPin("direction")
    BY <1>10 DEF DrivePin, EndOutput
  <2> QED BY <1>10, <2>1, NextPinCases DEF DrivePin, Drive, EndOutput, Changed, kernel, cells
<1>11. CASE DriveFails
  BY <1>11, FirstPin DEF DriveFails, Goes, Changed, kernel, cells, mirror
<1>12. CASE SkipDirection
  <2>1. NextPin("read")
    BY <1>12 DEF SkipDirection, EndDirection
  <2> QED BY <1>12, <2>1, NextPinCases DEF SkipDirection, EndDirection, Changed, kernel, cells
<1>13. CASE TurnPin
  <2>1. NextPin("read")
    BY <1>13 DEF TurnPin, EndDirection
  <2> QED BY <1>13, <2>1, NextPinCases DEF TurnPin, Turn, EndDirection, Changed, cells
<1>14. CASE TurnFails
  BY <1>14, FirstPin DEF TurnFails, Goes, Changed, kernel, cells, mirror
<1>15. CASE ReadPins
  BY <1>15, FirstPin DEF ReadPins, Goes, kernel, cells, mirror
<1>16. CASE UnexportPin
  <2>1. NextPin("idle")
    BY <1>16 DEF UnexportPin
  <2> QED BY <1>16, <2>1, NextPinCases DEF UnexportPin, Unexport, cells, mirror
<1>17. CASE UnexportFails
  BY <1>17, FirstPin DEF UnexportFails, Goes, Fails, kernel, cells, mirror
<1>18. CASE Kill
  BY <1>18, FirstPin DEF Kill, Goes, Fails, kernel, cells, mirror
<1>19. CASE UNCHANGED vars
  BY <1>19 DEF vars, kernel, cells, mirror
<1> QED BY <1>1, <1>2, <1>3, <1>4, <1>5, <1>6, <1>7, <1>8, <1>9, <1>10,
           <1>11, <1>12, <1>13, <1>14, <1>15, <1>16, <1>17, <1>18, <1>19 DEF Next

------------------------------------------------------------------------------
\* Inv holds from the start: no pin is exported and no run has begun.
LEMMA InvInit == Init => Inv
<1> SUFFICES ASSUME Init PROVE Inv
  OBVIOUS
<1> USE DEF Init
<1>1. TypeOK
  BY FirstPin DEF TypeOK, Phases, Loops
<1>2. Taking /\ Unspoiled /\ MirrorsFollow
  BY DEF Taking, Unspoiled, MirrorsFollow, Running
<1>3. \A p \in Pins : DirectionOf(p) /\ LevelOf(p)
  BY DEF DirectionOf, LevelOf, Touched
<1> QED BY <1>1, <1>2, <1>3 DEF Inv

\* And every step keeps it.
LEMMA InvKept == Inv /\ [Next]_vars => Inv'
<1> SUFFICES ASSUME Inv, [Next]_vars PROVE Inv'
  OBVIOUS
<1> USE DEF Inv
<1>1. TypeOK'
  BY TypeKept
<1>2. Taking' /\ Unspoiled' /\ MirrorsFollow'
  BY TakingKept, UnspoiledKept, MirrorsKept
<1>3. ASSUME NEW p \in Pins PROVE DirectionOf(p)' /\ LevelOf(p)'
  BY DirectionKept, LevelKept
<1> QED BY <1>1, <1>2, <1>3

LEMMA InvHolds == Spec => []Inv
  BY InvInit, InvKept, PTL DEF Spec

------------------------------------------------------------------------------
\* Outputs are exported pins and high pins outputs, and no loop leaves the pins.
THEOREM GpioIsTyped == Spec => []TypeOK
<1>1. Inv => TypeOK
  BY DEF Inv
<1> QED BY <1>1, InvHolds, PTL

\* The pins a program drives are this run's, all of them: no two runs share a
\* pin (pi_gpio.c:70-90).
THEOREM PinsAreOwned == Spec => []OwnPins
<1>1. Inv => OwnPins
  BY DEF Inv, Taking, OwnPins
<1> QED BY <1>1, InvHolds, PTL

\* However a program ends, its pins are given back, unless a system call of
\* export, open or unexport fails or the process is killed (run.c:66-79).
THEOREM ProgramsDoCleanUp == Spec => []ProgramsCleanUp
<1>1. Inv => ProgramsCleanUp
  BY DEF Inv, Unspoiled, ProgramsCleanUp
<1> QED BY <1>1, InvHolds, PTL

\* After each poll, a pin the run has touched has the direction of its bit
\* (display.c:146-161).
THEOREM DirectionsDoFollow == Spec => []DirectionsFollow
<1>1. Inv => DirectionsFollow
  BY DEF Inv, DirectionOf, Touched, Is, DirectionsFollow
<1> QED BY <1>1, InvHolds, PTL

\* After each poll, an output written since it was turned has the level of its
\* bit, and one turned since it was written is low (display.c:129-144).
THEOREM OutputsDoFollow == Spec => []OutputsFollow
<1>1. ASSUME Inv, phase = "program", mapped, NEW p \in outputs
      PROVE  /\ did[p] = "driven" => (p \in high) = (p \in out)
             /\ did[p] = "turned" => p \notin high
  <2>1. p \in Pins /\ LevelOf(p)
    BY <1>1 DEF Inv, TypeOK
  <2> QED BY <1>1, <2>1 DEF LevelOf, Touched, Is, Running
<1>2. Inv => OutputsFollow
  BY <1>1 DEF OutputsFollow
<1> QED BY <1>2, InvHolds, PTL

==============================================================================
