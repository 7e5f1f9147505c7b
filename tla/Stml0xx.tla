------------------------------- MODULE Stml0xx --------------------------------
(***************************************************************************)
(* The tool that brings the sensor hub up (sensors/STML0XX/stml0xx.cpp).    *)
(* "boot" flashes the firmware of the file system when the hub has an older *)
(* one, flashes it again when the hub does not come up, and resets the hub; *)
(* "bootfactory" flashes the factory firmware.  The tool is started again   *)
(* with the device, which may lose power at any step.                      *)
(*                                                                         *)
(* Each call to the driver is a step and may fail, and then leaves the hub  *)
(* as it is.  The hub is external: it comes up, after some time, from a     *)
(* whole image that is not bad, and has a version only while it is up.     *)
(***************************************************************************)
EXTENDS Integers

CONSTANTS
    STM_DOWNLOADRETRIES,
    STM_MAX_BOOT_CHECK_RETRIES,
    Packets         \* the packets of an image

ASSUME Stml0xxAssumption ==
    /\ STM_DOWNLOADRETRIES \in Nat \ {0}
    /\ STM_MAX_BOOT_CHECK_RETRIES \in Nat \ {0}
    /\ Packets \in Nat \ {0}

VARIABLES
    files,          \* external: the files that are there, and which may be bad
    command,        \* of the last start
    versioncheck,   \* no -f was given
    emode,
    step,           \* the call that main() makes next; off: it does not run
    position,       \* packets read from the file
    download_retries,
    boot_check_retries,
    sensorhubBooted,
    ret,            \* 0 or -1
    mcu,            \* external: its mode, the image in its flash, whether it is up
    clean           \* history: no call failed since the start

startVars == <<files, command, versioncheck>>
retryVars == <<download_retries, boot_check_retries, sensorhubBooted>>
stmVars == <<startVars, emode, step, position, retryVars, ret, mcu, clean>>

ModeOf == [boot |-> "BOOTLOADER", bootfactory |-> "BOOTFACTORY", erase |-> "ERASE",
           normal |-> "NORMAL", factory |-> "FACTORY", tboot |-> "TBOOT"]

(* The image in the file that the command flashes                          *)
Image == IF command = "boot" THEN "new" ELSE "factory"

Whole(h) == h.packets = Packets

StmInit ==
    /\ files \in SUBSET {"new", "factory", "version", "bad"}
    /\ command = "boot" /\ versioncheck = TRUE /\ emode = "BOOTLOADER" /\ step = "off"
    /\ position = 0
    /\ download_retries = 0 /\ boot_check_retries = 0 /\ sensorhubBooted = FALSE
    /\ ret = -1
    /\ mcu \in [mode : {"normal"}, image : {"old", "newer"}, packets : {Packets}, up : {FALSE}]
    /\ clean = TRUE

-----------------------------------------------------------------------------
(* The hub                                                                 *)

HubComesUp ==
    /\ mcu.mode # "bootloader" /\ Whole(mcu) /\ ~mcu.up
    /\ "bad" \in files => mcu.image # "new"
    /\ mcu' = [mcu EXCEPT !.up = TRUE]
    /\ UNCHANGED <<startVars, emode, step, position, retryVars, ret, clean>>

Into(mode) == [mcu EXCEPT !.mode = mode, !.up = FALSE]
Erased == [mcu EXCEPT !.packets = 0]
Flashed == [mcu EXCEPT !.packets = IF Whole(mcu) THEN @ ELSE @ + 1, !.image = Image]

-----------------------------------------------------------------------------
(* A call that leaves the hub as h; next, failed: the step that follows    *)
Calls(h, next, failed) ==
    \/ mcu' = h /\ ret' = 0 /\ step' = next /\ UNCHANGED clean
    \/ mcu' = mcu /\ ret' = -1 /\ step' = failed /\ clean' = FALSE

StartTool ==
    /\ step = "off"
    /\ command' \in DOMAIN ModeOf /\ versioncheck' \in BOOLEAN
    /\ emode' = ModeOf[command']
    /\ position' = 0 /\ sensorhubBooted' = FALSE
    /\ download_retries' = 0 /\ boot_check_retries' = 0
    /\ clean' = TRUE /\ ret' = 0 /\ step' = "open"
    /\ UNCHANGED <<files, mcu>>

OpenDriver ==
    /\ step = "open"
    /\ Calls(mcu, IF command \in {"boot", "bootfactory"} THEN "version" ELSE "mode", "off")
    /\ UNCHANGED <<startVars, emode, position, retryVars>>

(* The version in the file system is that of "new".  A missing file, or a  *)
(* hub that has no version to give, counts as a mismatch                   *)
stm_version_check ==
    IF versioncheck /\ "version" \in files /\ mcu.up
    THEN IF mcu.image = "factory" THEN {"match", "mismatch"}
         ELSE IF mcu.image = "old" THEN {"mismatch"} ELSE {"match"}
    ELSE {"mismatch"}

CheckVersion ==
    /\ step = "version"
    /\ \/ /\ Image \in files /\ "mismatch" \in stm_version_check
          /\ step' = "bootloader" /\ UNCHANGED emode
       \/ /\ Image \notin files \/ "match" \in stm_version_check
          /\ step' = "mode"
          /\ emode' = IF emode = "BOOTLOADER" THEN "NORMAL" ELSE "FACTORY"
    /\ UNCHANGED <<startVars, position, retryVars, ret, mcu, clean>>

(* stm_downloadFirmware(): any call that fails ends it                     *)
Bootloader ==
    /\ step = "bootloader"
    /\ Calls(Into("bootloader"), "erase", "retry")
    /\ UNCHANGED <<startVars, emode, position, retryVars>>

MassErase ==
    /\ step = "erase"
    /\ Calls(Erased, "address", "retry")
    /\ UNCHANGED <<startVars, emode, position, retryVars>>

SetStartAddr ==
    /\ step = "address"
    /\ Calls(mcu, "write", "retry")
    /\ UNCHANGED <<startVars, emode, position, retryVars>>

stm_getpacket ==
    /\ step = "write" /\ position < Packets
    /\ Calls(Flashed, "write", "retry")
    /\ position' = position + 1
    /\ UNCHANGED <<startVars, emode, retryVars>>

Downloaded ==
    /\ step = "write" /\ position = Packets
    /\ \/ emode = "BOOTLOADER" /\ step' = "reset" /\ UNCHANGED emode
       \/ emode # "BOOTLOADER" /\ step' = "booted" /\ emode' = "FACTORY"
    /\ UNCHANGED <<startVars, position, retryVars, ret, mcu, clean>>

ResetHub ==
    /\ step = "reset"
    /\ Calls(Into("normal"), "wait", "wait")
    /\ boot_check_retries' = 0 /\ sensorhubBooted' = FALSE
    /\ UNCHANGED <<startVars, emode, position, download_retries>>

GetBooted ==
    /\ step = "wait"
    /\ IF boot_check_retries < STM_MAX_BOOT_CHECK_RETRIES /\ ~sensorhubBooted
       THEN /\ boot_check_retries' = boot_check_retries + 1
            /\ Calls(mcu, "wait", "wait")
            /\ sensorhubBooted' = (ret' = 0 /\ mcu.up)
       ELSE /\ step' = "booted"
            /\ UNCHANGED <<boot_check_retries, sensorhubBooted, ret, mcu, clean>>
    /\ UNCHANGED <<startVars, emode, position, download_retries>>

(* A hub that came up has its version looked at, for the log only          *)
Booted ==
    /\ step = "booted"
    /\ step' = IF sensorhubBooted THEN "mode" ELSE "retry"
    /\ UNCHANGED <<startVars, emode, position, retryVars, ret, mcu, clean>>

RetryFromHere ==
    /\ step = "retry"
    /\ download_retries' = download_retries + 1
    /\ step' = IF download_retries' < STM_DOWNLOADRETRIES THEN "bootloader" ELSE "failed"
    /\ UNCHANGED <<startVars, emode, position, boot_check_retries, sensorhubBooted, ret,
                   mcu, clean>>

RetryUncounted ==
    /\ step = "retry"
    /\ position' = 0 /\ step' = "bootloader"
    /\ UNCHANGED <<startVars, emode, retryVars, ret, mcu, clean>>

(* The file is read from its beginning again                               *)
Retry ==
    /\ step = "retry"
    /\ download_retries' = download_retries + 1
    /\ IF download_retries' < STM_DOWNLOADRETRIES
       THEN position' = 0 /\ step' = "bootloader"
       ELSE step' = "failed" /\ UNCHANGED position
    /\ UNCHANGED <<startVars, emode, boot_check_retries, sensorhubBooted, ret, mcu, clean>>

(* The result of the reset is not looked at                                *)
DownloadFailed ==
    /\ step = "failed"
    /\ ret' = -1 /\ step' = "mode"
    /\ \/ mcu' = Into("normal") /\ UNCHANGED clean
       \/ clean' = FALSE /\ UNCHANGED mcu
    /\ UNCHANGED <<startVars, emode, position, retryVars>>

(* What follows for each mode                                              *)
EraseMode ==
    /\ step = "mode" /\ emode = "ERASE"
    /\ Calls(Into("bootloader"), "flash", "off")
    /\ UNCHANGED <<startVars, emode, position, retryVars>>

EraseFlash ==
    /\ step = "flash"
    /\ Calls(Erased, "off", "off")
    /\ UNCHANGED <<startVars, emode, position, retryVars>>

(* No call follows a boot or a bootfactory that kept its mode              *)
LastCall ==
    /\ step = "mode" /\ emode # "ERASE"
    /\ IF emode \in {"BOOTLOADER", "BOOTFACTORY"}
       THEN step' = "off" /\ UNCHANGED <<ret, mcu, clean>>
       ELSE Calls(Into(CASE emode = "NORMAL" -> "normal" [] emode = "FACTORY" -> "factory"
                         [] OTHER -> "bootloader"), "off", "off")
    /\ UNCHANGED <<startVars, emode, position, retryVars>>

(* The device starts again                                                 *)
PowerLoss ==
    /\ step # "off"
    /\ step' = "off" /\ ret' = -1 /\ clean' = FALSE
    /\ mcu' = Into("normal")
    /\ UNCHANGED <<startVars, emode, position, retryVars>>

ToolCall ==
    \/ OpenDriver \/ CheckVersion \/ Bootloader \/ MassErase \/ SetStartAddr
    \/ stm_getpacket \/ Downloaded \/ ResetHub \/ GetBooted \/ Booted \/ Retry
    \/ DownloadFailed \/ EraseMode \/ EraseFlash \/ LastCall

StmNext == HubComesUp \/ StartTool \/ ToolCall \/ PowerLoss

StmSpec == StmInit /\ [][StmNext]_stmVars

-----------------------------------------------------------------------------
StmTypeOK ==
    /\ emode \in {ModeOf[c] : c \in DOMAIN ModeOf}
    /\ position \in 0 .. Packets /\ ret \in {0, -1}
    /\ download_retries \in 0 .. STM_DOWNLOADRETRIES
    /\ boot_check_retries \in 0 .. STM_MAX_BOOT_CHECK_RETRIES
    /\ mcu.packets \in 0 .. Packets

(* Whatever state an earlier run left the hub in, losing power while it    *)
(* was flashed included: a "boot" that has its firmware and meets no        *)
(* failure of its own leaves a whole image and the hub out of the          *)
(* bootloader, a "bootfactory" leaves it in factory mode, and a "boot" that *)
(* says it flashed the hub left a firmware that came up                    *)
HubRecovers ==
    StmTypeOK /\ (step = "off" =>
        /\ clean /\ command = "boot" /\ "new" \in files =>
              Whole(mcu) /\ mcu.mode = "normal"
        /\ clean /\ command = "bootfactory" /\ "factory" \in files =>
              Whole(mcu) /\ mcu.mode = "factory"
        /\ command = "boot" /\ emode = "BOOTLOADER" /\ ret = 0 =>
              Whole(mcu) /\ mcu.up)

(* However often the driver fails and the hub does not come up, the tool    *)
(* ends                                                                    *)
ToolEnds == step # "off" ~> step = "off"
=============================================================================
