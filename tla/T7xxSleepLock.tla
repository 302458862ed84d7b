---------------------------- MODULE T7xxSleepLock ----------------------------
(***************************************************************************)
(* The deep-sleep lock of t7xx_pci.c: users count themselves in            *)
(* sleep_disable_count, the first of them forbids the device to enter deep *)
(* sleep and wakes it, and all wait for sleep_lock_acquire.                *)
(* Components that use the lock extend this module and put its operations  *)
(* into their own steps.                                                   *)
(***************************************************************************)
EXTENDS Integers

VARIABLES
    resumed,              \* md_pm_state is MTK_PM_RESUMED
    sleep_disable_count,
    sleep_lock_acquire,   \* the completion is done
    sleepDis,             \* T7XX_PCIE_MISC_MAC_SLEEP_DIS
    awake,                \* T7XX_PCIE_RESOURCE_STATUS: the device is not in deep sleep
    dsLock, dsAck         \* H2D_CH_DS_LOCK and D2H_INT_DS_LOCK_ACK are under way

(* What users change, and what the device changes *)
countVars == <<sleep_disable_count, sleep_lock_acquire, sleepDis, dsLock>>
lockVars  == <<resumed, countVars, awake, dsAck>>

LockTypeOK ==
    /\ sleep_disable_count \in Int
    /\ resumed \in BOOLEAN /\ sleep_lock_acquire \in BOOLEAN /\ sleepDis \in BOOLEAN
    /\ awake \in BOOLEAN /\ dsLock \in BOOLEAN /\ dsAck \in BOOLEAN

LockInit ==
    /\ resumed = TRUE
    /\ sleep_disable_count = 0 /\ sleep_lock_acquire = FALSE /\ sleepDis = FALSE
    /\ awake = TRUE /\ dsLock = FALSE /\ dsAck = FALSE

First == resumed /\ sleep_disable_count = 0

(* Faulty variant: the completion of an earlier lock is left as it was *)
DisableSleepStale ==
    /\ sleep_disable_count' = sleep_disable_count + 1
    /\ sleepDis' = (sleepDis \/ First)
    /\ sleep_lock_acquire' = (sleep_lock_acquire \/ ~resumed \/ (First /\ awake))
    /\ dsLock' = (dsLock \/ (First /\ ~awake))

(* The device does not fall asleep between the write of the bit and the      *)
(* reading of the status, so these and complete_all() are one step.          *)
t7xx_pci_disable_sleep ==
    /\ sleep_disable_count' = sleep_disable_count + 1
    /\ sleepDis' = (sleepDis \/ First)
    /\ sleep_lock_acquire' = IF First THEN awake ELSE (sleep_lock_acquire \/ ~resumed)
    /\ dsLock' = (dsLock \/ (First /\ ~awake))

t7xx_pci_enable_sleep ==
    /\ sleep_disable_count' = sleep_disable_count - 1
    /\ sleepDis' = (sleepDis /\ ~(resumed /\ sleep_disable_count = 1))
    /\ UNCHANGED <<sleep_lock_acquire, dsLock>>

(* The device falls asleep by itself and wakes when it is asked to. *)
DeviceSleeps == awake /\ ~sleepDis /\ awake' = FALSE /\ UNCHANGED <<resumed, countVars, dsAck>>

DeviceLocks ==
    /\ dsLock
    /\ awake' = TRUE /\ dsLock' = FALSE /\ dsAck' = TRUE
    /\ UNCHANGED <<resumed, sleep_disable_count, sleep_lock_acquire, sleepDis>>

(* t7xx_mhccif_isr_thread() *)
LockAcknowledged ==
    /\ dsAck
    /\ dsAck' = FALSE /\ sleep_lock_acquire' = TRUE
    /\ UNCHANGED <<resumed, sleep_disable_count, sleepDis, awake, dsLock>>
=============================================================================
