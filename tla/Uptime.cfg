SPECIFICATION FairSpec
CONSTANTS
    AUTO_BOOT_DELAY = 2
    LED_BLINK_RATE = 1
    TimerMod = 4
    WordMod = 8
    Status <- MCStatus
PROPERTY UptimeAdvances
