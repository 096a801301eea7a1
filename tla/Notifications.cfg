SPECIFICATION Spec
CONSTANTS
    Hdi = Hdi
    Ipc = Ipc
    Zh = Zh
    Fr = Fr
    None = None
    Thread <- MCThread
    Popup <- MCPopup
    PopupConfig <- MCPopupConfig
    NotificationConfig <- MCNotificationConfig
    Locale <- MCLocale
    Path <- MCPath
    Match <- MCMatch
    Key <- MCKey
    Defines <- MCDefines
    Image <- MCImage
INVARIANTS
    IInv
    ShownIsOwned
    TextIsLocalised
    LastItemWins
SYMMETRY Symmetry
