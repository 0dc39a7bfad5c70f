---------------------------- MODULE WolfenPnpIds ----------------------------
(***************************************************************************)
(* The table wolfen_pnp_ids of wolfen-pnp-ids.h: a line per vendor, with   *)
(* its three letters and its name.  Only the letters tell vendors apart,   *)
(* so a line stands for its letters.  Vendors keep the order of the table; *)
(* a definition has those of one first letter.  At the end, what a lookup  *)
(* of the letters in an EDID gives.                                        *)
(***************************************************************************)
EXTENDS SequencesExt

VendorsA ==
  <<"AAA", "AAE", "AAM", "AAN", "AAT", "ABA", "ABC", "ABD", "ABE", "ABO", "ABS", "ABT", "ABV",
    "ACA", "ACB", "ACC", "ACD", "ACE", "ACG", "ACH", "ACI", "ACK", "ACL", "ACM", "ACO", "ACP",
    "ACR", "ACS", "ACT", "ACU", "ACV", "ADA", "ADB", "ADC", "ADD", "ADE", "ADG", "ADH", "ADI",
    "ADK", "ADL", "ADM", "ADN", "ADP", "ADR", "ADS", "ADT", "ADV", "ADX", "ADZ", "AEC", "AED",
    "AEI", "AEJ", "AEM", "AEN", "AEP", "AET", "AFA", "AGC", "AGI", "AGL", "AGM", "AGO", "AGT",
    "AHC", "AHQ", "AHS", "AIC", "AIE", "AII", "AIK", "AIL", "AIM", "AIR", "AIS", "AIW", "AIX",
    "AJA", "AKB", "AKE", "AKI", "AKL", "AKM", "AKP", "AKR", "AKY", "ALA", "ALC", "ALD", "ALE",
    "ALG", "ALH", "ALI", "ALJ", "ALK", "ALL", "ALM", "ALN", "ALO", "ALP", "ALR", "ALS", "ALT",
    "ALV", "ALX", "AMA", "AMB", "AMC", "AMD", "AMI", "AML", "AMN", "AMO", "AMP", "AMR", "AMS",
    "AMT", "AMX", "ANA", "ANC", "AND", "ANI", "ANK", "ANL", "ANO", "ANP", "ANR", "ANS", "ANT",
    "ANV", "ANW", "ANX", "AOA", "AOE", "AOL", "AOT", "APC", "APD", "APE", "APG", "API", "APL",
    "APM", "APN", "APP", "APR", "APS", "APT", "APV", "APX", "ARC", "ARD", "ARE", "ARG", "ARI",
    "ARK", "ARL", "ARM", "ARO", "ARR", "ARS", "ART", "ASC", "ASD", "ASE", "ASH", "ASI", "ASK",
    "ASL", "ASM", "ASN", "ASP", "AST", "ASU", "ASX", "ASY", "ATA", "ATC", "ATD", "ATE", "ATH",
    "ATI", "ATJ", "ATK", "ATL", "ATM", "ATN", "ATO", "ATP", "ATT", "ATU", "ATV", "ATX", "AUD",
    "AUG", "AUI", "AUO", "AUR", "AUS", "AUT", "AUV", "AVA", "AVC", "AVD", "AVE", "AVG", "AVI",
    "AVJ", "AVL", "AVM", "AVN", "AVO", "AVR", "AVS", "AVT", "AVV", "AVX", "AWC", "AWL", "AWS",
    "AXB", "AXC", "AXE", "AXI", "AXL", "AXO", "AXP", "AXT", "AXX", "AXY", "AYD", "AYR", "AZH",
    "AZM", "AZT">>

VendorsB ==
  <<"BAC", "BAN", "BBB", "BBH", "BBL", "BBV", "BBX", "BCC", "BCD", "BCI", "BCK", "BCM", "BCQ",
    "BCS", "BDO", "BDR", "BDS", "BEC", "BEI", "BEK", "BEL", "BEO", "BFE", "BFT", "BGB", "BGT",
    "BHZ", "BIA", "BIC", "BIG", "BII", "BIL", "BIO", "BIT", "BLD", "BLI", "BLN", "BLP", "BMD",
    "BMI", "BML", "BMS", "BNE", "BNK", "BNO", "BNS", "BOB", "BOE", "BOI", "BOS", "BPD", "BPS",
    "BPU", "BRA", "BRC", "BRG", "BRI", "BRL", "BRM", "BRO", "BSE", "BSG", "BSL", "BSN", "BST",
    "BTC", "BTE", "BTF", "BTI", "BTO", "BUF", "BUG", "BUJ", "BUL", "BUR", "BUS", "BUT", "BWK",
    "BXE", "BYD">>

VendorsC ==
  <<"CAA", "CAC", "CAG", "CAI", "CAL", "CAM", "CAN", "CAR", "CAS", "CAT", "CAV", "CBI", "CBR",
    "CBT", "CBX", "CCC", "CCI", "CCJ", "CCL", "CCP", "CDC", "CDD", "CDE", "CDG", "CDI", "CDK",
    "CDN", "CDP", "CDS", "CDT", "CDV", "CEA", "CEC", "CED", "CEF", "CEI", "CEM", "CEN", "CEP",
    "CER", "CET", "CFG", "CFR", "CGA", "CGS", "CGT", "CHA", "CHD", "CHE", "CHG", "CHI", "CHL",
    "CHM", "CHO", "CHP", "CHR", "CHS", "CHT", "CHY", "CIC", "CID", "CIE", "CII", "CIL", "CIN",
    "CIP", "CIR", "CIS", "CIT", "CKC", "CKJ", "CLA", "CLD", "CLE", "CLG", "CLI", "CLM", "CLO",
    "CLR", "CLT", "CLV", "CLX", "CMC", "CMD", "CMG", "CMI", "CMK", "CMM", "CMN", "CMO", "CMR",
    "CMS", "CMX", "CNB", "CNC", "CND", "CNE", "CNI", "CNN", "CNT", "COB", "COD", "COI", "COL",
    "COM", "CON", "COO", "COR", "COS", "COT", "COW", "COX", "CPC", "CPD", "CPI", "CPL", "CPM",
    "CPP", "CPQ", "CPT", "CPX", "CRA", "CRC", "CRD", "CRE", "CRH", "CRI", "CRL", "CRM", "CRN",
    "CRO", "CRQ", "CRS", "CRV", "CRW", "CRX", "CSB", "CSC", "CSD", "CSE", "CSI", "CSL", "CSM",
    "CSO", "CSS", "CST", "CSW", "CTA", "CTC", "CTE", "CTL", "CTM", "CTN", "CTP", "CTR", "CTS",
    "CTX", "CUB", "CUK", "CVA", "CVI", "CVP", "CVS", "CWC", "CWR", "CXT", "CYB", "CYC", "CYD",
    "CYL", "CYP", "CYT", "CYV", "CYW", "CYX", "CZC", "CZE">>

VendorsD ==
  <<"DAC", "DAE", "DAI", "DAK", "DAL", "DAN", "DAS", "DAT", "DAU", "DAV", "DAW", "DAX", "DBD",
    "DBI", "DBK", "DBL", "DBN", "DCA", "DCC", "DCD", "DCE", "DCI", "DCL", "DCM", "DCO", "DCR",
    "DCS", "DCT", "DCV", "DDA", "DDD", "DDE", "DDI", "DDS", "DDT", "DDV", "DEC", "DEF", "DEI",
    "DEL", "DEM", "DEN", "DEX", "DFI", "DFK", "DFT", "DGA", "DGC", "DGI", "DGK", "DGP", "DGS",
    "DGT", "DHD", "DHP", "DHQ", "DHT", "DIA", "DIG", "DII", "DIM", "DIN", "DIS", "DIT", "DJE",
    "DJP", "DKY", "DLB", "DLC", "DLD", "DLG", "DLK", "DLL", "DLM", "DLO", "DLT", "DMB", "DMC",
    "DMG", "DMM", "DMN", "DMO", "DMP", "DMS", "DMT", "DMV", "DNA", "DNG", "DNI", "DNT", "DNV",
    "DOL", "DOM", "DON", "DOT", "DPA", "DPC", "DPH", "DPI", "DPL", "DPM", "DPN", "DPS", "DPT",
    "DPX", "DQB", "DRB", "DRC", "DRD", "DRI", "DRS", "DSA", "DSD", "DSG", "DSI", "DSJ", "DSM",
    "DSP", "DTA", "DTC", "DTE", "DTI", "DTK", "DTL", "DTM", "DTN", "DTO", "DTT", "DTX", "DUA",
    "DUN", "DVD", "DVL", "DVS", "DVT", "DWE", "DXC", "DXD", "DXL", "DXN", "DXP", "DXS", "DYC",
    "DYM", "DYN", "DYX">>

VendorsE ==
  <<"EAC", "EAG", "EAS", "EBH", "EBS", "EBT", "ECA", "ECC", "ECH", "ECI", "ECK", "ECL", "ECM",
    "ECO", "ECP", "ECS", "ECT", "EDC", "EDG", "EDI", "EDM", "EDT", "EEE", "EEH", "EEI", "EEP",
    "EES", "EGA", "EGD", "EGL", "EGN", "EGO", "EHJ", "EHN", "EIC", "EIN", "EKA", "EKC", "EKS",
    "ELA", "ELC", "ELD", "ELE", "ELG", "ELI", "ELL", "ELM", "ELO", "ELS", "ELT", "ELU", "ELX",
    "EMB", "EMC", "EMD", "EME", "EMG", "EMI", "EMK", "EMO", "EMR", "EMU", "ENC", "END", "ENE",
    "ENI", "ENS", "ENT", "EON", "EPC", "EPH", "EPI", "EPN", "EPS", "EQP", "EQX", "ERG", "ERI",
    "ERN", "ERP", "ERS", "ERT", "ESA", "ESB", "ESC", "ESD", "ESG", "ESI", "ESK", "ESL", "ESN",
    "ESS", "EST", "ESY", "ETC", "ETD", "ETG", "ETH", "ETI", "ETK", "ETL", "ETS", "ETT", "EUT",
    "EVE", "EVI", "EVP", "EVX", "EXA", "EXC", "EXI", "EXN", "EXP", "EXR", "EXT", "EXX", "EXY",
    "EYE", "EYF", "EZE", "EZP">>

VendorsF ==
  <<"FAN", "FAR", "FBI", "FCB", "FCG", "FCS", "FDC", "FDD", "FDI", "FDT", "FDX", "FEC", "FEL",
    "FEN", "FER", "FFC", "FFI", "FGD", "FGL", "FHL", "FIC", "FIL", "FIN", "FIR", "FIS", "FIT",
    "FJC", "FJS", "FJT", "FLE", "FLI", "FLY", "FMA", "FMC", "FMI", "FML", "FMZ", "FNC", "FNI",
    "FOA", "FOK", "FOS", "FOV", "FOX", "FPC", "FPE", "FPS", "FPX", "FRC", "FRD", "FRE", "FRI",
    "FRO", "FRS", "FSC", "FSI", "FST", "FTC", "FTE", "FTG", "FTI", "FTL", "FTN", "FTR", "FTS",
    "FTW", "FUJ", "FUL", "FUN", "FUS", "FVC", "FVX", "FWA", "FWR", "FXX", "FZC", "FZI">>

VendorsG ==
  <<"GAC", "GAG", "GAL", "GAU", "GBT", "GCC", "GCI", "GCS", "GDC", "GDI", "GDS", "GDT", "GEC",
    "GED", "GEF", "GEH", "GEM", "GEN", "GEO", "GER", "GES", "GET", "GFM", "GFN", "GGL", "GGT",
    "GIC", "GIM", "GIP", "GIS", "GJN", "GLD", "GLE", "GLM", "GLS", "GMK", "GML", "GMM", "GMN",
    "GMX", "GND", "GNN", "GNZ", "GOE", "GPR", "GRA", "GRE", "GRH", "GRM", "GRV", "GRY", "GSB",
    "GSC", "GSM", "GSN", "GST", "GSY", "GTC", "GTI", "GTK", "GTM", "GTS", "GTT", "GUD", "GUP",
    "GUZ", "GVC", "GVL", "GVS", "GWI", "GWK", "GWY", "GXL", "GZE">>

VendorsH ==
  <<"HAE", "HAI", "HAL", "HAN", "HAR", "HAY", "HCA", "HCE", "HCL", "HCM", "HCP", "HCW", "HDC",
    "HDI", "HDV", "HEC", "HEL", "HER", "HET", "HHC", "HHI", "HHT", "HIB", "HIC", "HII", "HIK",
    "HIL", "HIQ", "HIS", "HIT", "HJI", "HKA", "HKC", "HKG", "HLG", "HMC", "HMK", "HMX", "HNM",
    "HNS", "HOB", "HOE", "HOL", "HON", "HPA", "HPC", "HPD", "HPE", "HPI", "HPK", "HPN", "HPQ",
    "HPR", "HRC", "HRE", "HRI", "HRL", "HRS", "HRT", "HSC", "HSD", "HSM", "HSN", "HSP", "HST",
    "HTC", "HTI", "HTK", "HTL", "HTR", "HTX", "HUB", "HUK", "HUM", "HVR", "HWA", "HWC", "HWD",
    "HWP", "HWV", "HXM", "HYC", "HYD", "HYL", "HYO", "HYP", "HYR", "HYT", "HYV">>

VendorsI ==
  <<"IAD", "IAF", "IAI", "IAT", "IBC", "IBI", "IBM", "IBP", "IBR", "ICA", "ICC", "ICD", "ICE",
    "ICI", "ICM", "ICN", "ICO", "ICP", "ICR", "ICS", "ICV", "ICX", "IDC", "IDE", "IDK", "IDN",
    "IDO", "IDP", "IDS", "IDT", "IDX", "IEC", "IEE", "IEI", "IFS", "IFT", "IFX", "IFZ", "IGC",
    "IGM", "IHE", "IIC", "III", "IIN", "IIT", "IKE", "IKS", "ILC", "ILS", "IMA", "IMB", "IMC",
    "IMD", "IME", "IMF", "IMG", "IMI", "IMM", "IMN", "IMP", "IMT", "IMX", "INA", "INC", "IND",
    "INE", "INF", "ING", "INI", "INK", "INL", "INM", "INN", "INO", "INP", "INS", "INT", "inu",
    "INV", "INX", "INZ", "IOA", "IOC", "IOD", "IOM", "ION", "IOS", "IOT", "IPC", "IPD", "IPI",
    "IPM", "IPN", "IPP", "IPQ", "IPR", "IPS", "IPT", "IPW", "IQI", "IQT", "IRD", "ISA", "ISC",
    "ISG", "ISI", "ISL", "ISM", "ISP", "ISR", "ISS", "IST", "ISY", "ITA", "ITC", "ITD", "ITE",
    "ITI", "ITK", "ITL", "ITM", "ITN", "ITP", "ITR", "ITS", "ITT", "ITX", "IUC", "IVI", "IVM",
    "IVO", "IVR", "IVS", "IWR", "IWX", "IXD", "IXN">>

VendorsJ ==
  <<"JAC", "JAE", "JAS", "JAT", "JAZ", "JCE", "JDI", "JDL", "JEM", "JEN", "JET", "JFX", "JGD",
    "JIC", "JKC", "JLK", "JMT", "JPC", "JPW", "JQE", "JSD", "JSI", "JSK", "JTS", "JTY", "JUK",
    "JUP", "JVC", "JWD", "JWL", "JWS", "JWY">>

VendorsK ==
  <<"KAR", "KBI", "KBL", "KCD", "KCL", "KDE", "KDK", "KDM", "KDS", "KDT", "KEC", "KEM", "KES",
    "KEU", "KEY", "KFC", "KFE", "KFX", "KGI", "KGL", "KGN", "KIO", "KIS", "KLT", "KMC", "KME",
    "KML", "KMR", "KNC", "KNX", "KOB", "KOD", "KOE", "KOL", "KOM", "KOP", "KOU", "KOW", "KPC",
    "KPT", "KRL", "KRM", "KRY", "KSC", "KSG", "KSL", "KSX", "KTC", "KTD", "KTE", "KTG", "KTI",
    "KTK", "KTN", "KTS", "KUR", "KVA", "KVX", "KWD", "KYC", "KYE", "KYK", "KYN", "KZI", "KZN">>

VendorsL ==
  <<"LAB", "LAC", "LAF", "LAG", "LAN", "LAS", "LAV", "LBC", "LBO", "LCC", "LCD", "LCE", "LCI",
    "LCM", "LCN", "LCP", "LCS", "LCT", "LDN", "LDT", "LEC", "LED", "LEG", "LEN", "LEO", "LEX",
    "LGC", "LGD", "LGI", "LGS", "LGX", "LHA", "LHC", "LHE", "LHT", "LIN", "LIP", "LIS", "LIT",
    "LJX", "LKM", "LLL", "LLT", "LMG", "LMI", "LMP", "LMS", "LMT", "LNC", "LND", "LNK", "LNR",
    "LNT", "LNV", "LNX", "LOC", "LOE", "LOG", "LOL", "LPE", "LPI", "LPL", "LSC", "LSD", "LSI",
    "LSJ", "LSL", "LSP", "LSY", "LTC", "LTI", "LTK", "LTN", "LTS", "LTV", "LTW", "LUC", "LUM",
    "LUX", "LVI", "LWC", "LWR", "LWW", "LXC", "LXN", "LXS", "LZX">>

VendorsM ==
  <<"MAC", "MAD", "MAE", "MAG", "MAI", "MAL", "MAN", "MAS", "MAT", "MAX", "MAY", "MAZ", "MBC",
    "MBD", "MBM", "MBV", "MCA", "MCC", "MCD", "MCE", "MCG", "MCI", "MCJ", "MCL", "MCM", "MCN",
    "MCO", "MCP", "MCQ", "MCR", "MCS", "MCT", "MCX", "MDA", "MDC", "MDD", "MDF", "MDG", "MDI",
    "MDK", "MDO", "MDR", "MDS", "MDT", "MDV", "MDX", "MDY", "MEC", "MED", "MEE", "MEG", "MEI",
    "MEJ", "MEK", "MEL", "MEN", "MEP", "MEQ", "MET", "MEU", "MEX", "MFG", "MFI", "MFR", "MGA",
    "MGC", "MGE", "MGL", "MGT", "MHQ", "MIC", "MID", "MII", "MIL", "MIM", "MIN", "MIP", "MIR",
    "MIS", "MIT", "MIV", "MJI", "MJS", "MKC", "MKS", "MKT", "MKV", "MLC", "MLD", "MLG", "MLI",
    "MLL", "MLM", "MLN", "MLP", "MLS", "MLT", "MLX", "MMA", "MMD", "MMF", "MMI", "MMM", "MMN",
    "MMS", "MMT", "MNC", "MNI", "MNL", "MNP", "MNS", "MOC", "MOD", "MOK", "MOM", "MOS", "MOT",
    "MPC", "MPI", "MPJ", "MPL", "MPN", "MPS", "MPV", "MPX", "MQP", "MRA", "MRC", "MRD", "MRG",
    "MRK", "MRL", "MRO", "MRT", "MSA", "MSC", "MSD", "MSF", "MSG", "MSH", "MSI", "MSK", "MSL",
    "MSM", "MSP", "MSR", "MST", "MSU", "MSV", "MSX", "MSY", "MTA", "MTB", "MTC", "MTD", "MTE",
    "MTH", "MTI", "MTJ", "MTK", "MTL", "MTM", "MTN", "MTR", "MTS", "MTT", "MTU", "MTX", "MUD",
    "MUK", "MVD", "MVI", "MVM", "MVN", "MVR", "MVS", "MVX", "MWI", "MWR", "MWY", "MXD", "MXI",
    "MXL", "MXM", "MXP", "MXT", "MXV", "MYA", "MYR", "MYX">>

VendorsN ==
  <<"NAC", "NAD", "NAF", "NAK", "NAL", "NAT", "NAV", "NAX", "NBL", "NBS", "NBT", "NCA", "NCC",
    "NCE", "NCI", "NCL", "NCP", "NCR", "NCS", "NCT", "NCV", "NDC", "NDF", "NDI", "NDK", "NDL",
    "NDS", "NEC", "NEO", "NES", "NET", "NEU", "NEX", "NFC", "NFS", "NGC", "NGS", "NHC", "NHT",
    "NIC", "NIS", "NIT", "NIX", "NLC", "NME", "NMP", "NMS", "NMV", "NMX", "NNC", "NOD", "NOE",
    "NOI", "NOK", "NOR", "NOT", "NPA", "NPI", "NRI", "NRL", "NRT", "NRV", "NSA", "NSC", "NSI",
    "NSP", "NSS", "NST", "NTC", "NTI", "NTK", "NTL", "NTN", "NTR", "NTS", "NTT", "NTW", "NTX",
    "NUG", "NUI", "NVC", "NVD", "NVI", "NVL", "NVO", "NVR", "NVT", "NWC", "NWL", "NWP", "NWS",
    "NXC", "NXE", "NXG", "NXP", "NXQ", "NXR", "NXS", "NXT", "NYC">>

VendorsO ==
  <<"OAK", "OAS", "OBS", "OCD", "OCN", "OCS", "ODM", "ODR", "OEC", "OEI", "OFI", "OHW", "OIC",
    "OIM", "OIN", "OKI", "OLC", "OLD", "OLI", "OLT", "OLV", "OLY", "OMC", "OMG", "OMN", "OMR",
    "ONE", "ONK", "ONL", "ONS", "ONW", "ONX", "OOS", "OPC", "OPI", "OPP", "OPT", "OPV", "OQI",
    "ORG", "ORI", "ORN", "OSA", "OSD", "OSI", "OSP", "OSR", "OTB", "OTI", "OTK", "OTM", "OTT",
    "OUK", "OVR", "OWL", "OXU", "OYO", "OZC", "OZD", "OZO">>

VendorsP ==
  <<"PAC", "PAD", "PAE", "PAK", "PAM", "PAN", "PAR", "PBI", "PBL", "PBN", "PBV", "PCA", "PCB",
    "PCC", "PCG", "PCI", "PCK", "PCL", "PCM", "PCO", "PCP", "PCS", "PCT", "PCW", "PCX", "PDM",
    "PDN", "PDR", "PDS", "PDT", "PDV", "PEC", "PEG", "PEI", "PEL", "PEN", "PEP", "PER", "PET",
    "PFT", "PGI", "PGM", "PGP", "PGS", "PHC", "PHE", "PHI", "PHL", "PHO", "PHS", "PHY", "PIC",
    "PIE", "PIM", "PIO", "PIR", "PIS", "PIX", "PJA", "PJD", "PJT", "PKA", "PLC", "PLF", "PLM",
    "PLT", "PLV", "PLX", "PLY", "PMC", "PMD", "PMM", "PMS", "PMT", "PMX", "PNG", "PNL", "PNP",
    "PNR", "PNS", "PNT", "PNX", "POL", "PON", "POR", "POS", "POT", "PPC", "PPD", "PPI", "PPM",
    "PPP", "PPR", "PPX", "PQI", "PRA", "PRC", "PRD", "PRF", "PRG", "PRI", "PRM", "PRO", "PRP",
    "PRS", "PRT", "PRX", "PSA", "PSC", "PSD", "PSE", "PSI", "PSL", "PSM", "PST", "PSY", "PTA",
    "PTC", "PTG", "PTH", "PTI", "PTL", "PTS", "PTW", "PTX", "PUL", "PVC", "PVG", "PVI", "PVM",
    "PVN", "PVP", "PVR", "PXC", "PXE", "PXL", "PXM", "PXN", "PXO">>

VendorsQ ==
  <<"QCC", "QCH", "QCI", "QCK", "QCL", "QCP", "QDI", "QDL", "QDM", "QDS", "QFF", "QFI", "QLC",
    "QQQ", "QSC", "QSI", "QTD", "QTH", "QTI", "QTM", "QTR", "QUA", "QUE", "QVU">>

VendorsR ==
  <<"RAC", "RAD", "RAI", "RAN", "RAR", "RAS", "RAT", "RAY", "RCE", "RCH", "RCI", "RCN", "RCO",
    "RDI", "RDL", "RDM", "RDN", "RDS", "REA", "REC", "RED", "REF", "REH", "REL", "REM", "REN",
    "RES", "RET", "REV", "REX", "RFI", "RFX", "RGB", "RGL", "RHD", "RHM", "RHT", "RIC", "RII",
    "RIO", "RIT", "RIV", "RJA", "RJS", "RKC", "RLD", "RLN", "RMC", "RMP", "RMS", "RMT", "RNB",
    "RNL", "ROB", "ROH", "ROK", "ROP", "ROS", "RPI", "RPL", "RPT", "RRI", "RRO", "RSC", "RSH",
    "RSI", "RSN", "RSQ", "RSR", "RSS", "RSV", "RSX", "RTC", "RTI", "RTK", "RTL", "RTS", "RUN",
    "RUP", "RVC", "RVI", "RVL", "RWC", "RXT", "RZR", "RZS">>

VendorsS ==
  <<"SAA", "SAE", "SAG", "SAI", "SAK", "SAM", "SAN", "SAS", "SAT", "SBC", "SBD", "SBI", "SBS",
    "SBT", "SCA", "SCB", "SCC", "SCD", "SCE", "SCG", "SCH", "SCI", "SCL", "SCM", "SCN", "SCO",
    "SCP", "SCR", "SCS", "SCT", "SCX", "SDA", "SDC", "SDD", "SDE", "SDF", "SDH", "SDI", "SDK",
    "SDR", "SDS", "SDT", "SDX", "SEA", "SEB", "SEC", "SEE", "SEG", "SEI", "SEL", "SEM", "SEN",
    "SEO", "SEP", "SER", "SES", "SET", "SFL", "SFM", "SFT", "SGC", "SGD", "SGE", "SGI", "SGL",
    "SGM", "SGN", "SGO", "SGT", "SGW", "SGX", "SGZ", "SHC", "SHG", "SHI", "SHP", "SHR", "SHT",
    "SHU", "SIA", "SIB", "SIC", "SID", "SIE", "SIG", "SII", "SIL", "SIM", "SIN", "SIR", "SIS",
    "SIT", "SIU", "SIX", "SJE", "SKD", "SKG", "SKI", "SKM", "SKT", "SKW", "SKY", "SLA", "SLB",
    "SLC", "SLF", "SLH", "SLI", "SLK", "SLM", "SLR", "SLS", "SLT", "SLX", "SMA", "SMB", "SMC",
    "SME", "SMI", "SMK", "SML", "SMM", "SMN", "SMO", "SMP", "SMR", "SMS", "SMT", "SNC", "SNI",
    "SNK", "SNN", "SNO", "SNP", "SNS", "SNT", "SNV", "SNW", "SNX", "SNY", "SOC", "SOI", "SOL",
    "SON", "SOR", "SOT", "SOY", "SPC", "SPE", "SPH", "SPI", "SPK", "SPL", "SPN", "SPO", "SPR",
    "SPS", "SPT", "SPU", "SPX", "SQT", "SRC", "SRD", "SRF", "SRG", "SRS", "SRT", "SSC", "SSD",
    "SSE", "SSG", "SSI", "SSJ", "SSL", "SSP", "SSS", "SST", "STA", "STB", "STC", "STD", "STE",
    "STF", "STG", "STH", "STI", "STK", "STL", "STM", "STN", "STO", "STP", "STQ", "STR", "STS",
    "STT", "STU", "STV", "STW", "STX", "STY", "SUB", "SUM", "SUN", "SUP", "SUR", "SVA", "SVC",
    "SVD", "SVI", "SVR", "SVS", "SVT", "SWC", "SWI", "SWL", "SWO", "SWS", "SWT", "SXB", "SXD",
    "SXG", "SXI", "SXL", "SXT", "SYC", "SYE", "SYK", "SYL", "SYM", "SYN", "SYP", "SYS", "SYT",
    "SYV", "SYX", "SZM">>

VendorsT ==
  <<"TAA", "TAB", "TAG", "TAI", "TAM", "TAS", "TAT", "TAV", "TAX", "TBB", "TBC", "TBS", "TCC",
    "TCD", "TCE", "TCF", "TCH", "TCI", "TCJ", "TCL", "TCM", "TCN", "TCO", "TCR", "TCS", "TCT",
    "TCX", "TDC", "TDD", "TDG", "TDM", "TDP", "TDS", "TDT", "TDV", "TDY", "TEA", "TEC", "TEK",
    "TEL", "TEN", "TER", "TET", "TEV", "TEZ", "TGC", "TGI", "TGM", "TGS", "TGV", "TGW", "THN",
    "TIC", "TIL", "TIP", "TIV", "TIX", "TKC", "TKG", "TKN", "TKO", "TKS", "TLA", "TLD", "TLE",
    "TLF", "TLI", "TLK", "TLL", "TLN", "TLS", "TLT", "TLV", "TLX", "TLY", "TMA", "TMC", "TME",
    "TMI", "TMM", "TMO", "TMR", "TMS", "TMT", "TMV", "TMX", "TNC", "TNJ", "TNM", "TNY", "TOE",
    "TOG", "TOL", "TOM", "TON", "TOP", "TOS", "TOU", "TPC", "TPD", "TPE", "TPJ", "TPK", "TPR",
    "TPS", "TPT", "TPV", "TPZ", "TRA", "TRB", "TRC", "TRD", "TRE", "TRI", "TRL", "TRM", "TRN",
    "TRP", "TRS", "TRT", "TRU", "TRV", "TRX", "TSB", "TSC", "TSD", "TSE", "TSF", "TSG", "TSH",
    "TSI", "TSL", "TSP", "TST", "TSV", "TSW", "TSY", "TTA", "TTB", "TTC", "TTE", "TTI", "TTK",
    "TTL", "TTP", "TTR", "TTS", "TTX", "TTY", "TUA", "TUT", "TVD", "TVI", "TVL", "TVM", "TVO",
    "TVR", "TVS", "TVV", "TWA", "TWE", "TWH", "TWI", "TWK", "TWX", "TXL", "TXN", "TXT", "TYN">>

VendorsU ==
  <<"UAS", "UBI", "UBL", "UBU", "UDN", "UEC", "UEG", "UEI", "UET", "UFG", "UFO", "UGR", "UHB",
    "UIC", "UJR", "ULT", "UMC", "UMG", "UMM", "UMT", "UNA", "UNB", "UNC", "UND", "UNE", "UNF",
    "UNI", "UNM", "UNO", "UNP", "UNS", "UNT", "UNY", "UPP", "UPS", "URD", "USA", "USD", "USE",
    "USI", "USR", "UTC", "UTD", "UWC">>

VendorsV ==
  <<"VAD", "VAI", "VAL", "VAR", "VAT", "VAV", "VBR", "VBT", "VCC", "VCE", "VCI", "VCJ", "VCM",
    "VCX", "VDA", "VDC", "VDM", "VDO", "VDS", "VDT", "VEC", "VEK", "VES", "VFI", "VHI", "VIA",
    "VIB", "VIC", "VID", "VIK", "VIM", "VIN", "VIO", "VIR", "VIS", "VIT", "VIZ", "VLB", "VLC",
    "VLK", "VLM", "VLT", "VLV", "VMI", "VML", "VMW", "VNC", "VNX", "VOB", "VPI", "VPR", "VPX",
    "VQ@", "VRC", "VRG", "VRM", "VRS", "VRT", "VSC", "VSD", "VSI", "VSN", "VSP", "VSR", "VTB",
    "VTC", "VTG", "VTI", "VTK", "VTL", "VTM", "VTN", "VTS", "VTV", "VTX", "VUT", "VVI", "VWB">>

VendorsW ==
  <<"WAC", "WAL", "WAN", "WAV", "WBN", "WBS", "WCI", "WCS", "WDC", "WDE", "WEB", "WEC", "WEL",
    "WEY", "WHI", "WII", "WIL", "WIN", "WIP", "WKH", "WLD", "WLF", "WMI", "WML", "WMO", "WMT",
    "WNI", "WNV", "WNX", "WPA", "WPI", "WRC", "WSC", "WSP", "WST", "WTC", "WTI", "WTK", "WTS",
    "WVM", "WVV", "WWP", "WWV", "WXT", "WYR", "WYS", "WYT">>

VendorsX ==
  <<"XAC", "XAD", "XDM", "XER", "XES", "XFG", "XFO", "XIN", "XIO", "XIR", "XIT", "XLX", "XMI",
    "XMM", "XNT", "XOC", "XQU", "XRC", "XRO", "XSN", "XST", "XSY", "XTD", "XTE", "XTL", "XTN",
    "XYC", "XYE">>

VendorsY ==
  <<"YED", "YHQ", "YHW", "YMH", "YOW">>

VendorsZ ==
  <<"ZAN", "ZAX", "ZAZ", "ZBR", "ZBX", "ZCT", "ZDS", "ZEN", "ZGT", "ZIC", "ZMC", "ZMT", "ZMZ",
    "ZNI", "ZNX", "ZOW", "ZRN", "ZSE", "ZTC", "ZTE", "ZTI", "ZTM", "ZTT", "ZWE", "ZYD", "ZYP",
    "ZYT", "ZYX", "ZZZ">>

(* The whole table, whose lines are cut by "\n". *)
Vendors ==
  VendorsA \o VendorsB \o VendorsC \o VendorsD \o VendorsE \o VendorsF \o VendorsG \o VendorsH \o VendorsI
  \o VendorsJ \o VendorsK \o VendorsL \o VendorsM \o VendorsN \o VendorsO \o VendorsP \o VendorsQ \o VendorsR
  \o VendorsS \o VendorsT \o VendorsU \o VendorsV \o VendorsW \o VendorsX \o VendorsY \o VendorsZ

(* A letter is five bits; there is nothing to stop a zero. *)
Letter(n) ==
  <<"@", "A", "B", "C", "D", "E", "F", "G", "H", "I", "J", "K", "L", "M", "N", "O", "P", "Q", "R",
    "S", "T", "U", "V", "W", "X", "Y", "Z", "[", "\\", "]", "^", "_">>[n + 1]

(* edid_pnp_name, for bytes 8 and 9 of an EDID. *)
PnpName(m) ==
  Letter((m[1] \div 4) % 32) \o Letter((m[1] % 4) * 8 + (m[2] \div 32)) \o Letter(m[2] % 32)

(* The lines strtok returns: the first call of a lookup starts at the table's
   first byte, and no call goes past a NUL.  The first lookup leaves one in place
   of every "\n" and cuts the table for good, so that later ones are given the
   first line only.  The byte after the table, which has no NUL of its own, is
   taken to be one (it is padding). *)
Tokens(cut) == IF cut THEN 1..1 ELSE 1..Len(Vendors)

(* The line a lookup copies the vendor's name from: the last one of those letters,
   0 if there is none. *)
Lookup(cut, m) ==
  LET name == PnpName(m)
      found == {k \in Tokens(cut) : Vendors[k] = name} IN
  IF found = {} THEN 0 ELSE Max(found)

=============================================================================
